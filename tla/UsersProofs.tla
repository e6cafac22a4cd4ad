----------------------------- MODULE UsersProofs -----------------------------
(***************************************************************************)
(* What holds of accounts, sessions, uploads and playlists for any number   *)
(* of users, requests, tokens and entries.                                  *)
(***************************************************************************)
EXTENDS MCUsers, FiniteSetTheorems, SequenceTheorems, WellFoundedInduction, TLAPS

-----------------------------------------------------------------------------
(* Accounts: a request that changes one keeps the rows it holds as they are  *)
(* until it ends.                                                            *)

AccountRecords == [role : {"USER", "ADMIN"}, status : {"NONE", "ACTIVE", "SUSPENDED", "DELETED"},
                   version : Nat]
ChangeRecords == [at : Admins!Steps, user : Users \union {None}, to : Admins!Targets \union {"none"},
                  version : Nat, held : SUBSET Users]

Administers(row) == row.role = "ADMIN" /\ row.status = "ACTIVE"

\* What a request holds, and the other administrator one counted that takes
\* away the access of an administrator.
ChangeFits(ch, rows) ==
    /\ ch.at # "none" => ch.user \in Users /\ rows[ch.user].status # "NONE"
    /\ ch.at \notin {"count", "write"} => ch.held = {}
    /\ ch.at \in {"count", "write"} => ch.user \in ch.held
    /\ \A u \in ch.held : rows[u].status # "NONE"
    /\ ch.at = "write" /\ Administers(rows[ch.user]) /\ ch.to \in Admins!Removing =>
          \E a \in ch.held : a # ch.user /\ Administers(rows[a])

AccountsInv ==
    /\ user \in [Users -> AccountRecords] /\ change \in [Callers -> ChangeRecords] /\ changes \in Nat
    /\ \A c \in Callers : ChangeFits(change[c], user)
    /\ \A c, d \in Callers : c # d => change[c].held \intersect change[d].held = {}

LEMMA ActiveAre ==
    Admins!ActiveAdmins = {u \in Users : Administers(user[u])}
BY DEF Admins!ActiveAdmins, Administers

(* Rows that others hold stay as they are, so what they counted stays true.  *)
LEMMA FitsStays ==
    ASSUME NEW ch \in ChangeRecords, NEW rows, NEW after, ChangeFits(ch, rows),
           \A u \in ch.held : after[u] = rows[u],
           \A u \in Users : rows[u].status # "NONE" => after[u].status # "NONE"
    PROVE  ChangeFits(ch, after)
<1>1. ch.held \subseteq Users
  BY DEF ChangeRecords
<1>2. ch.at = "write" => after[ch.user] = rows[ch.user]
  BY DEF ChangeFits
<1> QED
  BY <1>1, <1>2 DEF ChangeFits

LEMMA ChangeStep ==
    ASSUME AccountsInv, NEW c \in Callers, NEW ch \in ChangeRecords,
           change' = [change EXCEPT ![c] = ch], user' \in [Users -> AccountRecords], changes' \in Nat,
           \A u \in Users : user[u].status # "NONE" => user'[u].status # "NONE",
           \A d \in Callers \ {c}, u \in Users : u \in change[d].held => user'[u] = user[u],
           \A d \in Callers \ {c} : ch.held \intersect change[d].held = {},
           ChangeFits(ch, user')
    PROVE  AccountsInv'
<1>1. change' \in [Callers -> ChangeRecords]
  BY DEF AccountsInv
<1>2. change'[c] = ch /\ \A d \in Callers \ {c} : change'[d] = change[d]
  BY DEF AccountsInv
<1>3. ASSUME NEW d \in Callers \ {c} PROVE ChangeFits(change[d], user')
  <2>1. change[d] \in ChangeRecords /\ ChangeFits(change[d], user)
    BY DEF AccountsInv
  <2>2. change[d].held \subseteq Users
    BY <2>1 DEF ChangeRecords
  <2> QED
    BY <2>1, <2>2, FitsStays
<1>4. \A d, e \in Callers : d # e => change'[d].held \intersect change'[e].held = {}
  BY <1>2 DEF AccountsInv
<1> QED
  BY <1>1, <1>2, <1>3, <1>4 DEF AccountsInv

LEMMA NoChangeFits ==
    ASSUME NEW rows
    PROVE  Admins!NoChange \in ChangeRecords /\ ChangeFits(Admins!NoChange, rows) /\ Admins!NoChange.held = {}
BY DEF Admins!NoChange, ChangeRecords, ChangeFits, Admins!Steps, Admins!Targets

(* A request begins with nothing held.                                       *)
LEMMA AccountsBegin ==
    ASSUME AccountsInv, NEW c \in Callers, NEW u \in Users, NEW at \in {"lock", "set"},
           NEW to \in Admins!Targets, Admins!Begin(c, at, u, to)
    PROVE  AccountsInv'
<1> DEFINE ch == [Admins!NoChange EXCEPT !.at = at, !.user = u, !.to = to, !.version = user[u].version]
<1>1. change' = [change EXCEPT ![c] = ch] /\ user' = user /\ changes' = changes + 1
      /\ user[u].status # "NONE"
  BY DEF Admins!Begin, Admins!Named
<1>2. user[u].version \in Nat
  BY DEF AccountsInv, AccountRecords
<1>3. ch \in ChangeRecords /\ ch.held = {} /\ ch.at = at /\ ch.user = u
  BY <1>2 DEF Admins!NoChange, ChangeRecords, Admins!Steps, Admins!Targets
<1> HIDE DEF ch
<1>4. ChangeFits(ch, user)
  BY <1>1, <1>3 DEF ChangeFits
<1>5. changes' \in Nat /\ user' \in [Users -> AccountRecords]
  BY <1>1 DEF AccountsInv
<1> QED
  BY <1>1, <1>3, <1>4, <1>5, ChangeStep

LEMMA AccountsEnd ==
    ASSUME AccountsInv, NEW c \in Callers, Admins!Ends(c), UNCHANGED <<user, changes>>
    PROVE  AccountsInv'
<1>1. change' = [change EXCEPT ![c] = Admins!NoChange]
  BY DEF Admins!Ends
<1>2. changes' \in Nat /\ user' \in [Users -> AccountRecords]
  BY DEF AccountsInv
<1> QED
  BY <1>1, <1>2, NoChangeFits, ChangeStep

(* What a request holds and where it is, when it goes on.                    *)
LEMMA ChangeGoes ==
    ASSUME AccountsInv, NEW c \in Callers, NEW at \in Admins!Steps, NEW held \in SUBSET Users,
           Admins!Goes(c, at, held)
    PROVE  \E ch \in ChangeRecords :
              /\ change' = [change EXCEPT ![c] = ch]
              /\ ch.at = at /\ ch.held = held /\ ch.user = change[c].user /\ ch.to = change[c].to
<1> DEFINE ch == [change[c] EXCEPT !.at = at, !.held = held]
<1>1. change' = [change EXCEPT ![c] = ch]
  BY DEF Admins!Goes
<1>2. change[c] \in ChangeRecords
  BY DEF AccountsInv
<1>3. ch \in ChangeRecords /\ ch.at = at /\ ch.held = held /\ ch.user = change[c].user
      /\ ch.to = change[c].to
  BY <1>2 DEF ChangeRecords
<1> QED
  BY <1>1, <1>3

LEMMA AccountsLock ==
    ASSUME AccountsInv, NEW c \in Callers, Admins!LockUser(c)
    PROVE  AccountsInv'
<1> DEFINE u == change[c].user
<1>1. change[c].at = "lock" /\ ~Admins!HeldByOther(c, u) /\ UNCHANGED <<user, changes>>
  BY DEF Admins!LockUser
<1>2. CASE Admins!Ends(c)
  BY <1>1, <1>2, AccountsEnd
<1>3. CASE ~Admins!Ends(c)
  <2>1. PICK at : /\ at = IF Admins!RemovesAdministratorAccess(u, change[c].to) THEN "count" ELSE "write"
                  /\ Admins!Goes(c, at, {u})
    BY <1>3 DEF Admins!LockUser
  <2>2. u \in Users /\ user[u].status # "NONE" /\ ChangeFits(change[c], user)
    BY <1>1 DEF AccountsInv, ChangeFits
  <2>3. PICK ch \in ChangeRecords :
              /\ change' = [change EXCEPT ![c] = ch]
              /\ ch.at = at /\ ch.held = {u} /\ ch.user = u /\ ch.to = change[c].to
    <3>1. at \in Admins!Steps /\ {u} \in SUBSET Users
      BY <2>1, <2>2 DEF Admins!Steps
    <3> QED
      BY <2>1, <3>1, ChangeGoes
  <2>4. at = "write" => ~(Administers(user[u]) /\ ch.to \in Admins!Removing)
    BY <2>1, <2>2, <2>3, ActiveAre DEF Admins!RemovesAdministratorAccess
  <2>5. ChangeFits(ch, user)
    BY <2>1, <2>2, <2>3, <2>4 DEF ChangeFits
  <2>6. \A d \in Callers \ {c} : {u} \intersect change[d].held = {}
    BY <1>1 DEF Admins!HeldByOther
  <2>7. changes' \in Nat /\ user' \in [Users -> AccountRecords] /\ user' = user
    BY <1>1 DEF AccountsInv
  <2> QED
    BY <2>3, <2>5, <2>6, <2>7, ChangeStep
<1> QED
  BY <1>2, <1>3

LEMMA AccountsCount ==
    ASSUME AccountsInv, NEW c \in Callers, Admins!CountAdministrators(c)
    PROVE  AccountsInv'
<1> DEFINE u == change[c].user
           held == Admins!ActiveAdmins \union {u}
<1>1. change[c].at = "count" /\ UNCHANGED <<user, changes>>
      /\ \A a \in Admins!ActiveAdmins : ~Admins!HeldByOther(c, a)
  BY DEF Admins!CountAdministrators
<1>2. CASE Admins!Ends(c)
  BY <1>1, <1>2, AccountsEnd
<1>3. CASE ~Admins!Ends(c)
  <2>1. Admins!ActiveAdmins \ {u} # {} /\ Admins!Goes(c, "write", held)
    BY <1>3 DEF Admins!CountAdministrators, Admins!RefuseOrWrite
  <2>2. u \in Users /\ ChangeFits(change[c], user) /\ u \in change[c].held /\ user[u].status # "NONE"
    BY <1>1 DEF AccountsInv, ChangeFits
  <2>3. PICK ch \in ChangeRecords :
              /\ change' = [change EXCEPT ![c] = ch]
              /\ ch.at = "write" /\ ch.held = held /\ ch.user = u /\ ch.to = change[c].to
    <3>1. held \in SUBSET Users /\ "write" \in Admins!Steps
      BY <2>2, ActiveAre DEF Admins!Steps
    <3> QED
      BY <2>1, <3>1, ChangeGoes
  <2>4. \A a \in held : user[a].status # "NONE"
    BY <2>2, ActiveAre DEF Administers
  <2>5. \E a \in held : a # u /\ Administers(user[a])
    BY <2>1, ActiveAre
  <2>6. ChangeFits(ch, user)
    BY <2>2, <2>3, <2>4, <2>5 DEF ChangeFits
  <2>7. \A d \in Callers \ {c} : held \intersect change[d].held = {}
    BY <1>1, <2>2 DEF Admins!HeldByOther, AccountsInv
  <2>8. changes' \in Nat /\ user' \in [Users -> AccountRecords] /\ user' = user
    BY <1>1 DEF AccountsInv
  <2> QED
    BY <2>3, <2>6, <2>7, <2>8, ChangeStep
<1> QED
  BY <1>2, <1>3

(* A row changed keeps its name, and only the request that holds it changes it. *)
LEMMA ChangedIs ==
    ASSUME AccountsInv, NEW u \in Users, NEW to \in Admins!Targets, user[u].status # "NONE"
    PROVE  /\ Admins!Changed(u, to) \in AccountRecords
           /\ Admins!Changed(u, to).status # "NONE"
<1> DEFINE row == user[u]
           role == IF to \in {"USER", "ADMIN"} THEN to ELSE row.role
           status == IF to \in {"ACTIVE", "SUSPENDED", "DELETED"} THEN to ELSE row.status
<1>1. row \in AccountRecords
  BY DEF AccountsInv
<1>2. /\ role \in {"USER", "ADMIN"} /\ row.version + 1 \in Nat
      /\ status \in {"NONE", "ACTIVE", "SUSPENDED", "DELETED"} /\ status # "NONE"
  BY <1>1 DEF AccountRecords
<1>3. Admins!Changed(u, to) = [row EXCEPT !.version = row.version + 1, !.role = role, !.status = status]
  BY DEF Admins!Changed
<1> HIDE DEF row, role, status
<1> QED
  BY <1>1, <1>2, <1>3 DEF AccountRecords

LEMMA AccountsWrite ==
    ASSUME AccountsInv, NEW c \in Callers, NEW u \in Users, NEW to \in Admins!Targets,
           user[u].status # "NONE", Admins!Ends(c), UNCHANGED changes,
           \A d \in Callers \ {c} : u \notin change[d].held,
           user' = [user EXCEPT ![u] = Admins!Changed(u, to)]
    PROVE  AccountsInv'
<1>1. user \in [Users -> AccountRecords] /\ changes' \in Nat
  BY DEF AccountsInv
<1>2. user' \in [Users -> AccountRecords] /\ \A v \in Users : v # u => user'[v] = user[v]
  BY <1>1, ChangedIs
<1>3. \A v \in Users : user[v].status # "NONE" => user'[v].status # "NONE"
  BY <1>1, <1>2, ChangedIs
<1>4. change' = [change EXCEPT ![c] = Admins!NoChange]
  BY DEF Admins!Ends
<1> QED
  BY <1>1, <1>2, <1>3, <1>4, NoChangeFits, ChangeStep

LEMMA AccountsCommit ==
    ASSUME AccountsInv, NEW c \in Callers, Admins!CommitUser(c)
    PROVE  AccountsInv'
<1>1. change[c].at = "write" /\ Admins!Ends(c) /\ UNCHANGED changes
      /\ user' = [user EXCEPT ![change[c].user] = Admins!Changed(change[c].user, change[c].to)]
  BY DEF Admins!CommitUser
<1>2. ChangeFits(change[c], user) /\ change[c] \in ChangeRecords
  BY DEF AccountsInv
<1>3. change[c].user \in Users /\ user[change[c].user].status # "NONE"
      /\ change[c].user \in change[c].held
  BY <1>1, <1>2 DEF ChangeFits
<1>4. \A d \in Callers \ {c} : change[c].user \notin change[d].held
  BY <1>3 DEF AccountsInv
<1>5. CASE change[c].to \in Admins!Targets
  BY <1>1, <1>3, <1>4, <1>5, AccountsWrite
<1>6. CASE change[c].to = "none"
  <2>1. Admins!Changed(change[c].user, "none") = Admins!Changed(change[c].user, "name")
    BY Zenon DEF Admins!Changed
  <2>2. "name" \in Admins!Targets
    BY DEF Admins!Targets
  <2> QED
    BY <1>1, <1>3, <1>4, <1>6, <2>1, <2>2, AccountsWrite
<1> QED
  BY <1>2, <1>5, <1>6 DEF ChangeRecords

LEMMA AccountsConditional ==
    ASSUME AccountsInv, NEW c \in Callers, Admins!CommitConditional(c)
    PROVE  AccountsInv'
<1> DEFINE u == change[c].user
<1>1. change[c].at = "set" /\ ~Admins!HeldByOther(c, u) /\ Admins!Ends(c) /\ UNCHANGED changes
      /\ \/ user' = [user EXCEPT ![u] = Admins!Changed(u, change[c].to)]
         \/ user' = user
  BY DEF Admins!CommitConditional
<1>2. ChangeFits(change[c], user) /\ change[c] \in ChangeRecords
  BY DEF AccountsInv
<1>3. u \in Users /\ user[u].status # "NONE" /\ \A d \in Callers \ {c} : u \notin change[d].held
  BY <1>1, <1>2 DEF ChangeFits, Admins!HeldByOther
<1>4. CASE user' = user
  BY <1>1, <1>4, AccountsEnd
<1>5. CASE user' = [user EXCEPT ![u] = Admins!Changed(u, change[c].to)] /\ change[c].to \in Admins!Targets
  BY <1>1, <1>3, <1>5, AccountsWrite
<1>6. CASE user' = [user EXCEPT ![u] = Admins!Changed(u, change[c].to)] /\ change[c].to = "none"
  <2>1. Admins!Changed(u, "none") = Admins!Changed(u, "name")
    BY Zenon DEF Admins!Changed
  <2>2. "name" \in Admins!Targets
    BY DEF Admins!Targets
  <2> QED
    BY <1>1, <1>3, <1>6, <2>1, <2>2, AccountsWrite
<1> QED
  BY <1>1, <1>2, <1>4, <1>5, <1>6 DEF ChangeRecords

(* A new account is nobody's row.                                            *)
LEMMA AccountsCreate ==
    ASSUME AccountsInv, NEW u \in Users, NEW role \in {"USER", "ADMIN"}, Admins!CreateUser(u, role)
    PROVE  AccountsInv'
<1>1. user[u].status = "NONE" /\ change' = change /\ changes' = changes + 1
      /\ user' = [user EXCEPT ![u].status = "ACTIVE", ![u].role = role]
  BY DEF Admins!CreateUser, Admins!Named
<1>2. user[u] \in AccountRecords /\ user \in [Users -> AccountRecords]
  BY DEF AccountsInv
<1>3. user' \in [Users -> AccountRecords] /\ \A v \in Users : v # u => user'[v] = user[v]
  BY <1>1, <1>2 DEF AccountRecords
<1>4. \A v \in Users : user[v].status # "NONE" => user'[v] = user[v]
  BY <1>1, <1>3
<1>5. ASSUME NEW c \in Callers PROVE ChangeFits(change[c], user')
  <2>1. ChangeFits(change[c], user) /\ change[c] \in ChangeRecords
    BY DEF AccountsInv
  <2>2. \A v \in change[c].held : user'[v] = user[v]
    BY <1>4, <2>1 DEF ChangeFits, ChangeRecords
  <2>3. \A v \in Users : user[v].status # "NONE" => user'[v].status # "NONE"
    BY <1>4
  <2> QED
    BY <2>1, <2>2, <2>3, FitsStays
<1>6. /\ change \in [Callers -> ChangeRecords] /\ changes' \in Nat
      /\ \A c, d \in Callers : c # d => change[c].held \intersect change[d].held = {}
  BY <1>1 DEF AccountsInv
<1>7. change' = change /\ user' \in [Users -> AccountRecords]
  BY <1>1, <1>3
<1> QED
  BY ONLY <1>5, <1>6, <1>7 DEF AccountsInv

LEMMA AccountsStep ==
    ASSUME AccountsInv, Admins!Next
    PROVE  AccountsInv'
<1>1. ASSUME NEW c \in Callers, NEW admin \in Users, NEW u \in Users, NEW to \in Admins!Targets,
             \/ Admins!UpdateUser(c, admin, u, to) \/ Admins!UpdateUserStatus(c, admin, u, to)
             \/ Admins!ResetPassword(c, admin, u)
      PROVE  AccountsInv'
  <2>1. PICK at \in {"lock", "set"} : \E v \in {to, "password"} : Admins!Begin(c, at, u, v)
    BY <1>1 DEF Admins!UpdateUser, Admins!UpdateUserStatus, Admins!ResetPassword
  <2>2. "password" \in Admins!Targets
    BY DEF Admins!Targets
  <2> QED
    BY <2>1, <2>2, AccountsBegin
<1>2. ASSUME NEW c \in Callers, Admins!LockUser(c) \/ Admins!CountAdministrators(c)
                                \/ Admins!CommitUser(c) \/ Admins!CommitConditional(c)
      PROVE  AccountsInv'
  BY <1>2, AccountsLock, AccountsCount, AccountsCommit, AccountsConditional
<1>3. ASSUME NEW c \in Callers, NEW d \in Callers, Admins!Deadlock(c, d) PROVE AccountsInv'
  BY <1>3, AccountsEnd DEF Admins!Deadlock
<1>4. ASSUME NEW admin \in Users, NEW u \in Users,
             Admins!Register(u) \/ Admins!CreateManagedUser(admin, u)
      PROVE  AccountsInv'
  BY <1>4, AccountsCreate DEF Admins!Register, Admins!CreateManagedUser
<1> QED
  BY <1>1, <1>2, <1>3, <1>4 DEF Admins!Next

LEMMA AccountsInit ==
    ASSUME Admins!Init
    PROVE  AccountsInv
<1>1. \A u \in Users : user[u] \in AccountRecords
  BY DEF Admins!Init, Admins!Nobody, AccountRecords
<1>2. user \in [Users -> AccountRecords]
  BY <1>1 DEF Admins!Init
<1>3. \A c \in Callers : change[c] = Admins!NoChange
  BY DEF Admins!Init
<1>4. change \in [Callers -> ChangeRecords] /\ changes \in Nat
  BY <1>3, NoChangeFits DEF Admins!Init
<1> QED
  BY <1>2, <1>3, <1>4, NoChangeFits DEF AccountsInv

(* The step that takes the access of an administrator away leaves the one    *)
(* its request holds.                                                        *)
LEMMA OneIsLeft ==
    ASSUME AccountsInv, Admins!Next, NEW c \in Callers, change[c].at = "write",
           Admins!RemovesAdministratorAccess(change[c].user, change[c].to),
           change'[c] = Admins!NoChange
    PROVE  Admins!ActiveAdmins' # {}
<1>1. change[c] \in ChangeRecords /\ ChangeFits(change[c], user) /\ change \in [Callers -> ChangeRecords]
  BY DEF AccountsInv
<1>2. change[c] # Admins!NoChange
  BY DEF Admins!NoChange
<1>3. PICK a \in change[c].held : a # change[c].user /\ Administers(user[a])
  BY <1>1, ActiveAre DEF ChangeFits, Admins!RemovesAdministratorAccess
<1>4. a \in Users
  BY <1>1, <1>3 DEF ChangeRecords
<1>5. user'[a] = user[a]
  <2>1. ASSUME NEW d \in Callers, Admins!CommitUser(d) PROVE user'[a] = user[a]
    <3>1. change' = [change EXCEPT ![d] = Admins!NoChange] /\ user \in [Users -> AccountRecords]
      BY <2>1 DEF Admins!CommitUser, Admins!Ends, AccountsInv
    <3>2. d = c
      BY <1>1, <1>2, <3>1
    <3> QED
      BY <1>3, <1>4, <2>1, <3>1, <3>2 DEF Admins!CommitUser
  <2>2. ASSUME NEW d \in Callers, Admins!CommitConditional(d) PROVE user'[a] = user[a]
    <3>1. change' = [change EXCEPT ![d] = Admins!NoChange] /\ change[d].at = "set"
      BY <2>2 DEF Admins!CommitConditional, Admins!Ends
    <3>2. d = c
      BY <1>1, <1>2, <3>1
    <3> QED
      BY <3>1, <3>2
  <2>3. ASSUME NEW u \in Users, NEW role \in {"USER", "ADMIN"}, Admins!CreateUser(u, role)
        PROVE  user'[a] = user[a]
    <3>1. change' = change
      BY <2>3 DEF Admins!CreateUser
    <3> QED
      BY <1>2, <3>1
  <2>4. \A u \in Users : Admins!Register(u) => user'[a] = user[a]
    BY <2>3 DEF Admins!Register
  <2>5. \A admin, u \in Users : Admins!CreateManagedUser(admin, u) => user'[a] = user[a]
    BY <2>3 DEF Admins!CreateManagedUser
  <2>6. ASSUME NEW d \in Callers, NEW at, NEW u, NEW to, Admins!Begin(d, at, u, to) PROVE user' = user
    BY <2>6 DEF Admins!Begin
  <2>7. ASSUME NEW d \in Callers, NEW admin \in Users, NEW u \in Users, NEW to \in Admins!Targets,
               \/ Admins!UpdateUser(d, admin, u, to) \/ Admins!UpdateUserStatus(d, admin, u, to)
               \/ Admins!ResetPassword(d, admin, u)
        PROVE  user'[a] = user[a]
    BY <2>6, <2>7 DEF Admins!UpdateUser, Admins!UpdateUserStatus, Admins!ResetPassword
  <2>8. ASSUME NEW d \in Callers, Admins!LockUser(d) \/ Admins!CountAdministrators(d)
                                  \/ \E e \in Callers : Admins!Deadlock(d, e)
        PROVE  user'[a] = user[a]
    BY <2>8 DEF Admins!LockUser, Admins!CountAdministrators, Admins!Deadlock
  <2> QED
    BY <2>1, <2>2, <2>4, <2>5, <2>7, <2>8 DEF Admins!Next
<1>6. a \in Admins!ActiveAdmins'
  BY <1>3, <1>4, <1>5 DEF Admins!ActiveAdmins, Administers
<1> QED
  BY <1>6

-----------------------------------------------------------------------------
(* Sessions: what the rows of sessions, tokens and idempotency keys say of   *)
(* one another and of the requests under way.                                *)

UserRows == [active : BOOLEAN, auth : Nat]
SessionRows == [user : Owners \union {None}, revoked : {"no", "asked", "reuse"}, access : Nat]
TokenRows == [session : 0..MaxSessions, parent : 0..MaxTokens, used : BOOLEAN, revoked : BOOLEAN]
KeyRecords == [token : 0..MaxTokens, owner : Callers \union {None}, answer : 0..MaxTokens]
Claimed == {"read", "rotate", "reuse", "record"}
RequestRecords ==
    [op : {"none", "login", "adminLogin", "refresh", "logout", "logoutAll"},
     at : {"none", "create", "check", "commit", "claim", "refused"} \union Claimed,
     user : Owners \union {None}, session : 0..MaxSessions, token : 0..MaxTokens,
     key : Keys \union {None}, auth : Nat, child : 0..MaxTokens, saw : SUBSET SignIn!Tokens]

SessionsTyped ==
    /\ who \in [Owners -> UserRows] /\ session \in [SignIn!Sessions -> SessionRows]
    /\ token \in [SignIn!Tokens -> TokenRows] /\ record \in [Owners \X Keys -> KeyRecords]
    /\ request \in [Callers -> RequestRecords]
    /\ presented \in [SignIn!Tokens -> SUBSET Keys] /\ broken \subseteq SignIn!Tokens

Usable(row) == row.session # 0 /\ ~row.used /\ ~row.revoked

\* A token that is revoked is one of a session that has ended; one that has a
\* successor is used, and has one successor only.
TokensFit(tokens, sessions) ==
    /\ \A t \in SignIn!Tokens : tokens[t].session = 0 =>
          tokens[t].parent = 0 /\ ~tokens[t].used /\ ~tokens[t].revoked
    /\ \A t \in SignIn!Tokens : tokens[t].session # 0 => sessions[tokens[t].session].user # None
    /\ \A t \in SignIn!Tokens : tokens[t].parent # 0 =>
          /\ tokens[t].session # 0 /\ tokens[tokens[t].parent].used
          /\ tokens[tokens[t].parent].session = tokens[t].session
    /\ \A t \in SignIn!Tokens : tokens[t].revoked => sessions[tokens[t].session].revoked # "no"
    /\ \A t, r \in SignIn!Tokens :
          t # r /\ tokens[t].parent = tokens[r].parent => tokens[t].parent = 0
    /\ \A t, r \in SignIn!Tokens :
          Usable(tokens[t]) /\ Usable(tokens[r]) /\ tokens[t].session = tokens[r].session => t = r

\* A refresh is of a token of its session, presented under its key.
RefreshFits(ch, tokens, sessions, keys) ==
    /\ ch.at \in {"claim", "refused"} \union Claimed
    /\ ch.token \in SignIn!Tokens /\ tokens[ch.token].session # 0
    /\ ch.session = tokens[ch.token].session /\ ch.user = sessions[ch.session].user
    /\ ch.key \in keys[ch.token]
    /\ ch.at = "reuse" => ~Usable(tokens[ch.token])
    /\ ch.at = "record" => ch.child # 0
RequestFits(ch, tokens, sessions, keys) ==
    /\ ch.op = "refresh" => RefreshFits(ch, tokens, sessions, keys)
    /\ ch.op # "refresh" => ch.at \in {"none", "create", "check", "commit"}
    /\ ch.at = "create" => ch.user \in Owners /\ ch.op \in {"login", "adminLogin"}
    /\ ch.at = "check" => ch.session # 0
    /\ ch.op = "logout" => ch.session # 0 /\ \A t \in ch.saw : tokens[t].session = ch.session
    /\ ch.op = "logoutAll" =>
          ch.user \in Owners /\ \A t \in ch.saw : tokens[t].session # 0
                                                  /\ sessions[tokens[t].session].user = ch.user

\* A claim is of the refresh that made it, and a refresh has its claim until
\* it answers.
RecordsFit(records, requests) ==
    /\ \A i \in Owners \X Keys : records[i].token = 0 => records[i].owner = None /\ records[i].answer = 0
    /\ \A i \in Owners \X Keys, c \in Callers : records[i].owner = c =>
          /\ requests[c].op = "refresh" /\ requests[c].at # "claim"
          /\ i = <<requests[c].user, requests[c].key>>
          /\ records[i].token = requests[c].token /\ records[i].answer = 0
    /\ \A c \in Callers : requests[c].op = "refresh" /\ requests[c].at \in Claimed =>
          records[<<requests[c].user, requests[c].key>>].owner = c

\* The answer of the server is stored under a key, or about to be.
AnswerKept(i, records, requests) ==
    \/ records[i].owner = None /\ records[i].answer # 0
    \/ records[i].owner # None /\ requests[records[i].owner].at = "record"

\* A token used was exchanged under a key it was presented under, which still
\* has the answer; or the answer was lost.
UsedFits(t, tokens, sessions, records, requests, keys, lost) ==
    tokens[t].used =>
      \/ t \in lost
      \/ \E k \in keys[t] :
            LET i == <<sessions[tokens[t].session].user, k>>
            IN  records[i].token = t /\ AnswerKept(i, records, requests)
ReuseFits(s, tokens, sessions, keys, lost) ==
    sessions[s].revoked = "reuse" =>
      \E t \in SignIn!Tokens :
        tokens[t].session = s /\ (t \in lost \/ \E j, k \in keys[t] : j # k)

SessionsInv ==
    /\ SessionsTyped /\ TokensFit(token, session)
    /\ \A c \in Callers : RequestFits(request[c], token, session, presented)
    /\ RecordsFit(record, request)
    /\ \A t \in SignIn!Tokens : UsedFits(t, token, session, record, request, presented, broken)
    /\ \A s \in SignIn!Sessions : ReuseFits(s, token, session, presented, broken)

(* Rows that are made keep what they are of, and nothing becomes usable again. *)
RowsGrow ==
    /\ \A t \in SignIn!Tokens : token[t].session # 0 =>
          /\ token'[t].session = token[t].session
          /\ Usable(token'[t]) => Usable(token[t])
    /\ \A s \in SignIn!Sessions : session[s].user # None => session'[s].user = session[s].user
    /\ \A t \in SignIn!Tokens : presented[t] \subseteq presented'[t]

LEMMA TokenSession ==
    ASSUME SessionsInv, NEW t \in SignIn!Tokens, token[t].session # 0
    PROVE  token[t].session \in SignIn!Sessions /\ session[token[t].session].user \in Owners
<1>1. token[t] \in TokenRows
  BY DEF SessionsInv, SessionsTyped
<1>2. token[t].session \in SignIn!Sessions
  BY <1>1, SessionsAssumption DEF TokenRows, SignIn!Sessions
<1>3. session[token[t].session] \in SessionRows
  BY <1>2 DEF SessionsInv, SessionsTyped
<1> QED
  BY <1>2, <1>3 DEF SessionsInv, TokensFit, SessionRows

LEMMA RequestStays ==
    ASSUME SessionsInv, RowsGrow, NEW ch \in RequestRecords,
           RequestFits(ch, token, session, presented)
    PROVE  RequestFits(ch, token', session', presented')
<1>1. ASSUME ch.op = "refresh" PROVE RefreshFits(ch, token', session', presented')
  <2>1. RefreshFits(ch, token, session, presented)
    BY <1>1 DEF RequestFits
  <2>2. ch.token \in SignIn!Tokens /\ token[ch.token].session # 0 /\ ch.session = token[ch.token].session
        /\ ch.user = session[ch.session].user
    BY <2>1 DEF RefreshFits
  <2>3. ch.session \in SignIn!Sessions /\ session[ch.session].user # None
    BY <2>2, TokenSession, SessionsAssumption
  <2>4. /\ token'[ch.token].session = token[ch.token].session
        /\ Usable(token'[ch.token]) => Usable(token[ch.token])
        /\ session'[ch.session].user = session[ch.session].user
        /\ presented[ch.token] \subseteq presented'[ch.token]
    BY <2>2, <2>3 DEF RowsGrow
  <2> QED
    BY <2>1, <2>4 DEF RefreshFits
<1>2. ASSUME ch.op = "logout", NEW t \in ch.saw PROVE token'[t].session = ch.session
  BY <1>2 DEF RequestFits, RowsGrow, RequestRecords
<1>3. ASSUME ch.op = "logoutAll", NEW t \in ch.saw
      PROVE  token'[t].session # 0 /\ session'[token'[t].session].user = ch.user
  <2>1. t \in SignIn!Tokens /\ token[t].session # 0 /\ session[token[t].session].user = ch.user
    BY <1>3 DEF RequestFits, RequestRecords
  <2>2. token[t].session \in SignIn!Sessions /\ session[token[t].session].user # None
    BY <2>1, TokenSession, SessionsAssumption
  <2> QED
    BY <2>1, <2>2 DEF RowsGrow
<1>4. /\ ch.op # "refresh" => ch.at \in {"none", "create", "check", "commit"}
      /\ ch.at = "create" => ch.user \in Owners /\ ch.op \in {"login", "adminLogin"}
      /\ ch.at = "check" => ch.session # 0
      /\ ch.op = "logout" => ch.session # 0
      /\ ch.op = "logoutAll" => ch.user \in Owners
  BY DEF RequestFits
<1> QED
  BY <1>1, <1>2, <1>3, <1>4 DEF RequestFits

(* Answers that are kept stay where they are, or are lost.                   *)
RecordsKeep ==
    \A i \in Owners \X Keys : record[i].token # 0 /\ AnswerKept(i, record, request) =>
        \/ record[i].token \in broken'
        \/ record'[i].token = record[i].token /\ AnswerKept(i, record', request')

LEMMA UsedStays ==
    ASSUME SessionsInv, RowsGrow, RecordsKeep, broken \subseteq broken',
           NEW t \in SignIn!Tokens, token[t].used
    PROVE  UsedFits(t, token', session', record', request', presented', broken')
<1>1. t # 0
  BY SessionsAssumption DEF SignIn!Tokens
<1>2. token[t].session # 0
  BY DEF SessionsInv, TokensFit
<1>3. token'[t].session = token[t].session /\ session'[token[t].session].user = session[token[t].session].user
      /\ session[token[t].session].user \in Owners
  BY <1>2, TokenSession, SessionsAssumption DEF RowsGrow
<1>4. CASE t \in broken
  BY <1>4 DEF UsedFits
<1>5. CASE t \notin broken
  <2>1. PICK k \in presented[t] :
              /\ record[<<session[token[t].session].user, k>>].token = t
              /\ AnswerKept(<<session[token[t].session].user, k>>, record, request)
    BY <1>5 DEF SessionsInv, UsedFits
  <2> DEFINE i == <<session[token[t].session].user, k>>
  <2>2. k \in Keys /\ k \in presented'[t]
    BY <2>1 DEF SessionsInv, SessionsTyped, RowsGrow
  <2>3. i \in Owners \X Keys
    BY <1>3, <2>2
  <2>4. \/ t \in broken'
        \/ record'[i].token = t /\ AnswerKept(i, record', request')
    BY <1>1, <2>1, <2>3 DEF RecordsKeep
  <2>5. <<session'[token'[t].session].user, k>> = i
    BY <1>3
  <2> QED
    BY <2>2, <2>4, <2>5 DEF UsedFits
<1> QED
  BY <1>4, <1>5

LEMMA ReuseStays ==
    ASSUME SessionsInv, RowsGrow, broken \subseteq broken',
           NEW s \in SignIn!Sessions, session[s].revoked = "reuse"
    PROVE  ReuseFits(s, token', session', presented', broken')
<1>1. PICK t \in SignIn!Tokens :
            token[t].session = s /\ (t \in broken \/ \E j, k \in presented[t] : j # k)
  BY DEF SessionsInv, ReuseFits
<1>2. s # 0
  BY SessionsAssumption DEF SignIn!Sessions
<1>3. token'[t].session = s /\ presented[t] \subseteq presented'[t]
  BY <1>1, <1>2 DEF RowsGrow
<1> QED
  BY <1>1, <1>3 DEF ReuseFits

LEMMA SessionsMove ==
    ASSUME SessionsInv, RowsGrow, RecordsKeep, broken \subseteq broken',
           SessionsTyped', TokensFit(token', session'), RecordsFit(record', request'),
           NEW c, NEW ch,
           \A d \in Callers \ {c} : request'[d] = request[d],
           c \in Callers => request'[c] = ch /\ RequestFits(ch, token', session', presented'),
           \A t \in SignIn!Tokens : token'[t].used /\ ~token[t].used =>
               UsedFits(t, token', session', record', request', presented', broken'),
           \A s \in SignIn!Sessions : session'[s].revoked = "reuse" /\ session[s].revoked # "reuse" =>
               ReuseFits(s, token', session', presented', broken')
    PROVE  SessionsInv'
<1>1. ASSUME NEW d \in Callers PROVE RequestFits(request'[d], token', session', presented')
  <2>1. request[d] \in RequestRecords /\ RequestFits(request[d], token, session, presented)
    BY DEF SessionsInv, SessionsTyped
  <2> QED
    BY <2>1, RequestStays
<1>2. ASSUME NEW t \in SignIn!Tokens
      PROVE  UsedFits(t, token', session', record', request', presented', broken')
  <2>1. CASE ~token'[t].used
    BY <2>1 DEF UsedFits
  <2>2. CASE token'[t].used /\ ~token[t].used
    BY <2>2
  <2>3. CASE token[t].used
    BY <2>3, UsedStays
  <2> QED
    BY <2>1, <2>2, <2>3
<1>3. ASSUME NEW s \in SignIn!Sessions PROVE ReuseFits(s, token', session', presented', broken')
  <2>1. CASE session'[s].revoked # "reuse"
    BY <2>1 DEF ReuseFits
  <2>2. CASE session'[s].revoked = "reuse" /\ session[s].revoked # "reuse"
    BY <2>2
  <2>3. CASE session[s].revoked = "reuse"
    BY <2>3, ReuseStays
  <2> QED
    BY <2>1, <2>2, <2>3
<1> QED
  BY <1>1, <1>2, <1>3 DEF SessionsInv

(* A request moves and the records stay: one without a claim begins or ends, *)
(* or a refresh goes on with its claim.                                      *)
MovesOn(c, ch) ==
    \/ request[c].op # "refresh" /\ (ch.op # "refresh" \/ ch.at = "claim")
    \/ /\ request[c].op = "refresh" /\ request[c].at # "claim"
       /\ ch.op = "refresh" /\ ch.at # "claim"
       /\ ch.user = request[c].user /\ ch.key = request[c].key /\ ch.token = request[c].token
       /\ ch.at \in Claimed => request[c].at \in Claimed
       /\ request[c].at = "record" => ch.at = "record" \/ request[c].token \in broken'

LEMMA RecordsMove ==
    ASSUME SessionsInv, NEW c \in Callers, NEW ch \in RequestRecords, MovesOn(c, ch),
           request' = [request EXCEPT ![c] = ch], record' = record
    PROVE  RecordsFit(record', request') /\ RecordsKeep
<1>1. request'[c] = ch /\ \A d \in Callers \ {c} : request'[d] = request[d]
  BY DEF SessionsInv, SessionsTyped
<1>2. RecordsFit(record, request)
  BY DEF SessionsInv
<1>3. \A i \in Owners \X Keys : record[i].owner \in Callers \union {None}
  BY DEF SessionsInv, SessionsTyped, KeyRecords
<1>4. RecordsFit(record, request')
  <2>1. ASSUME NEW i \in Owners \X Keys, NEW d \in Callers, record[i].owner = d
        PROVE  /\ request'[d].op = "refresh" /\ request'[d].at # "claim"
               /\ i = <<request'[d].user, request'[d].key>>
               /\ record[i].token = request'[d].token /\ record[i].answer = 0
    BY <1>1, <1>2, <2>1 DEF RecordsFit, MovesOn
  <2>2. ASSUME NEW d \in Callers, request'[d].op = "refresh", request'[d].at \in Claimed
        PROVE  record[<<request'[d].user, request'[d].key>>].owner = d
    BY <1>1, <1>2, <2>2 DEF RecordsFit, MovesOn, Claimed
  <2> QED
    BY <1>2, <2>1, <2>2 DEF RecordsFit
<1>5. ASSUME NEW i \in Owners \X Keys, AnswerKept(i, record, request)
      PROVE  record[i].token \in broken' \/ AnswerKept(i, record, request')
  <2>1. CASE record[i].owner = c
    <3>1. request[c].op = "refresh" /\ record[i].token = request[c].token
      BY <1>2, <2>1 DEF RecordsFit
    <3>2. request[c].at = "record"
      BY <1>5, <2>1, SessionsAssumption DEF AnswerKept
    <3> QED
      BY <1>1, <2>1, <3>1, <3>2, SessionsAssumption DEF AnswerKept, MovesOn
  <2>2. CASE record[i].owner # c
    BY <1>1, <1>3, <1>5, <2>2 DEF AnswerKept
  <2> QED
    BY <2>1, <2>2
<1> QED
  BY <1>4, <1>5 DEF RecordsKeep

LEMMA RequestStep ==
    ASSUME SessionsInv, NEW c \in Callers, NEW ch \in RequestRecords, MovesOn(c, ch),
           request' = [request EXCEPT ![c] = ch], UNCHANGED <<who, session, token, record>>,
           presented' \in [SignIn!Tokens -> SUBSET Keys],
           \A t \in SignIn!Tokens : presented[t] \subseteq presented'[t],
           broken \subseteq broken', broken' \subseteq SignIn!Tokens,
           RequestFits(ch, token, session, presented')
    PROVE  SessionsInv'
<1>1. RowsGrow
  BY DEF RowsGrow
<1>2. RecordsKeep /\ RecordsFit(record', request')
  BY RecordsMove
<1>3. request' \in [Callers -> RequestRecords] /\ request'[c] = ch
      /\ \A d \in Callers \ {c} : request'[d] = request[d]
  BY DEF SessionsInv, SessionsTyped
<1>4. SessionsTyped'
  BY <1>3 DEF SessionsInv, SessionsTyped
<1>5. TokensFit(token', session')
  BY DEF SessionsInv
<1>6. RequestFits(ch, token', session', presented')
  OBVIOUS
<1> QED
  BY <1>1, <1>2, <1>3, <1>4, <1>5, <1>6, SessionsMove

LEMMA ReadyIs ==
    /\ SignIn!Ready \in RequestRecords /\ SignIn!Ready.op = "none" /\ SignIn!Ready.at = "none"
    /\ SignIn!Ready.saw = {}
BY SessionsAssumption DEF SignIn!Ready, RequestRecords, Claimed

LEMMA ReadyFits ==
    ASSUME NEW tokens, NEW sessions, NEW keys PROVE RequestFits(SignIn!Ready, tokens, sessions, keys)
BY ReadyIs DEF RequestFits

LEMMA RequestIs ==
    ASSUME SessionsInv, NEW c \in Callers
    PROVE  request[c] \in RequestRecords /\ RequestFits(request[c], token, session, presented)
BY DEF SessionsInv, SessionsTyped

(* A request goes on.                                                        *)
LEMMA RequestGoes ==
    ASSUME SessionsInv, NEW c \in Callers, NEW at \in {"reuse", "refused", "read", "rotate", "record"},
           SignIn!Goes(c, at)
    PROVE  \E ch \in RequestRecords :
             /\ request' = [request EXCEPT ![c] = ch]
             /\ ch.op = request[c].op /\ ch.at = at /\ ch.user = request[c].user
             /\ ch.session = request[c].session /\ ch.token = request[c].token
             /\ ch.key = request[c].key /\ ch.child = request[c].child /\ ch.saw = request[c].saw
<1> DEFINE ch == [request[c] EXCEPT !.at = at]
<1>1. request[c] \in RequestRecords
  BY RequestIs
<1>2. ch \in RequestRecords
  BY <1>1 DEF RequestRecords, Claimed
<1>3. /\ ch.op = request[c].op /\ ch.at = at /\ ch.user = request[c].user
      /\ ch.session = request[c].session /\ ch.token = request[c].token
      /\ ch.key = request[c].key /\ ch.child = request[c].child /\ ch.saw = request[c].saw
  BY <1>1 DEF RequestRecords
<1>4. request' = [request EXCEPT ![c] = ch]
  BY DEF SignIn!Goes
<1> HIDE DEF ch
<1> QED
  BY <1>2, <1>3, <1>4

(* Requests begin.                                                           *)
LEMMA LoginStep ==
    ASSUME SessionsInv, NEW c \in Callers, NEW u \in Owners, NEW op \in {"login", "adminLogin"},
           SignIn!Login(c, op, u)
    PROVE  SessionsInv'
<1> DEFINE ch == [SignIn!Ready EXCEPT !.op = op, !.at = "create", !.user = u, !.auth = who[u].auth]
<1>1. request[c] = SignIn!Ready /\ request' = [request EXCEPT ![c] = ch]
      /\ UNCHANGED <<who, session, token, record, presented, broken>>
  BY DEF SignIn!Login, SignIn!Begin
<1>2. who[u].auth \in Nat
  BY DEF SessionsInv, SessionsTyped, UserRows
<1>3. ch \in RequestRecords /\ ch.op = op /\ ch.at = "create" /\ ch.user = u
  BY <1>2, ReadyIs DEF RequestRecords, Claimed
<1> HIDE DEF ch
<1>4. RequestFits(ch, token, session, presented)
  BY <1>3 DEF RequestFits
<1>5. MovesOn(c, ch)
  BY <1>1, <1>3, ReadyIs DEF MovesOn
<1>6. /\ presented' \in [SignIn!Tokens -> SUBSET Keys] /\ broken' \subseteq SignIn!Tokens
      /\ presented' = presented /\ broken' = broken
  BY <1>1 DEF SessionsInv, SessionsTyped
<1> QED
  BY <1>1, <1>3, <1>4, <1>5, <1>6, RequestStep

LEMMA RefreshStep ==
    ASSUME SessionsInv, NEW c \in Callers, NEW t \in SignIn!Tokens, NEW k \in Keys,
           SignIn!Refresh(c, t, k)
    PROVE  SessionsInv'
<1> DEFINE ch == [SignIn!Ready EXCEPT !.op = "refresh", !.at = "claim", !.user = SignIn!Owner(t),
                                      !.session = token[t].session, !.token = t, !.key = k]
<1>1. request[c] = SignIn!Ready /\ request' = [request EXCEPT ![c] = ch]
      /\ UNCHANGED <<who, session, token, record, broken>> /\ token[t].session # 0
      /\ presented' = [presented EXCEPT ![t] = @ \union {k}]
  BY DEF SignIn!Refresh, SignIn!Begin, SignIn!Issued
<1>2. SignIn!Owner(t) \in Owners /\ SignIn!Owner(t) = session[token[t].session].user
      /\ token[t].session \in 0..MaxSessions
  BY <1>1, TokenSession, SessionsAssumption DEF SignIn!Owner, SignIn!Sessions
<1>3. t \in 0..MaxTokens
  BY SessionsAssumption DEF SignIn!Tokens
<1>4. ch \in RequestRecords
  BY <1>2, <1>3, ReadyIs DEF RequestRecords, Claimed
<1>5. ch.op = "refresh" /\ ch.at = "claim" /\ ch.user = SignIn!Owner(t) /\ ch.session = token[t].session
      /\ ch.token = t /\ ch.key = k
  BY ReadyIs DEF RequestRecords
<1> HIDE DEF ch
<1>6. presented \in [SignIn!Tokens -> SUBSET Keys]
  BY DEF SessionsInv, SessionsTyped
<1>7. /\ presented' \in [SignIn!Tokens -> SUBSET Keys] /\ k \in presented'[t]
      /\ \A r \in SignIn!Tokens : presented[r] \subseteq presented'[r]
  BY <1>1, <1>6
<1>8. RequestFits(ch, token, session, presented')
  BY <1>1, <1>2, <1>5, <1>7 DEF RequestFits, RefreshFits
<1>9. MovesOn(c, ch)
  BY <1>1, <1>5, ReadyIs DEF MovesOn
<1>10. broken' \subseteq SignIn!Tokens /\ broken' = broken
  BY <1>1 DEF SessionsInv, SessionsTyped
<1> QED
  BY <1>1, <1>4, <1>7, <1>8, <1>9, <1>10, RequestStep

LEMMA SignedIn ==
    ASSUME SessionsInv, NEW s \in SignIn!Sessions, SignIn!Made(s)
    PROVE  session[s].user \in Owners /\ s \in 0..MaxSessions /\ s # 0
BY SessionsAssumption DEF SessionsInv, SessionsTyped, SessionRows, SignIn!Made, SignIn!Sessions

LEMMA LogoutStep ==
    ASSUME SessionsInv, NEW c \in Callers, NEW s \in SignIn!Sessions, NEW before \in RequestRecords,
           before = request[c], before.op # "refresh", s \in 0..MaxSessions /\ s # 0,
           request' = [request EXCEPT ![c] =
               [SignIn!Ready EXCEPT !.op = "logout", !.at = "commit", !.session = s,
                                    !.saw = SignIn!TokensOf({s})]],
           UNCHANGED <<who, session, token, record, presented, broken>>
    PROVE  SessionsInv'
<1> DEFINE ch == [SignIn!Ready EXCEPT !.op = "logout", !.at = "commit", !.session = s,
                                      !.saw = SignIn!TokensOf({s})]
<1>1. SignIn!TokensOf({s}) \subseteq SignIn!Tokens /\ \A t \in SignIn!TokensOf({s}) : token[t].session = s
  BY DEF SignIn!TokensOf
<1>2. ch \in RequestRecords
  BY <1>1, ReadyIs DEF RequestRecords, Claimed
<1>3. ch.op = "logout" /\ ch.at = "commit" /\ ch.session = s /\ ch.saw = SignIn!TokensOf({s})
  BY ReadyIs DEF RequestRecords
<1>4. request' = [request EXCEPT ![c] = ch]
  OBVIOUS
<1> HIDE DEF ch
<1>5. RequestFits(ch, token, session, presented')
  BY <1>1, <1>3 DEF RequestFits
<1>6. MovesOn(c, ch)
  BY <1>3 DEF MovesOn
<1>7. /\ presented' \in [SignIn!Tokens -> SUBSET Keys] /\ broken' \subseteq SignIn!Tokens
      /\ presented' = presented /\ broken' = broken
  BY DEF SessionsInv, SessionsTyped
<1> QED
  BY <1>2, <1>4, <1>5, <1>6, <1>7, RequestStep

LEMMA LogoutAllStep ==
    ASSUME SessionsInv, NEW c \in Callers, NEW s \in SignIn!Sessions, SignIn!LogoutAll(c, s)
    PROVE  SessionsInv'
<1> DEFINE u == session[s].user
           saw == SignIn!TokensOf(SignIn!SessionsOf(u))
           ch == [SignIn!Ready EXCEPT !.op = "logoutAll", !.at = "commit", !.user = u, !.saw = saw]
<1>1. request[c] = SignIn!Ready /\ request' = [request EXCEPT ![c] = ch]
      /\ UNCHANGED <<who, session, token, record, presented, broken>> /\ SignIn!Made(s)
  BY DEF SignIn!LogoutAll, SignIn!Begin, SignIn!Authenticate
<1>2. u \in Owners
  BY <1>1, SignedIn
<1>3. /\ saw \subseteq SignIn!Tokens
      /\ \A t \in saw : token[t].session # 0 /\ session[token[t].session].user = u
  BY SessionsAssumption DEF SignIn!TokensOf, SignIn!SessionsOf, SignIn!Sessions
<1> HIDE DEF saw
<1>4. ch \in RequestRecords
  BY <1>2, <1>3, ReadyIs DEF RequestRecords, Claimed
<1>5. ch.op = "logoutAll" /\ ch.at = "commit" /\ ch.user = u /\ ch.saw = saw
  BY ReadyIs DEF RequestRecords
<1> HIDE DEF ch
<1>6. RequestFits(ch, token, session, presented')
  BY <1>1, <1>2, <1>3, <1>5 DEF RequestFits
<1>7. MovesOn(c, ch)
  BY <1>1, <1>5, ReadyIs DEF MovesOn
<1>8. /\ presented' \in [SignIn!Tokens -> SUBSET Keys] /\ broken' \subseteq SignIn!Tokens
      /\ presented' = presented /\ broken' = broken
  BY <1>1 DEF SessionsInv, SessionsTyped
<1> QED
  BY <1>1, <1>4, <1>6, <1>7, <1>8, RequestStep

(* A request that is not a refresh ends.                                     *)
LEMMA OtherEnds ==
    ASSUME SessionsInv, NEW c \in Callers, request[c].op # "refresh", SignIn!Ends(c),
           UNCHANGED <<who, session, token, record, presented, broken>>
    PROVE  SessionsInv'
<1>1. request' = [request EXCEPT ![c] = SignIn!Ready]
  BY DEF SignIn!Ends
<1>2. MovesOn(c, SignIn!Ready)
  BY ReadyIs DEF MovesOn
<1>3. /\ presented' \in [SignIn!Tokens -> SUBSET Keys] /\ broken' \subseteq SignIn!Tokens
      /\ presented' = presented /\ broken' = broken
  BY DEF SessionsInv, SessionsTyped
<1> QED
  BY <1>1, <1>2, <1>3, ReadyIs, ReadyFits, RequestStep

LEMMA AdminLoginStep ==
    ASSUME SessionsInv, NEW c \in Callers, SignIn!AdminLogin(c)
    PROVE  SessionsInv'
<1> DEFINE s == request[c].session
<1>1. request[c].op = "adminLogin" /\ request[c].at = "check"
      /\ UNCHANGED <<who, session, token, record, presented, broken>>
  BY DEF SignIn!AdminLogin, SignIn!At
<1>2. request[c] \in RequestRecords /\ s # 0
  BY <1>1, RequestIs DEF RequestFits
<1>3. s \in 0..MaxSessions /\ s \in SignIn!Sessions
  BY <1>2, SessionsAssumption DEF RequestRecords, SignIn!Sessions
<1>4. CASE SignIn!Ends(c)
  BY <1>1, <1>4, OtherEnds
<1>5. CASE ~SignIn!Ends(c)
  <2>1. request' = [request EXCEPT ![c] =
               [SignIn!Ready EXCEPT !.op = "logout", !.at = "commit", !.session = s,
                                    !.saw = SignIn!TokensOf({s})]]
    BY <1>5 DEF SignIn!AdminLogin, SignIn!Ends
  <2> QED
    BY <1>1, <1>2, <1>3, <2>1, LogoutStep
<1> QED
  BY <1>4, <1>5

(* A refresh of a token.                                                     *)
LEMMA RefreshIs ==
    ASSUME SessionsInv, NEW c \in Callers, request[c].op = "refresh"
    PROVE  /\ RefreshFits(request[c], token, session, presented)
           /\ request[c].token \in SignIn!Tokens /\ request[c].token # 0
           /\ SignIn!Slot(c) = <<request[c].user, request[c].key>>
           /\ SignIn!Slot(c) \in Owners \X Keys
           /\ request[c].session \in SignIn!Sessions /\ request[c].session # 0
<1>1. RefreshFits(request[c], token, session, presented)
  BY RequestIs DEF RequestFits
<1>2. request[c].token \in SignIn!Tokens /\ request[c].token # 0
  BY <1>1, SessionsAssumption DEF RefreshFits, SignIn!Tokens
<1>3. request[c].user \in Owners /\ request[c].session \in SignIn!Sessions
  BY <1>1, <1>2, TokenSession DEF RefreshFits
<1>4. request[c].key \in Keys
  BY <1>1, <1>2 DEF RefreshFits, SessionsInv, SessionsTyped
<1>5. request[c].session # 0
  BY <1>3, SessionsAssumption DEF SignIn!Sessions
<1> QED
  BY <1>1, <1>2, <1>3, <1>4, <1>5 DEF SignIn!Slot

LEMMA ReadStep ==
    ASSUME SessionsInv, NEW c \in Callers, SignIn!ReadRefreshRecord(c)
    PROVE  SessionsInv'
<1> DEFINE t == request[c].token
<1>1. request[c].op = "refresh" /\ request[c].at = "read"
      /\ UNCHANGED <<who, session, token, record, presented, broken>>
  BY DEF SignIn!ReadRefreshRecord, SignIn!At
<1>2. /\ presented' \in [SignIn!Tokens -> SUBSET Keys] /\ broken' \subseteq SignIn!Tokens
      /\ presented' = presented /\ broken' = broken
  BY <1>1 DEF SessionsInv, SessionsTyped
<1>3. RefreshFits(request[c], token, session, presented) /\ request[c] \in RequestRecords
      /\ request[c].user \in Owners
  BY <1>1, RefreshIs, RequestIs DEF SignIn!Slot
<1>4. ASSUME NEW ch \in RequestRecords, request' = [request EXCEPT ![c] = ch],
             ch.op = "refresh", ch.at \in {"reuse", "refused", "rotate"},
             ch.at = "reuse" => ~SignIn!Live(t),
             ch.user = request[c].user, ch.session = request[c].session, ch.token = t,
             ch.key = request[c].key
      PROVE  SessionsInv'
  <2>1. ch.at = "reuse" => ~Usable(token[t])
    BY <1>4 DEF SignIn!Live, SignIn!Issued, Usable
  <2>2. RequestFits(ch, token, session, presented')
    BY <1>2, <1>3, <1>4, <2>1 DEF RequestFits, RefreshFits, Claimed
  <2>3. MovesOn(c, ch)
    BY <1>1, <1>4 DEF MovesOn, Claimed
  <2> QED
    BY <1>1, <1>2, <1>4, <2>2, <2>3, RequestStep
<1>5. CASE ~SignIn!Live(t)
  <2>1. SignIn!Goes(c, "reuse")
    BY <1>5 DEF SignIn!ReadRefreshRecord, SignIn!Goes
  <2> QED
    BY <1>1, <1>4, <1>5, <2>1, RequestGoes
<1>6. CASE SignIn!Live(t) /\ (session[request[c].session].revoked # "no" \/ ~who[request[c].user].active)
  <2>1. SignIn!Goes(c, "refused")
    BY <1>6 DEF SignIn!ReadRefreshRecord, SignIn!Goes
  <2> QED
    BY <1>1, <1>4, <2>1, RequestGoes
<1>7. CASE SignIn!Live(t) /\ ~(session[request[c].session].revoked # "no" \/ ~who[request[c].user].active)
  <2> DEFINE ch == [request[c] EXCEPT !.at = "rotate", !.auth = who[request[c].user].auth]
  <2>1. request' = [request EXCEPT ![c] = ch]
    BY <1>7 DEF SignIn!ReadRefreshRecord
  <2>2. who[request[c].user].auth \in Nat
    BY <1>3 DEF SessionsInv, SessionsTyped, UserRows
  <2>3. ch \in RequestRecords
    BY <1>3, <2>2 DEF RequestRecords, Claimed
  <2>4. /\ ch.op = request[c].op /\ ch.at = "rotate" /\ ch.user = request[c].user
        /\ ch.session = request[c].session /\ ch.token = t /\ ch.key = request[c].key
    BY <1>3 DEF RequestRecords
  <2> HIDE DEF ch
  <2> QED
    BY <1>1, <1>4, <2>1, <2>3, <2>4
<1> QED
  BY <1>5, <1>6, <1>7

LEMMA AnswerFailsStep ==
    ASSUME SessionsInv, NEW c \in Callers, SignIn!AnswerFails(c)
    PROVE  SessionsInv'
<1>1. request[c].op = "refresh" /\ request[c].at = "record" /\ SignIn!Goes(c, "refused")
      /\ UNCHANGED <<who, session, token, record, presented>>
      /\ broken' = broken \union {request[c].token}
  BY DEF SignIn!AnswerFails, SignIn!At
<1>2. PICK ch \in RequestRecords :
             /\ request' = [request EXCEPT ![c] = ch]
             /\ ch.op = request[c].op /\ ch.at = "refused" /\ ch.user = request[c].user
             /\ ch.session = request[c].session /\ ch.token = request[c].token
             /\ ch.key = request[c].key
  BY <1>1, RequestGoes
<1>3. RefreshFits(request[c], token, session, presented) /\ request[c].token \in SignIn!Tokens
  BY <1>1, RefreshIs
<1>4. /\ presented' \in [SignIn!Tokens -> SUBSET Keys] /\ broken' \subseteq SignIn!Tokens
      /\ presented' = presented /\ broken \subseteq broken'
  BY <1>1, <1>3 DEF SessionsInv, SessionsTyped
<1>5. RequestFits(ch, token, session, presented')
  BY <1>1, <1>2, <1>3, <1>4 DEF RequestFits, RefreshFits
<1>6. MovesOn(c, ch)
  BY <1>1, <1>2 DEF MovesOn, Claimed
<1> QED
  BY <1>1, <1>2, <1>4, <1>5, <1>6, RequestStep

(* Records change under the refresh that holds their claim, or nobody's.     *)
LEMMA RecordStep ==
    ASSUME SessionsInv, NEW c, NEW ch,
           c \in Callers => ch \in RequestRecords /\ request' = [request EXCEPT ![c] = ch]
                            /\ RequestFits(ch, token, session, presented),
           c \notin Callers => request' = request,
           RowsGrow, session' \in [SignIn!Sessions -> SessionRows],
           \A s \in SignIn!Sessions : session'[s].user = session[s].user
                                      /\ session'[s].revoked = session[s].revoked,
           UNCHANGED <<who, token, presented>>,
           record' \in [Owners \X Keys -> KeyRecords], RecordsFit(record', request'), RecordsKeep,
           broken \subseteq broken', broken' \subseteq SignIn!Tokens
    PROVE  SessionsInv'
<1>1. /\ request' \in [Callers -> RequestRecords]
      /\ \A d \in Callers \ {c} : request'[d] = request[d]
      /\ c \in Callers => request'[c] = ch
  BY DEF SessionsInv, SessionsTyped
<1>2. SessionsTyped'
  BY <1>1 DEF SessionsInv, SessionsTyped
<1>3. TokensFit(token', session')
  <2>1. TokensFit(token, session)
    BY DEF SessionsInv
  <2>2. \A t \in SignIn!Tokens : token[t].session # 0 => token[t].session \in SignIn!Sessions
    BY TokenSession
  <2>3. \A t \in SignIn!Tokens : token[t].revoked => token[t].session # 0
    BY <2>1 DEF TokensFit
  <2>4. \A t \in SignIn!Tokens : token[t].session # 0 =>
            /\ session'[token[t].session].user = session[token[t].session].user
            /\ session'[token[t].session].revoked = session[token[t].session].revoked
    BY <2>2
  <2>5. TokensFit(token, session')
    BY <2>1, <2>3, <2>4 DEF TokensFit
  <2> QED
    BY <2>5
<1>4. c \in Callers => RequestFits(ch, token', session', presented')
  BY RequestStays
<1>5. \A t \in SignIn!Tokens : ~(token'[t].used /\ ~token[t].used)
  OBVIOUS
<1>6. \A s \in SignIn!Sessions : ~(session'[s].revoked = "reuse" /\ session[s].revoked # "reuse")
  OBVIOUS
<1> QED
  BY <1>1, <1>2, <1>3, <1>4, <1>5, <1>6, SessionsMove

(* A refresh ends, and what it claimed is answered, free or nobody's.        *)
LEMMA ClaimsEnd ==
    ASSUME SessionsInv, NEW c \in Callers, request[c].op = "refresh", SignIn!Ends(c),
           \A i \in Owners \X Keys :
              \/ record[i].owner # c /\ record'[i] = record[i]
              \/ /\ record[i].owner = c /\ record'[i].owner = None
                 /\ record'[i].token = 0 => record'[i].answer = 0
                 /\ request[c].at = "record" =>
                       \/ request[c].token \in broken'
                       \/ record'[i].token = record[i].token /\ record'[i].answer # 0
    PROVE  RecordsFit(record', request') /\ RecordsKeep
<1>1. request' = [request EXCEPT ![c] = SignIn!Ready] /\ request \in [Callers -> RequestRecords]
  BY DEF SignIn!Ends, SessionsInv, SessionsTyped
<1>2. request'[c] = SignIn!Ready /\ \A d \in Callers \ {c} : request'[d] = request[d]
  BY <1>1
<1>3. RecordsFit(record, request)
  BY DEF SessionsInv
<1>4. ASSUME NEW i \in Owners \X Keys, record'[i].token = 0
      PROVE  record'[i].owner = None /\ record'[i].answer = 0
  BY <1>3, <1>4 DEF RecordsFit
<1>5. ASSUME NEW i \in Owners \X Keys, NEW d \in Callers, record'[i].owner = d
      PROVE  /\ request'[d].op = "refresh" /\ request'[d].at # "claim"
             /\ i = <<request'[d].user, request'[d].key>>
             /\ record'[i].token = request'[d].token /\ record'[i].answer = 0
  <2>1. record'[i] = record[i] /\ record[i].owner # c
    BY <1>5, SessionsAssumption
  <2> QED
    BY <1>2, <1>3, <1>5, <2>1 DEF RecordsFit
<1>6. ASSUME NEW d \in Callers, request'[d].op = "refresh", request'[d].at \in Claimed
      PROVE  record'[<<request'[d].user, request'[d].key>>].owner = d
  <2>1. d # c /\ request'[d] = request[d]
    BY <1>2, <1>6, ReadyIs
  <2>2. record[SignIn!Slot(d)].owner = d /\ SignIn!Slot(d) \in Owners \X Keys
    BY <1>3, <1>6, <2>1, RefreshIs DEF RecordsFit, SignIn!Slot
  <2> QED
    BY <2>1, <2>2 DEF SignIn!Slot
<1>7. RecordsFit(record', request')
  BY <1>4, <1>5, <1>6 DEF RecordsFit
<1>8. ASSUME NEW i \in Owners \X Keys, record[i].token # 0, AnswerKept(i, record, request)
      PROVE  \/ record[i].token \in broken'
             \/ record'[i].token = record[i].token /\ AnswerKept(i, record', request')
  <2>1. CASE record[i].owner # c
    <3>1. record[i].owner \in Callers \union {None}
      BY DEF SessionsInv, SessionsTyped, KeyRecords
    <3> QED
      BY <1>2, <1>8, <2>1, <3>1 DEF AnswerKept
  <2>2. CASE record[i].owner = c
    <3>1. request[c].at = "record" /\ record[i].token = request[c].token
      BY <1>3, <1>8, <2>2, SessionsAssumption DEF AnswerKept, RecordsFit
    <3> QED
      BY <2>2, <3>1 DEF AnswerKept
  <2> QED
    BY <2>1, <2>2
<1> QED
  BY <1>7, <1>8 DEF RecordsKeep

LEMMA RefreshEnds ==
    ASSUME SessionsInv, NEW c \in Callers, SignIn!Ends(c), UNCHANGED <<who, token, presented>>,
           session' \in [SignIn!Sessions -> SessionRows],
           \A s \in SignIn!Sessions : session'[s].user = session[s].user
                                      /\ session'[s].revoked = session[s].revoked,
           record' \in [Owners \X Keys -> KeyRecords], RecordsFit(record', request'), RecordsKeep,
           broken \subseteq broken', broken' \subseteq SignIn!Tokens
    PROVE  SessionsInv'
<1>1. request' = [request EXCEPT ![c] = SignIn!Ready]
  BY DEF SignIn!Ends
<1>2. RowsGrow
  BY DEF RowsGrow
<1> QED
  BY <1>1, <1>2, ReadyIs, ReadyFits, RecordStep

LEMMA NoRecordIs ==
    /\ SignIn!NoRecord \in KeyRecords /\ SignIn!NoRecord.token = 0
    /\ SignIn!NoRecord.owner = None /\ SignIn!NoRecord.answer = 0
BY SessionsAssumption DEF SignIn!NoRecord, KeyRecords

LEMMA ClaimStep ==
    ASSUME SessionsInv, NEW c \in Callers, SignIn!Claim(c)
    PROVE  SessionsInv'
<1> DEFINE slot == SignIn!Slot(c)
           row == [token |-> request[c].token, owner |-> c, answer |-> 0]
<1>1. request[c].op = "refresh" /\ request[c].at = "claim"
      /\ UNCHANGED <<who, session, token, presented, broken>>
  BY DEF SignIn!Claim, SignIn!At
<1>2. RecordsFit(record, request) /\ record \in [Owners \X Keys -> KeyRecords]
      /\ broken' \subseteq SignIn!Tokens /\ session' \in [SignIn!Sessions -> SessionRows]
      /\ request \in [Callers -> RequestRecords]
  BY <1>1 DEF SessionsInv, SessionsTyped
<1>3. \A i \in Owners \X Keys : record[i].owner # c
  BY <1>1, <1>2 DEF RecordsFit
<1>4. CASE SignIn!Ends(c) /\ record' = record
  BY <1>1, <1>2, <1>3, <1>4, ClaimsEnd, RefreshEnds
<1>5. CASE /\ record[slot] = SignIn!NoRecord /\ record' = [record EXCEPT ![slot] = row]
           /\ SignIn!Goes(c, "read")
  <2>1. slot \in Owners \X Keys /\ request[c].token \in SignIn!Tokens /\ request[c].token # 0
        /\ RefreshFits(request[c], token, session, presented)
        /\ slot = <<request[c].user, request[c].key>>
    BY <1>1, RefreshIs
  <2>2. PICK ch \in RequestRecords :
               /\ request' = [request EXCEPT ![c] = ch]
               /\ ch.op = request[c].op /\ ch.at = "read" /\ ch.user = request[c].user
               /\ ch.session = request[c].session /\ ch.token = request[c].token
               /\ ch.key = request[c].key
    BY <1>5, RequestGoes
  <2>3. row \in KeyRecords /\ row.token = ch.token /\ row.owner = c /\ row.answer = 0
    BY <2>1, <2>2, SessionsAssumption DEF KeyRecords, SignIn!Tokens
  <2> HIDE DEF row, slot
  <2>4. /\ record' \in [Owners \X Keys -> KeyRecords] /\ record'[slot] = row
        /\ \A i \in Owners \X Keys : i # slot => record'[i] = record[i]
    BY <1>2, <1>5, <2>1, <2>3
  <2>5. request'[c] = ch /\ \A d \in Callers \ {c} : request'[d] = request[d]
    BY <1>2, <2>2
  <2>6. record[slot].token = 0 /\ record[slot].owner = None
    BY <1>5, NoRecordIs
  <2>7. RecordsFit(record', request')
    <3>1. ASSUME NEW i \in Owners \X Keys, record'[i].token = 0
          PROVE  record'[i].owner = None /\ record'[i].answer = 0
      BY <1>2, <2>1, <2>2, <2>3, <2>4, <3>1 DEF RecordsFit
    <3>2. ASSUME NEW i \in Owners \X Keys, NEW d \in Callers, record'[i].owner = d
          PROVE  /\ request'[d].op = "refresh" /\ request'[d].at # "claim"
                 /\ i = <<request'[d].user, request'[d].key>>
                 /\ record'[i].token = request'[d].token /\ record'[i].answer = 0
      <4>1. CASE i = slot
        BY <1>1, <2>1, <2>2, <2>3, <2>4, <2>5, <3>2, <4>1
      <4>2. CASE i # slot
        BY <1>2, <1>3, <2>4, <2>5, <3>2, <4>2 DEF RecordsFit
      <4> QED
        BY <4>1, <4>2
    <3>3. ASSUME NEW d \in Callers, request'[d].op = "refresh", request'[d].at \in Claimed
          PROVE  record'[<<request'[d].user, request'[d].key>>].owner = d
      <4>1. CASE d = c
        BY <2>1, <2>2, <2>3, <2>4, <2>5, <4>1
      <4>2. CASE d # c
        <5>1. record[SignIn!Slot(d)].owner = d /\ SignIn!Slot(d) \in Owners \X Keys
          BY <1>2, <2>5, <3>3, <4>2, RefreshIs DEF RecordsFit, SignIn!Slot
        <5> QED
          BY <2>4, <2>5, <2>6, <4>2, <5>1, SessionsAssumption DEF SignIn!Slot
      <4> QED
        BY <4>1, <4>2
    <3> QED
      BY <3>1, <3>2, <3>3 DEF RecordsFit
  <2>8. RecordsKeep
    <3> SUFFICES ASSUME NEW i \in Owners \X Keys, record[i].token # 0, AnswerKept(i, record, request)
                 PROVE  record'[i].token = record[i].token /\ AnswerKept(i, record', request')
      BY DEF RecordsKeep
    <3>1. i # slot /\ record'[i] = record[i] /\ record[i].owner # c
      BY <1>3, <2>4, <2>6
    <3>2. record[i].owner \in Callers \union {None}
      BY <1>2 DEF KeyRecords
    <3> QED
      BY <2>5, <3>1, <3>2 DEF AnswerKept
  <2>9. RowsGrow
    BY <1>1 DEF RowsGrow
  <2>10. RequestFits(ch, token, session, presented)
    BY <1>1, <2>1, <2>2 DEF RequestFits, RefreshFits, Claimed
  <2> QED
    BY <1>1, <1>2, <2>2, <2>4, <2>7, <2>8, <2>9, <2>10, RecordStep
<1> QED
  BY <1>4, <1>5 DEF SignIn!Claim

LEMMA AnswerStep ==
    ASSUME SessionsInv, NEW c \in Callers, SignIn!Answer(c)
    PROVE  SessionsInv'
<1> DEFINE slot == SignIn!Slot(c)
           s == request[c].session
<1>1. request[c].op = "refresh" /\ request[c].at = "record" /\ record[slot].owner = c /\ SignIn!Ends(c)
      /\ UNCHANGED <<who, token, presented, broken>>
      /\ record' = [record EXCEPT ![slot].answer = request[c].child, ![slot].owner = None]
      /\ session' = [session EXCEPT ![s].access = request[c].auth]
  BY DEF SignIn!Answer, SignIn!At
<1>2. RecordsFit(record, request) /\ record \in [Owners \X Keys -> KeyRecords]
      /\ broken' \subseteq SignIn!Tokens /\ session \in [SignIn!Sessions -> SessionRows]
  BY <1>1 DEF SessionsInv, SessionsTyped
<1>3. slot \in Owners \X Keys /\ request[c].token # 0 /\ slot = <<request[c].user, request[c].key>>
      /\ s \in SignIn!Sessions /\ RefreshFits(request[c], token, session, presented)
  BY <1>1, RefreshIs
<1>4. request[c].child \in 0..MaxTokens /\ request[c].auth \in Nat /\ request[c].child # 0
  BY <1>1, <1>3, RequestIs DEF RequestRecords, RefreshFits
<1> HIDE DEF slot, s
<1>5. record[slot] \in KeyRecords /\ session[s] \in SessionRows
  BY <1>2, <1>3
<1>6. /\ record' \in [Owners \X Keys -> KeyRecords]
      /\ record'[slot].owner = None /\ record'[slot].answer = request[c].child
      /\ record'[slot].token = record[slot].token
      /\ \A i \in Owners \X Keys : i # slot => record'[i] = record[i]
  BY <1>1, <1>2, <1>3, <1>4, <1>5 DEF KeyRecords
<1>7. /\ session' \in [SignIn!Sessions -> SessionRows]
      /\ \A r \in SignIn!Sessions : session'[r].user = session[r].user
                                    /\ session'[r].revoked = session[r].revoked
  BY <1>1, <1>2, <1>3, <1>4, <1>5 DEF SessionRows
<1>8. record[slot].token = request[c].token
  BY <1>1, <1>2, <1>3 DEF RecordsFit
<1>9. \A i \in Owners \X Keys : i # slot => record[i].owner # c
  BY <1>2, <1>3 DEF RecordsFit
<1>10. record'[slot].token # 0 /\ record'[slot].answer # 0 /\ record[slot].owner = c
  BY <1>1, <1>3, <1>4, <1>6, <1>8
<1>11. RecordsFit(record', request') /\ RecordsKeep
  <2>1. ASSUME NEW i \in Owners \X Keys
        PROVE  \/ record[i].owner # c /\ record'[i] = record[i]
               \/ /\ record[i].owner = c /\ record'[i].owner = None
                  /\ record'[i].token = 0 => record'[i].answer = 0
                  /\ request[c].at = "record" =>
                        \/ request[c].token \in broken'
                        \/ record'[i].token = record[i].token /\ record'[i].answer # 0
    BY <1>6, <1>9, <1>10
  <2> QED
    BY <1>1, <2>1, ClaimsEnd
<1> QED
  BY <1>1, <1>2, <1>6, <1>7, <1>11, RefreshEnds

LEMMA RefusedStep ==
    ASSUME SessionsInv, NEW c \in Callers, SignIn!Refused(c)
    PROVE  SessionsInv'
<1> DEFINE slot == SignIn!Slot(c)
<1>1. request[c].op = "refresh" /\ request[c].at = "refused" /\ SignIn!Ends(c)
      /\ UNCHANGED <<who, session, token, presented, broken>>
      /\ record' = [record EXCEPT ![slot] = IF record[slot].owner = c THEN SignIn!NoRecord ELSE record[slot]]
  BY DEF SignIn!Refused, SignIn!At, SignIn!ReleaseClaim
<1>2. RecordsFit(record, request) /\ record \in [Owners \X Keys -> KeyRecords]
      /\ broken' \subseteq SignIn!Tokens /\ session' \in [SignIn!Sessions -> SessionRows]
  BY <1>1 DEF SessionsInv, SessionsTyped
<1>3. slot \in Owners \X Keys /\ slot = <<request[c].user, request[c].key>>
  BY <1>1, RefreshIs
<1> HIDE DEF slot
<1>4. /\ record' \in [Owners \X Keys -> KeyRecords]
      /\ record[slot].owner = c => record'[slot] = SignIn!NoRecord
      /\ record[slot].owner # c => record'[slot] = record[slot]
      /\ \A i \in Owners \X Keys : i # slot => record'[i] = record[i]
  BY <1>1, <1>2, <1>3, NoRecordIs
<1>5. \A i \in Owners \X Keys : i # slot => record[i].owner # c
  BY <1>2, <1>3 DEF RecordsFit
<1>6. RecordsFit(record', request') /\ RecordsKeep
  BY <1>1, <1>3, <1>4, <1>5, NoRecordIs, ClaimsEnd
<1> QED
  BY <1>1, <1>2, <1>4, <1>6, RefreshEnds

LEMMA RefreshCrash ==
    ASSUME SessionsInv, NEW c \in Callers, SignIn!Crash(c)
    PROVE  SessionsInv'
<1>1. request[c].op = "refresh" /\ SignIn!Ends(c)
      /\ UNCHANGED <<who, session, token, presented>>
      /\ broken' = (IF request[c].at = "record" THEN broken \union {request[c].token} ELSE broken)
      /\ record' = [i \in DOMAIN record |->
                       IF record[i].owner = c THEN [record[i] EXCEPT !.owner = None] ELSE record[i]]
  BY DEF SignIn!Crash
<1>2. RecordsFit(record, request) /\ record \in [Owners \X Keys -> KeyRecords]
      /\ broken \subseteq SignIn!Tokens /\ session' \in [SignIn!Sessions -> SessionRows]
  BY <1>1 DEF SessionsInv, SessionsTyped
<1>3. request[c].token \in SignIn!Tokens
  BY <1>1, RefreshIs
<1>4. broken \subseteq broken' /\ broken' \subseteq SignIn!Tokens
      /\ (request[c].at = "record" => request[c].token \in broken')
  BY <1>1, <1>2, <1>3
<1>5. ASSUME NEW i \in Owners \X Keys
      PROVE  /\ record'[i] \in KeyRecords
             /\ record[i].owner # c => record'[i] = record[i]
             /\ record[i].owner = c => record'[i].owner = None /\ record'[i].answer = 0
  <2>1. record[i] \in KeyRecords /\ (record[i].owner = c => record[i].answer = 0)
    BY <1>2 DEF RecordsFit
  <2>2. record'[i] = IF record[i].owner = c THEN [record[i] EXCEPT !.owner = None] ELSE record[i]
    BY <1>1, <1>2
  <2> QED
    BY <2>1, <2>2 DEF KeyRecords
<1>6. record' \in [Owners \X Keys -> KeyRecords]
  BY <1>1, <1>2, <1>5
<1>7. RecordsFit(record', request') /\ RecordsKeep
  BY <1>1, <1>4, <1>5, ClaimsEnd
<1> QED
  BY <1>1, <1>2, <1>4, <1>6, <1>7, RefreshEnds

(* A record that answers no longer.                                          *)
LEMMA ExpireStep ==
    ASSUME SessionsInv, NEW u \in Owners, NEW k \in Keys, SignIn!Expire(u, k)
    PROVE  SessionsInv'
<1> DEFINE slot == <<u, k>>
<1>1. record[slot] # SignIn!NoRecord /\ record[slot].owner = None
      /\ UNCHANGED <<who, session, token, request, presented>>
      /\ broken' = broken \union {record[slot].token}
      /\ record' = [record EXCEPT ![slot] = SignIn!NoRecord]
  BY DEF SignIn!Expire
<1>2. RecordsFit(record, request) /\ record \in [Owners \X Keys -> KeyRecords]
      /\ broken \subseteq SignIn!Tokens /\ session' \in [SignIn!Sessions -> SessionRows]
  BY <1>1 DEF SessionsInv, SessionsTyped
<1>3. slot \in Owners \X Keys
  OBVIOUS
<1> HIDE DEF slot
<1>4. record[slot].token # 0 /\ record[slot].token \in SignIn!Tokens
  <2>1. record[slot] \in KeyRecords
    BY <1>2, <1>3
  <2>2. record[slot].token = 0 => record[slot].answer = 0
    BY <1>2, <1>3 DEF RecordsFit
  <2>3. record[slot].token = 0 => record[slot] = SignIn!NoRecord
    BY <1>1, <2>1, <2>2 DEF KeyRecords, SignIn!NoRecord
  <2> QED
    BY <1>1, <2>1, <2>3, SessionsAssumption DEF KeyRecords, SignIn!Tokens
<1>5. /\ record' \in [Owners \X Keys -> KeyRecords] /\ record'[slot] = SignIn!NoRecord
      /\ \A i \in Owners \X Keys : i # slot => record'[i] = record[i]
  BY <1>1, <1>2, <1>3, NoRecordIs
<1>6. RecordsFit(record', request')
  <2>1. ASSUME NEW i \in Owners \X Keys, record'[i].token = 0
        PROVE  record'[i].owner = None /\ record'[i].answer = 0
    BY <1>2, <1>5, <2>1, NoRecordIs DEF RecordsFit
  <2>2. ASSUME NEW i \in Owners \X Keys, NEW d \in Callers, record'[i].owner = d
        PROVE  i # slot /\ record'[i] = record[i]
    BY <1>5, <2>2, NoRecordIs, SessionsAssumption
  <2>3. ASSUME NEW d \in Callers, request[d].op = "refresh", request[d].at \in Claimed
        PROVE  record'[<<request[d].user, request[d].key>>].owner = d
    <3>1. record[SignIn!Slot(d)].owner = d /\ SignIn!Slot(d) \in Owners \X Keys
      BY <1>2, <2>3, RefreshIs DEF RecordsFit, SignIn!Slot
    <3>2. SignIn!Slot(d) # slot
      BY <1>1, <3>1, SessionsAssumption
    <3> QED
      BY <1>5, <3>1, <3>2 DEF SignIn!Slot
  <2>4. RecordsFit(record', request)
    BY <1>2, <2>1, <2>2, <2>3 DEF RecordsFit
  <2> QED
    BY <1>1, <2>4
<1>7. RecordsKeep
  BY <1>1, <1>5 DEF RecordsKeep, AnswerKept
<1>8. RowsGrow /\ None \notin Callers
  BY <1>1, SessionsAssumption DEF RowsGrow
<1>9. broken \subseteq broken' /\ broken' \subseteq SignIn!Tokens
  BY <1>1, <1>2, <1>4
<1>10. /\ UNCHANGED <<who, token, presented>> /\ request' = request
       /\ \A s \in SignIn!Sessions : session'[s].user = session[s].user
                                     /\ session'[s].revoked = session[s].revoked
  BY <1>1
<1> QED
  BY <1>2, <1>5, <1>6, <1>7, <1>8, <1>9, <1>10, RecordStep

-----------------------------------------------------------------------------
(* Sessions end *)

Ending(S, T, reason) ==
    /\ session' = [s \in SignIn!Sessions |-> IF s \in S /\ session[s].revoked = "no"
                       THEN [session[s] EXCEPT !.revoked = reason] ELSE session[s]]
    /\ token' = [t \in SignIn!Tokens |-> IF t \in T THEN [token[t] EXCEPT !.revoked = TRUE] ELSE token[t]]

LEMMA EndingFits ==
    ASSUME SessionsInv, NEW S, NEW T, NEW reason \in {"asked", "reuse"}, Ending(S, T, reason),
           \A t \in T : t \in SignIn!Tokens => token[t].session # 0 /\ token[t].session \in S
    PROVE  /\ session' \in [SignIn!Sessions -> SessionRows] /\ token' \in [SignIn!Tokens -> TokenRows]
           /\ TokensFit(token', session')
           /\ \A t \in SignIn!Tokens : /\ token'[t].session = token[t].session
                                       /\ token'[t].used = token[t].used
                                       /\ Usable(token'[t]) => Usable(token[t])
           /\ \A s \in SignIn!Sessions :
                 /\ session'[s].user = session[s].user
                 /\ session[s].revoked # "no" => session'[s].revoked = session[s].revoked
                 /\ session[s].revoked = "no" /\ session'[s].revoked # "no" =>
                       s \in S /\ session'[s].revoked = reason
<1> DEFINE tokens == token'
           sessions == session'
<1>1. ASSUME NEW s \in SignIn!Sessions
      PROVE  /\ sessions[s] \in SessionRows /\ sessions[s].user = session[s].user
             /\ session[s].revoked # "no" => sessions[s].revoked = session[s].revoked
             /\ s \in S => sessions[s].revoked # "no"
             /\ session[s].revoked = "no" /\ sessions[s].revoked # "no" =>
                   s \in S /\ sessions[s].revoked = reason
  <2>1. session[s] \in SessionRows
    BY DEF SessionsInv, SessionsTyped
  <2>2. sessions[s] = IF s \in S /\ session[s].revoked = "no"
                      THEN [session[s] EXCEPT !.revoked = reason] ELSE session[s]
    BY DEF Ending
  <2> HIDE DEF sessions
  <2> QED
    BY <2>1, <2>2 DEF SessionRows
<1>2. ASSUME NEW t \in SignIn!Tokens
      PROVE  /\ tokens[t] \in TokenRows /\ tokens[t].session = token[t].session
             /\ tokens[t].parent = token[t].parent /\ tokens[t].used = token[t].used
             /\ token[t].revoked => tokens[t].revoked
             /\ tokens[t].revoked /\ ~token[t].revoked => t \in T
  <2>1. token[t] \in TokenRows
    BY DEF SessionsInv, SessionsTyped
  <2>2. tokens[t] = IF t \in T THEN [token[t] EXCEPT !.revoked = TRUE] ELSE token[t]
    BY DEF Ending
  <2> HIDE DEF tokens
  <2> QED
    BY <2>1, <2>2 DEF TokenRows
<1>3. session' \in [SignIn!Sessions -> SessionRows]
  BY <1>1 DEF Ending
<1>4. token' \in [SignIn!Tokens -> TokenRows]
  BY <1>2 DEF Ending
<1>5. \A t \in SignIn!Tokens : Usable(tokens[t]) => Usable(token[t])
  BY <1>2 DEF Usable
<1>6. TokensFit(tokens, sessions)
  <2> HIDE DEF tokens, sessions
  <2>1. TokensFit(token, session)
    BY DEF SessionsInv
  <2>2. \A t \in SignIn!Tokens : token[t].session # 0 => token[t].session \in SignIn!Sessions
    BY TokenSession
  <2>3. \A t \in SignIn!Tokens : tokens[t].session = 0 =>
              tokens[t].parent = 0 /\ ~tokens[t].used /\ ~tokens[t].revoked
    BY <1>2, <2>1 DEF TokensFit
  <2>4. \A t \in SignIn!Tokens : tokens[t].session # 0 => sessions[tokens[t].session].user # None
    BY <1>1, <1>2, <2>1, <2>2 DEF TokensFit
  <2>5. ASSUME NEW t \in SignIn!Tokens, tokens[t].parent # 0
        PROVE  /\ tokens[t].session # 0 /\ tokens[tokens[t].parent].used
               /\ tokens[tokens[t].parent].session = tokens[t].session
    <3>1. token[t].parent \in SignIn!Tokens
      BY <1>2, <2>5, SessionsAssumption DEF SessionsInv, SessionsTyped, TokenRows, SignIn!Tokens
    <3> QED
      BY <1>2, <2>1, <2>5, <3>1 DEF TokensFit
  <2>6. ASSUME NEW t \in SignIn!Tokens, tokens[t].revoked
        PROVE  sessions[tokens[t].session].revoked # "no"
    <3>1. tokens[t].session \in SignIn!Sessions
      BY <1>2, <2>2, <2>3, <2>6
    <3>2. CASE token[t].revoked
      BY <1>1, <1>2, <2>1, <3>1, <3>2 DEF TokensFit
    <3>3. CASE ~token[t].revoked
      BY <1>1, <1>2, <2>6, <3>1, <3>3
    <3> QED
      BY <3>2, <3>3
  <2>7. \A t, r \in SignIn!Tokens : t # r /\ tokens[t].parent = tokens[r].parent => tokens[t].parent = 0
    BY <1>2, <2>1 DEF TokensFit
  <2>8. \A t, r \in SignIn!Tokens :
          Usable(tokens[t]) /\ Usable(tokens[r]) /\ tokens[t].session = tokens[r].session => t = r
    BY <1>2, <1>5, <2>1 DEF TokensFit
  <2> QED
    BY <2>3, <2>4, <2>5, <2>6, <2>7, <2>8 DEF TokensFit
<1> QED
  BY <1>1, <1>2, <1>3, <1>4, <1>5, <1>6

LEMMA EndingStep ==
    ASSUME SessionsInv, NEW S, NEW T, NEW reason \in {"asked", "reuse"}, Ending(S, T, reason),
           \A t \in T : t \in SignIn!Tokens => token[t].session # 0 /\ token[t].session \in S,
           who' \in [Owners -> UserRows], UNCHANGED <<record, presented, broken>>,
           NEW c, NEW ch,
           \/ /\ c \in Callers /\ ch \in RequestRecords /\ MovesOn(c, ch)
              /\ RequestFits(ch, token, session, presented)
              /\ request' = [request EXCEPT ![c] = ch]
           \/ c \notin Callers /\ request' = request,
           reason = "reuse" =>
              \A s \in SignIn!Sessions : s \in S /\ session[s].revoked = "no" =>
                 \E t \in SignIn!Tokens :
                    token[t].session = s /\ (t \in broken \/ \E j, k \in presented[t] : j # k)
    PROVE  SessionsInv'
<1>1. /\ session' \in [SignIn!Sessions -> SessionRows] /\ token' \in [SignIn!Tokens -> TokenRows]
      /\ TokensFit(token', session')
  BY EndingFits
<1>2. \A t \in SignIn!Tokens : /\ token'[t].session = token[t].session
                               /\ token'[t].used = token[t].used
                               /\ Usable(token'[t]) => Usable(token[t])
  BY EndingFits
<1>3. \A s \in SignIn!Sessions :
                 /\ session'[s].user = session[s].user
                 /\ session[s].revoked # "no" => session'[s].revoked = session[s].revoked
                 /\ session[s].revoked = "no" /\ session'[s].revoked # "no" =>
                       s \in S /\ session'[s].revoked = reason
  BY EndingFits
<1>4. RowsGrow
  BY <1>2, <1>3 DEF RowsGrow
<1>5. RecordsFit(record', request') /\ RecordsKeep
  <2>1. CASE c \notin Callers /\ request' = request
    BY <2>1 DEF RecordsKeep, SessionsInv
  <2>2. CASE c \in Callers
    BY <2>2, RecordsMove
  <2> QED
    BY <2>1, <2>2
<1>6. /\ request' \in [Callers -> RequestRecords]
      /\ \A d \in Callers \ {c} : request'[d] = request[d]
      /\ c \in Callers => request'[c] = ch
  BY DEF SessionsInv, SessionsTyped
<1>7. SessionsTyped'
  BY <1>1, <1>6 DEF SessionsInv, SessionsTyped
<1>8. c \in Callers => RequestFits(ch, token', session', presented')
  BY <1>4, RequestStays
<1>9. ASSUME NEW s \in SignIn!Sessions, session'[s].revoked = "reuse", session[s].revoked # "reuse"
      PROVE  ReuseFits(s, token', session', presented', broken')
  <2>1. session[s].revoked = "no" /\ s \in S /\ reason = "reuse"
    BY <1>3, <1>9
  <2>2. PICK t \in SignIn!Tokens :
                token[t].session = s /\ (t \in broken \/ \E j, k \in presented[t] : j # k)
    BY <2>1
  <2> QED
    BY <1>2, <2>2 DEF ReuseFits
<1>10. \A t \in SignIn!Tokens : ~(token'[t].used /\ ~token[t].used)
  BY <1>2
<1>11. broken \subseteq broken'
  OBVIOUS
<1> QED
  BY <1>1, <1>4, <1>5, <1>6, <1>7, <1>8, <1>9, <1>10, <1>11, SessionsMove

(* A session ended for the reuse of a token: the refresh that found the      *)
(* token used has another key than the one that used it.                     *)
LEMMA ReuseIsSeen ==
    ASSUME SessionsInv, NEW c \in Callers, request[c].op = "refresh", request[c].at = "reuse",
           session[request[c].session].revoked = "no"
    PROVE  \/ request[c].token \in broken
           \/ \E j, k \in presented[request[c].token] : j # k
<1> DEFINE t == request[c].token
<1>1. RefreshFits(request[c], token, session, presented) /\ t \in SignIn!Tokens
      /\ SignIn!Slot(c) = <<request[c].user, request[c].key>>
  BY RefreshIs
<1>2. ~Usable(token[t]) /\ token[t].session # 0 /\ token[t].session = request[c].session
  BY <1>1 DEF RefreshFits
<1>3. token[t].used
  BY <1>1, <1>2 DEF Usable, SessionsInv, TokensFit
<1>4. UsedFits(t, token, session, record, request, presented, broken)
  BY <1>1 DEF SessionsInv
<1>5. CASE t \notin broken
  <2>1. PICK k \in presented[t] :
                AnswerKept(<<session[token[t].session].user, k>>, record, request)
    BY <1>3, <1>4, <1>5 DEF UsedFits
  <2>2. session[token[t].session].user = request[c].user /\ request[c].key \in presented[t]
    BY <1>1 DEF RefreshFits
  <2>3. record[<<request[c].user, request[c].key>>].owner = c
    BY DEF SessionsInv, RecordsFit, Claimed
  <2>4. ~AnswerKept(<<request[c].user, request[c].key>>, record, request)
    BY <2>3, SessionsAssumption DEF AnswerKept
  <2> QED
    BY <2>1, <2>2, <2>4
<1> QED
  BY <1>5

LEMMA RevokeFamilyStep ==
    ASSUME SessionsInv, NEW c \in Callers, SignIn!RevokeRefreshFamily(c)
    PROVE  SessionsInv'
<1> DEFINE s == request[c].session
           T == SignIn!TokensOf({s})
<1>1. request[c].op = "refresh" /\ request[c].at = "reuse" /\ SignIn!Goes(c, "refused")
      /\ UNCHANGED <<who, record, presented, broken>>
      /\ token' = [t \in SignIn!Tokens |-> IF t \in T THEN [token[t] EXCEPT !.revoked = TRUE] ELSE token[t]]
      /\ session' = [session EXCEPT ![s].revoked = IF @ = "no" THEN "reuse" ELSE @]
  BY DEF SignIn!RevokeRefreshFamily, SignIn!At
<1>2. RefreshFits(request[c], token, session, presented) /\ s \in SignIn!Sessions /\ s # 0
      /\ request[c].token \in SignIn!Tokens
  BY <1>1, RefreshIs
<1>3. \A t \in T : t \in SignIn!Tokens => token[t].session # 0 /\ token[t].session \in {s}
  BY <1>2 DEF SignIn!TokensOf
<1>4. session \in [SignIn!Sessions -> SessionRows] /\ session[s] \in SessionRows
      /\ who' \in [Owners -> UserRows]
  BY <1>1, <1>2 DEF SessionsInv, SessionsTyped
<1> HIDE DEF s, T
<1>5. session' = [r \in SignIn!Sessions |-> IF r \in {s} /\ session[r].revoked = "no"
                       THEN [session[r] EXCEPT !.revoked = "reuse"] ELSE session[r]]
  <2>1. session[s].revoked # "no" => [session[s] EXCEPT !.revoked = session[s].revoked] = session[s]
    BY <1>4 DEF SessionRows
  <2>2. ASSUME NEW r \in SignIn!Sessions
        PROVE  session'[r] = IF r \in {s} /\ session[r].revoked = "no"
                             THEN [session[r] EXCEPT !.revoked = "reuse"] ELSE session[r]
    <3>1. CASE r = s /\ session[r].revoked = "no"
      BY <1>1, <1>2, <1>4, <3>1
    <3>2. CASE r = s /\ session[r].revoked # "no"
      BY <1>1, <1>2, <1>4, <2>1, <3>2
    <3>3. CASE r # s
      BY <1>1, <1>2, <1>4, <3>3
    <3> QED
      BY <3>1, <3>2, <3>3
  <2>3. session' \in [SignIn!Sessions -> SessionRows]
    BY <1>1, <1>2, <1>4 DEF SessionRows
  <2> QED
    BY <2>2, <2>3
<1>6. Ending({s}, T, "reuse")
  BY <1>1, <1>5 DEF Ending
<1>7. PICK ch \in RequestRecords :
             /\ request' = [request EXCEPT ![c] = ch]
             /\ ch.op = request[c].op /\ ch.at = "refused" /\ ch.user = request[c].user
             /\ ch.session = request[c].session /\ ch.token = request[c].token
             /\ ch.key = request[c].key
  BY <1>1, RequestGoes
<1>8. RequestFits(ch, token, session, presented)
  BY <1>1, <1>2, <1>7 DEF RequestFits, RefreshFits
<1>9. MovesOn(c, ch)
  BY <1>1, <1>7 DEF MovesOn, Claimed
<1>10. ASSUME NEW r \in SignIn!Sessions, r \in {s}, session[r].revoked = "no"
       PROVE  \E t \in SignIn!Tokens :
                 token[t].session = r /\ (t \in broken \/ \E j, k \in presented[t] : j # k)
  <2>1. r = s /\ token[request[c].token].session = s
    BY <1>2, <1>10 DEF RefreshFits, s
  <2> QED
    BY <1>1, <1>2, <1>10, <2>1, ReuseIsSeen DEF s
<1> QED
  BY <1>1, <1>3, <1>4, <1>6, <1>7, <1>8, <1>9, <1>10, EndingStep

LEMMA EndingRequest ==
    ASSUME SessionsInv, NEW c \in Callers, NEW S, NEW T, Ending(S, T, "asked"),
           \A t \in T : t \in SignIn!Tokens => token[t].session # 0 /\ token[t].session \in S,
           who' \in [Owners -> UserRows], UNCHANGED <<record, presented, broken>>,
           request[c].op # "refresh", request' = [request EXCEPT ![c] = SignIn!Ready]
    PROVE  SessionsInv'
<1> DEFINE ch == SignIn!Ready
<1>1. MovesOn(c, ch)
  BY ReadyIs DEF MovesOn
<1>2. ch \in RequestRecords /\ RequestFits(ch, token, session, presented)
      /\ request' = [request EXCEPT ![c] = ch]
  BY ReadyIs, ReadyFits
<1> HIDE DEF ch
<1> QED
  BY <1>1, <1>2, EndingStep

LEMMA RevokeSessionStep ==
    ASSUME SessionsInv, NEW c \in Callers, SignIn!RevokeSession(c)
    PROVE  SessionsInv'
<1> DEFINE s == request[c].session
<1>1. request[c].op = "logout" /\ SignIn!Revoked({s}, request[c].saw)
      /\ request' = [request EXCEPT ![c] = SignIn!Ready] /\ UNCHANGED <<who, record, presented, broken>>
  BY DEF SignIn!RevokeSession, SignIn!At, SignIn!Ends
<1>2. Ending({s}, request[c].saw, "asked")
  BY <1>1 DEF SignIn!Revoked, Ending
<1>3. RequestFits(request[c], token, session, presented)
  BY RequestIs
<1>4. \A t \in request[c].saw : t \in SignIn!Tokens => token[t].session # 0 /\ token[t].session \in {s}
  BY <1>1, <1>3 DEF RequestFits
<1>6. who' \in [Owners -> UserRows]
  BY <1>1 DEF SessionsInv, SessionsTyped
<1> QED
  BY <1>1, <1>2, <1>4, <1>6, EndingRequest

LEMMA RevokeAllStep ==
    ASSUME SessionsInv, NEW c \in Callers, SignIn!RevokeAllSessions(c)
    PROVE  SessionsInv'
<1> DEFINE u == request[c].user
           S == SignIn!SessionsOf(u)
<1>1. request[c].op = "logoutAll" /\ SignIn!Revoked(S, request[c].saw)
      /\ request' = [request EXCEPT ![c] = SignIn!Ready] /\ UNCHANGED <<record, presented, broken>>
      /\ who' = [who EXCEPT ![u].auth = @ + 1]
  BY DEF SignIn!RevokeAllSessions, SignIn!At, SignIn!Ends
<1>2. Ending(S, request[c].saw, "asked")
  BY <1>1 DEF SignIn!Revoked, Ending
<1>3. RequestFits(request[c], token, session, presented)
  BY RequestIs
<1>4. \A t \in request[c].saw : t \in SignIn!Tokens => token[t].session # 0 /\ token[t].session \in S
  BY <1>1, <1>3, TokenSession DEF RequestFits, SignIn!SessionsOf
<1>6. u \in Owners /\ who \in [Owners -> UserRows]
  BY <1>1, <1>3 DEF RequestFits, SessionsInv, SessionsTyped
<1>7. who' \in [Owners -> UserRows]
  BY <1>1, <1>6 DEF UserRows
<1> QED
  BY <1>1, <1>2, <1>4, <1>7, EndingRequest

LEMMA RevokeUserStep ==
    ASSUME SessionsInv, NEW s \in SignIn!Sessions, SignIn!RevokeUserSession(s)
    PROVE  SessionsInv'
<1>1. SignIn!Revoked({s}, SignIn!TokensOf({s})) /\ UNCHANGED <<who, record, request, presented, broken>>
  BY DEF SignIn!RevokeUserSession
<1>2. Ending({s}, SignIn!TokensOf({s}), "asked")
  BY <1>1 DEF SignIn!Revoked, Ending
<1>3. \A t \in SignIn!TokensOf({s}) :
         t \in SignIn!Tokens => token[t].session # 0 /\ token[t].session \in {s}
  BY SessionsAssumption DEF SignIn!TokensOf, SignIn!Sessions
<1>4. who' \in [Owners -> UserRows] /\ "asked" \in {"asked", "reuse"} /\ None \notin Callers
  BY <1>1, SessionsAssumption DEF SessionsInv, SessionsTyped
<1> QED
  BY <1>1, <1>2, <1>3, <1>4, EndingStep

LEMMA ChangeAccountStep ==
    ASSUME SessionsInv, NEW u \in Owners, NEW ends \in BOOLEAN, SignIn!ChangeAccount(u, ends)
    PROVE  SessionsInv'
<1> DEFINE S == SignIn!SessionsOf(u)
           T == SignIn!TokensOf(S)
<1>1. PICK active \in BOOLEAN : who' = [who EXCEPT ![u] = [active |-> active, auth |-> @.auth + 1]]
  BY DEF SignIn!ChangeAccount
<1>2. UNCHANGED <<record, request, presented, broken>>
      /\ (SignIn!Revoked(S, T) \/ UNCHANGED <<session, token>>)
  BY DEF SignIn!ChangeAccount
<1>3. who' \in [Owners -> UserRows]
  BY <1>1 DEF SessionsInv, SessionsTyped, UserRows
<1>4. CASE SignIn!Revoked(S, T)
  <2>1. Ending(S, T, "asked")
    BY <1>4 DEF SignIn!Revoked, Ending
  <2>2. \A t \in T : t \in SignIn!Tokens => token[t].session # 0 /\ token[t].session \in S
    BY SessionsAssumption DEF SignIn!TokensOf, SignIn!SessionsOf, SignIn!Sessions
  <2>3. "asked" \in {"asked", "reuse"} /\ None \notin Callers
    BY SessionsAssumption
  <2> QED
    BY <1>2, <1>3, <2>1, <2>2, <2>3, EndingStep
<1>5. CASE UNCHANGED <<session, token>>
  BY <1>2, <1>3, <1>5 DEF SessionsInv, SessionsTyped
<1> QED
  BY <1>2, <1>4, <1>5

-----------------------------------------------------------------------------
(* Sessions and tokens are made                                              *)

(* A set of numbers with a property has a least one.                         *)
LEMMA LeastOne ==
    ASSUME NEW S, S \subseteq Nat, S # {}
    PROVE  \E m \in S : \A n \in S : ~(n < m)
<1>1. \A n, m \in Nat : n < m => <<n, m>> \in OpToRel(<, Nat)
  BY DEF OpToRel
<1>2. PICK R : IsWellFoundedOn(R, Nat) /\ \A n, m \in Nat : n < m => <<n, m>> \in R
  BY <1>1, NatLessThanWellFounded, Zenon
<1>3. IsWellFoundedOn(R, Nat)
  BY <1>2
<1>4. \A T : T \subseteq Nat /\ T # {} => \E x \in T : \A y \in T : ~(<<y, x>> \in R)
  BY ONLY <1>3, WFMin
<1>5. PICK m \in S : \A n \in S : ~(<<n, m>> \in R)
  BY ONLY <1>4, S \subseteq Nat, S # {}
<1> QED
  BY <1>2, <1>5

LEMMA FreeTokenIsFree ==
    ASSUME SignIn!RoomForToken
    PROVE  SignIn!FreeToken \in SignIn!Tokens /\ token[SignIn!FreeToken].session = 0
<1> DEFINE S == {t \in SignIn!Tokens : ~SignIn!Issued(t)}
<1>1. S \subseteq Nat /\ S # {}
  BY SessionsAssumption DEF SignIn!RoomForToken, SignIn!Tokens
<1>2. PICK t \in S : \A r \in S : ~(r < t)
  BY <1>1, LeastOne
<1>3. t \in SignIn!Tokens /\ ~SignIn!Issued(t) /\ \A r \in SignIn!Tokens : r < t => SignIn!Issued(r)
  BY <1>2
<1>4. SignIn!FreeToken \in SignIn!Tokens /\ ~SignIn!Issued(SignIn!FreeToken)
  BY <1>3, Zenon DEF SignIn!FreeToken
<1> QED
  BY <1>4 DEF SignIn!Issued

LEMMA FreeSessionIsFree ==
    ASSUME SignIn!RoomForSession
    PROVE  SignIn!FreeSession \in SignIn!Sessions /\ session[SignIn!FreeSession].user = None
<1> DEFINE S == {s \in SignIn!Sessions : ~SignIn!Made(s)}
<1>1. S \subseteq Nat /\ S # {}
  BY SessionsAssumption DEF SignIn!RoomForSession, SignIn!Sessions
<1>2. PICK s \in S : \A r \in S : ~(r < s)
  BY <1>1, LeastOne
<1>3. s \in SignIn!Sessions /\ ~SignIn!Made(s) /\ \A r \in SignIn!Sessions : r < s => SignIn!Made(r)
  BY <1>2
<1>4. SignIn!FreeSession \in SignIn!Sessions /\ ~SignIn!Made(SignIn!FreeSession)
  BY <1>3, Zenon DEF SignIn!FreeSession
<1> QED
  BY <1>4 DEF SignIn!Made

LEMMA NoTokenIs ==
    /\ SignIn!NoToken \in TokenRows
    /\ SignIn!NoToken.session = 0 /\ SignIn!NoToken.parent = 0
    /\ ~SignIn!NoToken.used /\ ~SignIn!NoToken.revoked
BY SessionsAssumption DEF SignIn!NoToken, TokenRows

LEMMA CreateSessionStep ==
    ASSUME SessionsInv, NEW c \in Callers, SignIn!CreateSession(c)
    PROVE  SessionsInv'
<1> DEFINE s == SignIn!FreeSession
           f == SignIn!FreeToken
           made == [user |-> request[c].user, revoked |-> "no", access |-> request[c].auth]
           issued == [SignIn!NoToken EXCEPT !.session = s]
           tokens == token'
           sessions == session'
<1>1. request[c].at = "create" /\ SignIn!RoomForSession /\ SignIn!RoomForToken
      /\ session' = [session EXCEPT ![s] = made] /\ token' = [token EXCEPT ![f] = issued]
      /\ UNCHANGED <<who, record, presented, broken>>
  BY DEF SignIn!CreateSession
<1>2. s \in SignIn!Sessions /\ session[s].user = None /\ f \in SignIn!Tokens /\ token[f].session = 0
      /\ s # 0 /\ s \in 0..MaxSessions
  BY <1>1, FreeSessionIsFree, FreeTokenIsFree, SessionsAssumption DEF SignIn!Sessions
<1>3. request[c] \in RequestRecords /\ RequestFits(request[c], token, session, presented)
  BY RequestIs
<1>4. made \in SessionRows /\ made.user \in Owners /\ made.revoked = "no"
  BY <1>1, <1>3 DEF RequestFits, SessionRows, RequestRecords
<1>5. issued \in TokenRows /\ issued.session = s /\ issued.parent = 0 /\ ~issued.used /\ ~issued.revoked
  BY <1>2, NoTokenIs DEF TokenRows
<1>6. TokensFit(token, session) /\ token \in [SignIn!Tokens -> TokenRows]
      /\ session \in [SignIn!Sessions -> SessionRows]
  BY DEF SessionsInv, SessionsTyped
<1> HIDE DEF s, f, made, issued
<1>7. /\ tokens \in [SignIn!Tokens -> TokenRows] /\ tokens[f] = issued
      /\ \A t \in SignIn!Tokens \ {f} : tokens[t] = token[t]
  BY <1>1, <1>2, <1>5, <1>6
<1>8. /\ sessions \in [SignIn!Sessions -> SessionRows] /\ sessions[s] = made
      /\ \A r \in SignIn!Sessions \ {s} : sessions[r] = session[r]
  BY <1>1, <1>2, <1>4, <1>6
<1>9. \A t \in SignIn!Tokens : token[t].session # 0 =>
          token[t].session \in SignIn!Sessions /\ token[t].session # s /\ t # f
  BY <1>2, <1>6, TokenSession DEF TokensFit
<1>10. ~token[f].used /\ ~token[f].revoked /\ ~Usable(token[f])
  BY <1>2, <1>6 DEF TokensFit, Usable
<1>11. RowsGrow
  <2>1. \A t \in SignIn!Tokens : token[t].session # 0 => tokens[t] = token[t]
    BY <1>7, <1>9
  <2>2. \A r \in SignIn!Sessions : session[r].user # None => sessions[r] = session[r]
    BY <1>2, <1>8
  <2> QED
    BY <1>1, <2>1, <2>2 DEF RowsGrow
<1>12. TokensFit(tokens, sessions)
  <2> HIDE DEF tokens, sessions
  <2>1. \A t \in SignIn!Tokens : tokens[t].session = 0 =>
              tokens[t].parent = 0 /\ ~tokens[t].used /\ ~tokens[t].revoked
    BY <1>5, <1>6, <1>7 DEF TokensFit
  <2>2. \A t \in SignIn!Tokens : tokens[t].session # 0 => sessions[tokens[t].session].user # None
    BY <1>4, <1>5, <1>6, <1>7, <1>8, <1>9, SessionsAssumption DEF TokensFit
  <2>3. ASSUME NEW t \in SignIn!Tokens, tokens[t].parent # 0
        PROVE  /\ tokens[t].session # 0 /\ tokens[tokens[t].parent].used
               /\ tokens[tokens[t].parent].session = tokens[t].session
    <3>1. t # f /\ tokens[t] = token[t]
      BY <1>5, <1>7, <2>3
    <3>2. token[t].parent \in SignIn!Tokens
      BY <1>6, <2>3, <3>1, SessionsAssumption DEF TokenRows, SignIn!Tokens
    <3>3. token[t].parent # f
      BY <1>6, <1>10, <2>3, <3>1 DEF TokensFit
    <3> QED
      BY <1>6, <1>7, <2>3, <3>1, <3>2, <3>3 DEF TokensFit
  <2>4. ASSUME NEW t \in SignIn!Tokens, tokens[t].revoked
        PROVE  sessions[tokens[t].session].revoked # "no"
    <3>1. t # f /\ tokens[t] = token[t]
      BY <1>5, <1>7, <2>4
    <3>2. token[t].session # 0 /\ session[token[t].session].revoked # "no"
      BY <1>6, <2>4, <3>1 DEF TokensFit
    <3> QED
      BY <1>8, <1>9, <3>1, <3>2
  <2>5. \A t, r \in SignIn!Tokens : t # r /\ tokens[t].parent = tokens[r].parent => tokens[t].parent = 0
    BY <1>5, <1>6, <1>7 DEF TokensFit
  <2>6. ASSUME NEW t \in SignIn!Tokens, NEW r \in SignIn!Tokens,
               Usable(tokens[t]), Usable(tokens[r]), tokens[t].session = tokens[r].session
        PROVE  t = r
    <3>1. ASSUME NEW q \in SignIn!Tokens, q # f, Usable(tokens[q]) PROVE tokens[q].session # s
      BY <1>7, <1>9, <3>1 DEF Usable
    <3>2. CASE t # f /\ r # f
      BY <1>6, <1>7, <2>6, <3>2 DEF TokensFit
    <3> QED
      BY <1>5, <1>7, <2>6, <3>1, <3>2
  <2> QED
    BY <2>1, <2>2, <2>3, <2>4, <2>5, <2>6 DEF TokensFit
<1>13. PICK ch \in RequestRecords :
          /\ request' = [request EXCEPT ![c] = ch] /\ ch.op # "refresh"
          /\ RequestFits(ch, token', session', presented')
  <2>1. CASE request[c].op = "login"
    <3>1. request' = [request EXCEPT ![c] = SignIn!Ready]
      BY <2>1 DEF SignIn!CreateSession
    <3> QED
      BY <3>1, ReadyIs, ReadyFits
  <2>2. CASE request[c].op # "login"
    <3> DEFINE ch == [request[c] EXCEPT !.at = "check", !.session = s]
    <3>1. request' = [request EXCEPT ![c] = ch]
      BY <2>2 DEF SignIn!CreateSession, s
    <3>2. request[c].op = "adminLogin"
      BY <1>1, <1>3, <2>2 DEF RequestFits, RefreshFits, RequestRecords, Claimed
    <3>3. ch \in RequestRecords /\ ch.op = request[c].op /\ ch.at = "check" /\ ch.session = s
          /\ ch.saw = request[c].saw /\ ch.user = request[c].user
      BY <1>2, <1>3 DEF RequestRecords
    <3> HIDE DEF ch
    <3>4. RequestFits(ch, token', session', presented')
      BY <1>2, <3>2, <3>3 DEF RequestFits
    <3> QED
      BY <3>1, <3>2, <3>3, <3>4
  <2> QED
    BY <2>1, <2>2
<1>14. MovesOn(c, ch)
  BY <1>1, <1>3, <1>13 DEF MovesOn, RequestFits, RefreshFits, Claimed
<1>15. RecordsFit(record', request') /\ RecordsKeep
  BY <1>1, <1>13, <1>14, RecordsMove
<1>16. /\ request' \in [Callers -> RequestRecords] /\ request'[c] = ch
       /\ \A d \in Callers \ {c} : request'[d] = request[d]
  BY <1>13 DEF SessionsInv, SessionsTyped
<1>17. SessionsTyped' /\ broken \subseteq broken'
  BY <1>1, <1>7, <1>8, <1>16 DEF SessionsInv, SessionsTyped
<1>18. \A t \in SignIn!Tokens : ~(tokens[t].used /\ ~token[t].used)
  BY <1>5, <1>7
<1>19. \A r \in SignIn!Sessions : ~(sessions[r].revoked = "reuse" /\ session[r].revoked # "reuse")
  BY <1>4, <1>8
<1> QED
  BY <1>11, <1>12, <1>13, <1>15, <1>16, <1>17, <1>18, <1>19, SessionsMove

(* One refresh of those that race consumes a token.                          *)
LEMMA RotateStep ==
    ASSUME SessionsInv, NEW c \in Callers, SignIn!RotateRefreshToken(c), SignIn!Live(request[c].token)
    PROVE  SessionsInv'
<1> DEFINE t == request[c].token
           s == request[c].session
           f == SignIn!FreeToken
           issued == [SignIn!NoToken EXCEPT !.session = s, !.parent = t]
           ch == [request[c] EXCEPT !.at = "record", !.child = f]
           tokens == token'
<1>1. request[c].op = "refresh" /\ request[c].at = "rotate" /\ SignIn!RoomForToken
      /\ token' = [token EXCEPT ![t].used = TRUE, ![f] = issued]
      /\ request' = [request EXCEPT ![c].at = "record", ![c].child = f]
      /\ UNCHANGED <<who, session, record, presented, broken>>
  BY DEF SignIn!RotateRefreshToken, SignIn!At, SignIn!Consumable
<1>2. RefreshFits(request[c], token, session, presented) /\ t \in SignIn!Tokens /\ t # 0
      /\ request[c] \in RequestRecords /\ s # 0 /\ s = token[t].session
      /\ SignIn!Slot(c) = <<request[c].user, request[c].key>> /\ SignIn!Slot(c) \in Owners \X Keys
  BY <1>1, RefreshIs, RequestIs DEF RefreshFits
<1>3. f \in SignIn!Tokens /\ token[f].session = 0 /\ f # t /\ f # 0 /\ f \in 0..MaxTokens
  BY <1>1, <1>2, FreeTokenIsFree, SessionsAssumption DEF SignIn!Tokens
<1>4. Usable(token[t])
  BY DEF SignIn!Live, SignIn!Issued, Usable
<1>5. s \in 0..MaxSessions /\ t \in 0..MaxTokens
  BY <1>2 DEF RequestRecords
<1>6. issued \in TokenRows /\ issued.session = s /\ issued.parent = t /\ ~issued.used /\ ~issued.revoked
  BY <1>5, NoTokenIs DEF TokenRows
<1>7. TokensFit(token, session) /\ token \in [SignIn!Tokens -> TokenRows]
      /\ request \in [Callers -> RequestRecords]
  BY DEF SessionsInv, SessionsTyped
<1>8. /\ ch \in RequestRecords /\ ch.op = "refresh" /\ ch.at = "record" /\ ch.user = request[c].user
      /\ ch.session = s /\ ch.token = t /\ ch.key = request[c].key /\ ch.child = f
  BY <1>1, <1>2, <1>3 DEF RequestRecords, Claimed
<1>9. request' = [request EXCEPT ![c] = ch]
  BY <1>1, <1>7
<1>10. /\ tokens \in [SignIn!Tokens -> TokenRows] /\ tokens[f] = issued
       /\ \A r \in SignIn!Tokens \ {f, t} : tokens[r] = token[r]
       /\ tokens[t].used /\ tokens[t].session = token[t].session
       /\ tokens[t].parent = token[t].parent /\ tokens[t].revoked = token[t].revoked
  <2>1. token[t] \in TokenRows
    BY <1>2, <1>7
  <2> HIDE DEF f, issued
  <2> QED
    BY <1>1, <1>2, <1>3, <1>6, <1>7, <2>1 DEF TokenRows
<1> HIDE DEF t, s, f, issued, ch
<1>11. RowsGrow
  <2>1. ASSUME NEW r \in SignIn!Tokens, token[r].session # 0
        PROVE  tokens[r].session = token[r].session /\ (Usable(tokens[r]) => Usable(token[r]))
    BY <1>3, <1>10, <2>1 DEF Usable
  <2> QED
    BY <1>1, <2>1 DEF RowsGrow
<1>12. TokensFit(tokens, session)
  <2> HIDE DEF tokens
  <2>1. ASSUME NEW r \in SignIn!Tokens, tokens[r].session = 0
        PROVE  tokens[r].parent = 0 /\ ~tokens[r].used /\ ~tokens[r].revoked
    <3>1. r # f /\ r # t
      BY <1>2, <1>6, <1>10, <2>1
    <3> QED
      BY <1>7, <1>10, <2>1, <3>1 DEF TokensFit
  <2>2. ASSUME NEW r \in SignIn!Tokens, tokens[r].session # 0
        PROVE  session[tokens[r].session].user # None
    BY <1>2, <1>6, <1>7, <1>10, <2>2 DEF TokensFit
  <2>3. ASSUME NEW r \in SignIn!Tokens, tokens[r].parent # 0
        PROVE  /\ tokens[r].session # 0 /\ tokens[tokens[r].parent].used
               /\ tokens[tokens[r].parent].session = tokens[r].session
    <3>1. CASE r = f
      BY <1>2, <1>6, <1>10, <3>1
    <3>2. CASE r # f
      <4>1. tokens[r].parent = token[r].parent /\ tokens[r].session = token[r].session
        BY <1>10, <3>2
      <4>2. token[r].parent \in SignIn!Tokens
        BY <1>7, <2>3, <4>1, SessionsAssumption DEF TokenRows, SignIn!Tokens
      <4>3. token[r].parent # f
        BY <1>3, <1>7, <2>3, <4>1 DEF TokensFit
      <4>4. tokens[token[r].parent].session = token[token[r].parent].session
            /\ (token[token[r].parent].used => tokens[token[r].parent].used)
        BY <1>10, <4>2, <4>3
      <4> QED
        BY <1>7, <2>3, <4>1, <4>4 DEF TokensFit
    <3> QED
      BY <3>1, <3>2
  <2>4. ASSUME NEW r \in SignIn!Tokens, tokens[r].revoked
        PROVE  session[tokens[r].session].revoked # "no"
    BY <1>6, <1>7, <1>10, <2>4 DEF TokensFit
  <2>5. ASSUME NEW q \in SignIn!Tokens, NEW r \in SignIn!Tokens, q # r,
               tokens[q].parent = tokens[r].parent
        PROVE  tokens[q].parent = 0
    <3>1. ASSUME NEW p \in SignIn!Tokens, p # f PROVE tokens[p].parent # t
      <4>1. tokens[p].parent = token[p].parent
        BY <1>10, <3>1
      <4>2. token[p].parent # t
        BY <1>2, <1>4, <1>7 DEF TokensFit, Usable
      <4> QED
        BY <4>1, <4>2
    <3>2. CASE q # f /\ r # f
      <4>1. tokens[q].parent = token[q].parent /\ tokens[r].parent = token[r].parent
        BY <1>10, <3>2
      <4> QED
        BY <1>7, <2>5, <4>1 DEF TokensFit
    <3> QED
      BY <1>6, <1>10, <2>5, <3>1, <3>2
  <2>6. ASSUME NEW q \in SignIn!Tokens, NEW r \in SignIn!Tokens,
               Usable(tokens[q]), Usable(tokens[r]), tokens[q].session = tokens[r].session
        PROVE  q = r
    <3>1. ASSUME NEW p \in SignIn!Tokens, p # f, Usable(tokens[p])
          PROVE  tokens[p] = token[p] /\ tokens[p].session # s
      <4>1. p # t /\ tokens[p] = token[p]
        BY <1>10, <3>1 DEF Usable
      <4> QED
        BY <1>2, <1>4, <1>7, <3>1, <4>1 DEF TokensFit
    <3>2. CASE q # f /\ r # f
      BY <1>7, <2>6, <3>1, <3>2 DEF TokensFit
    <3> QED
      BY <1>6, <1>10, <2>6, <3>1, <3>2
  <2> QED
    BY <2>1, <2>2, <2>3, <2>4, <2>5, <2>6 DEF TokensFit
<1>13. MovesOn(c, ch)
  BY <1>1, <1>2, <1>8 DEF MovesOn, Claimed, t
<1>14. RecordsFit(record', request') /\ RecordsKeep
  BY <1>1, <1>8, <1>9, <1>13, RecordsMove
<1>15. /\ request' \in [Callers -> RequestRecords] /\ request'[c] = ch
       /\ \A d \in Callers \ {c} : request'[d] = request[d]
  BY <1>7, <1>8, <1>9
<1>16. RequestFits(ch, token', session', presented')
  <2>1. tokens[t].session # 0 /\ s = tokens[t].session
    BY <1>2, <1>10
  <2>2. ch.user = session[s].user /\ ch.key \in presented[t]
    BY <1>2, <1>8 DEF RefreshFits, s, t
  <2> QED
    BY <1>1, <1>2, <1>3, <1>8, <2>1, <2>2 DEF RequestFits, RefreshFits, Claimed
<1>17. SessionsTyped' /\ broken \subseteq broken'
  BY <1>1, <1>10, <1>15 DEF SessionsInv, SessionsTyped
<1>18. ASSUME NEW r \in SignIn!Tokens, tokens[r].used, ~token[r].used
       PROVE  UsedFits(r, token', session', record', request', presented', broken')
  <2>1. r = t
    BY <1>6, <1>10, <1>18
  <2>2. record[SignIn!Slot(c)].owner = c /\ record[SignIn!Slot(c)].token = t
    BY <1>1, <1>2 DEF SessionsInv, RecordsFit, Claimed, t
  <2>3. request[c].key \in presented'[t]
        /\ SignIn!Slot(c) = <<session'[tokens[t].session].user, request[c].key>>
    BY <1>1, <1>2, <1>10 DEF RefreshFits, t, s
  <2>4. AnswerKept(SignIn!Slot(c), record', request')
    BY <1>1, <1>8, <1>15, <2>2, SessionsAssumption DEF AnswerKept
  <2> QED
    BY <1>1, <2>1, <2>2, <2>3, <2>4 DEF UsedFits
<1>19. \A r \in SignIn!Sessions : ~(session'[r].revoked = "reuse" /\ session[r].revoked # "reuse")
  BY <1>1
<1>20. TokensFit(token', session')
  BY <1>1, <1>12
<1> QED
  BY <1>11, <1>14, <1>15, <1>16, <1>17, <1>18, <1>19, <1>20, SessionsMove

LEMMA LostRaceStep ==
    ASSUME SessionsInv, NEW c \in Callers, SignIn!RotateRefreshToken(c), ~SignIn!Live(request[c].token)
    PROVE  SessionsInv'
<1>1. request[c].op = "refresh" /\ request[c].at = "rotate" /\ SignIn!Goes(c, "reuse")
      /\ UNCHANGED <<who, session, token, record, presented, broken>>
  BY DEF SignIn!RotateRefreshToken, SignIn!At, SignIn!Consumable
<1>2. PICK ch \in RequestRecords :
             /\ request' = [request EXCEPT ![c] = ch]
             /\ ch.op = request[c].op /\ ch.at = "reuse" /\ ch.user = request[c].user
             /\ ch.session = request[c].session /\ ch.token = request[c].token
             /\ ch.key = request[c].key
  BY <1>1, RequestGoes
<1>3. RefreshFits(request[c], token, session, presented)
  BY <1>1, RefreshIs
<1>4. ~Usable(token[ch.token])
  BY <1>2 DEF Usable, SignIn!Live, SignIn!Issued
<1>5. /\ presented' \in [SignIn!Tokens -> SUBSET Keys] /\ broken' \subseteq SignIn!Tokens
      /\ presented' = presented /\ broken' = broken
  BY <1>1 DEF SessionsInv, SessionsTyped
<1>6. RequestFits(ch, token, session, presented')
  BY <1>1, <1>2, <1>3, <1>4, <1>5 DEF RequestFits, RefreshFits, Claimed
<1>7. MovesOn(c, ch)
  BY <1>1, <1>2 DEF MovesOn, Claimed
<1> QED
  BY <1>1, <1>2, <1>5, <1>6, <1>7, RequestStep

LEMMA SessionsStep ==
    ASSUME SessionsInv, SignIn!Next
    PROVE  SessionsInv'
<1>1. ASSUME NEW c \in Callers, SignIn!RefreshStep(c) PROVE SessionsInv'
  BY <1>1, ClaimStep, ReadStep, RotateStep, LostRaceStep, RevokeFamilyStep, AnswerStep, RefusedStep,
     AnswerFailsStep, RefreshCrash DEF SignIn!RefreshStep
<1>2. ASSUME NEW c \in Callers, NEW s \in SignIn!Sessions, SignIn!Logout(c, s) PROVE SessionsInv'
  <2>1. request[c] = SignIn!Ready /\ SignIn!Made(s)
        /\ request' = [request EXCEPT ![c] =
               [SignIn!Ready EXCEPT !.op = "logout", !.at = "commit", !.session = s,
                                    !.saw = SignIn!TokensOf({s})]]
        /\ UNCHANGED <<who, session, token, record, presented, broken>>
    BY <1>2 DEF SignIn!Logout, SignIn!Begin, SignIn!Authenticate
  <2>2. s \in 0..MaxSessions /\ s # 0
    BY <2>1, SignedIn
  <2>3. request[c] \in RequestRecords /\ request[c].op # "refresh"
    BY <2>1, ReadyIs
  <2> QED
    BY <2>1, <2>2, <2>3, LogoutStep
<1>3. ASSUME NEW c \in Callers, SignIn!SessionStep(c) PROVE SessionsInv'
  BY <1>2, <1>3, LoginStep, CreateSessionStep, AdminLoginStep, RevokeSessionStep, RevokeAllStep,
     LogoutAllStep, RefreshStep DEF SignIn!SessionStep
<1> QED
  BY <1>1, <1>3, ChangeAccountStep, RevokeUserStep, ExpireStep DEF SignIn!Next

LEMMA SessionsInit ==
    ASSUME SignIn!Init
    PROVE  SessionsInv
<1>1. SessionsTyped
  <2>1. SignIn!NoSession \in SessionRows
    BY DEF SignIn!NoSession, SessionRows
  <2>2. who \in [Owners -> UserRows]
    BY DEF SignIn!Init, UserRows
  <2> QED
    BY <2>1, <2>2, NoTokenIs, NoRecordIs, ReadyIs DEF SignIn!Init, SessionsTyped
<1>2. TokensFit(token, session)
  BY NoTokenIs DEF SignIn!Init, TokensFit, Usable
<1>3. \A c \in Callers : RequestFits(request[c], token, session, presented)
  BY ReadyFits DEF SignIn!Init
<1>4. RecordsFit(record, request)
  BY NoRecordIs, ReadyIs, SessionsAssumption DEF SignIn!Init, RecordsFit
<1>5. \A t \in SignIn!Tokens : UsedFits(t, token, session, record, request, presented, broken)
  BY NoTokenIs DEF SignIn!Init, UsedFits
<1>6. \A s \in SignIn!Sessions : ReuseFits(s, token, session, presented, broken)
  BY DEF SignIn!Init, ReuseFits, SignIn!NoSession
<1> QED
  BY <1>1, <1>2, <1>3, <1>4, <1>5, <1>6 DEF SessionsInv

(* Two keys are more than one.                                               *)
LEMMA TwoAreMore ==
    ASSUME NEW S, IsFiniteSet(S), NEW j \in S, NEW k \in S, j # k
    PROVE  SignIn!Cardinality(S) > 1
<1>1. SignIn!Cardinality(S) = Cardinality(S)
  BY Zenon DEF SignIn!Cardinality, Cardinality
<1>2. Cardinality(S) \in Nat
  BY FS_CardinalityType
<1>3. Cardinality(S) # 0
  BY FS_EmptySet
<1>4. Cardinality(S) # 1
  <2>1. SUFFICES ASSUME Cardinality(S) = 1 PROVE FALSE
    OBVIOUS
  <2>2. PICK x : S = {x}
    BY <2>1, FS_Singleton
  <2> QED
    BY <2>2
<1> QED
  BY <1>1, <1>2, <1>3, <1>4

LEMMA SessionsInvShows ==
    ASSUME SessionsInv
    PROVE  SignIn!SingleLine /\ SignIn!ReuseIsReal
<1>1. SignIn!SingleLine
  BY DEF SessionsInv, TokensFit, Usable, SignIn!SingleLine, SignIn!Live, SignIn!Issued
<1>2. ASSUME NEW s \in SignIn!Sessions, session[s].revoked = "reuse"
      PROVE  \E t \in SignIn!TokensOf({s}) : t \in broken \/ SignIn!Cardinality(presented[t]) > 1
  <2>1. PICK t \in SignIn!Tokens :
                token[t].session = s /\ (t \in broken \/ \E j, k \in presented[t] : j # k)
    BY <1>2 DEF SessionsInv, ReuseFits
  <2>2. t \in SignIn!TokensOf({s})
    BY <2>1 DEF SignIn!TokensOf
  <2>3. presented[t] \subseteq Keys
    BY DEF SessionsInv, SessionsTyped
  <2>4. IsFiniteSet(presented[t])
    BY <2>3, SessionsAssumption, FS_Subset
  <2> QED
    BY <2>1, <2>2, <2>4, TwoAreMore
<1> QED
  BY <1>1, <1>2 DEF SignIn!ReuseIsReal

-----------------------------------------------------------------------------
(* Uploads: what the rows of uploads and assets, the files and the requests  *)
(* say of one another.                                                       *)

UploadRows == [status : Storage!Statuses, target : Storage!Targets \union {None},
               token : Requests \union {None}, lapsed : BOOLEAN, asset : Requests \union {None}]
AssetRows == [status : {"none", "READY", "DELETE_PENDING", "DELETED"}, upload : Uploads \union {None}]
CallRows == [phase : Storage!Phases, user : Owners \union {None}, upload : Uploads \union {None},
             file : Requests \union {None}, body : Storage!Bodies]
FileNames == Requests \union {None}

StorageTyped ==
    /\ upload \in [Uploads -> UploadRows]
    /\ temp \in [Uploads -> FileNames] /\ kept \in [Uploads -> FileNames]
    /\ content \in [Requests -> Storage!Bodies] /\ asset \in [Requests -> AssetRows]
    /\ shown \in [Storage!Targets -> Requests \union {None, "gone"}]
    /\ quota \in [Owners -> FileNames] /\ call \in [Requests -> CallRows]
    /\ cleaner \in [listed : SUBSET Requests, removed : SUBSET Requests]

Unfinished == {"none", "CREATED", "COMPLETING", "EXPIRED", "FAILED"}
OfNoUpload == {"none", "measured", "done"}
OwnedBy(p, row) == row.status = "COMPLETING" /\ row.token = p
ActiveIn(rows, o) == {u \in Uploads : /\ rows[u].target = o
                                      /\ rows[u].status \in {"CREATED", "COMPLETING"} /\ ~rows[u].lapsed}

\* An asset is made by the request it is named after, which then only ends.
AssetsFit(assets, calls) ==
    /\ \A a \in Requests : assets[a].status = "none" <=> assets[a].upload = None
    /\ \A a \in Requests : assets[a].status # "none" => calls[a].phase \in {"done", "failing"}
    /\ \A a, b \in Requests : assets[a].upload = assets[b].upload /\ assets[a].upload # None => a = b
\* An upload that is not completed has made none, a completed one its own.
StatusFits(rows, assets) ==
    \A u \in Uploads :
      /\ rows[u].status \in Unfinished => \A a \in Requests : assets[a].upload # u
      /\ rows[u].status = "COMPLETED" => rows[u].asset \in Requests /\ assets[rows[u].asset].upload = u
ShownFits(shows, assets, files) ==
    \A t \in Storage!Targets : shows[t] \in Requests =>
      assets[shows[t]].status = "READY" /\ files[assets[shows[t]].upload] # None
\* The cleaner removes the files of assets given up.
CleanerFits(round, assets) ==
    \A a \in round.listed \union round.removed : assets[a].status \in {"DELETE_PENDING", "DELETED"}
\* What a completion has moved to its place stays there while it owns the row.
CommittedFits(calls, rows, files) ==
    \A p \in Requests :
      /\ calls[p].phase \notin OfNoUpload => calls[p].upload \in Uploads
      /\ calls[p].phase = "committed" /\ OwnedBy(p, rows[calls[p].upload]) => files[calls[p].upload] # None
\* Who has measured a quota holds its lock, and there is room.
QuotaFits(calls, rows, locks) ==
    /\ \A p \in Requests : calls[p].phase = "measured" =>
          /\ calls[p].user \in Owners /\ locks[calls[p].user] = p
          /\ Cardinality(ActiveIn(rows, calls[p].user)) < Quota
    /\ \A o \in Owners : Cardinality(ActiveIn(rows, o)) <= Quota

UploadsInv ==
    /\ StorageTyped /\ AssetsFit(asset, call) /\ StatusFits(upload, asset)
    /\ ShownFits(shown, asset, kept) /\ CleanerFits(cleaner, asset)
    /\ CommittedFits(call, upload, kept) /\ QuotaFits(call, upload, quota)

LEMMA ActiveCount ==
    ASSUME NEW rows, NEW o
    PROVE  IsFiniteSet(ActiveIn(rows, o)) /\ Cardinality(ActiveIn(rows, o)) \in Nat
<1>1. ActiveIn(rows, o) \subseteq Uploads
  BY DEF ActiveIn
<1> QED
  BY <1>1, UploadsAssumption, FS_Subset, FS_CardinalityType

LEMMA FewerActive ==
    ASSUME NEW rows, NEW after, NEW o, ActiveIn(after, o) \subseteq ActiveIn(rows, o)
    PROVE  Cardinality(ActiveIn(after, o)) <= Cardinality(ActiveIn(rows, o))
BY ActiveCount, FS_Subset

(* How a row of an upload goes on: none is completed here, what has ended    *)
(* stays so, and nobody but the request itself becomes its owner.            *)
RowGoes(p, row, after) ==
    /\ after.status \in Unfinished => row.status \in Unfinished
    /\ after.status = "COMPLETED" => row.status = "COMPLETED" /\ after.asset = row.asset
    /\ \A q \in Requests \ {p} : OwnedBy(q, after) => OwnedBy(q, row)
StaysActive(row, after) ==
    after.target \in Owners /\ after.status \in {"CREATED", "COMPLETING"} /\ ~after.lapsed =>
      row.status \in {"CREATED", "COMPLETING"} /\ ~row.lapsed /\ after.target = row.target

LEMMA QuotaStays ==
    ASSUME UploadsInv, \A u \in Uploads : StaysActive(upload[u], upload'[u]),
           NEW p, \A q \in Requests \ {p} : call'[q] = call[q],
           p \in Requests => call'[p].phase # "measured", quota' = quota
    PROVE  QuotaFits(call', upload', quota')
<1>1. QuotaFits(call, upload, quota)
  BY DEF UploadsInv
<1>2. ASSUME NEW o \in Owners
      PROVE  Cardinality(ActiveIn(upload', o)) <= Cardinality(ActiveIn(upload, o))
  <2>1. ActiveIn(upload', o) \subseteq ActiveIn(upload, o)
    BY DEF StaysActive, ActiveIn
  <2> QED
    BY <2>1, FewerActive
<1>3. ASSUME NEW o
      PROVE  Cardinality(ActiveIn(upload, o)) \in Nat /\ Cardinality(ActiveIn(upload', o)) \in Nat
  BY ActiveCount
<1>4. ASSUME NEW q \in Requests, call'[q].phase = "measured"
      PROVE  /\ call'[q].user \in Owners /\ quota'[call'[q].user] = q
             /\ Cardinality(ActiveIn(upload', call'[q].user)) < Quota
  <2>1. call'[q] = call[q]
    BY <1>4
  <2>2. call[q].user \in Owners /\ quota[call[q].user] = q
        /\ Cardinality(ActiveIn(upload, call[q].user)) < Quota
    BY <1>1, <1>4, <2>1 DEF QuotaFits
  <2> QED
    BY <1>2, <1>3, <2>1, <2>2, UploadsAssumption
<1>5. ASSUME NEW o \in Owners PROVE Cardinality(ActiveIn(upload', o)) <= Quota
  <2>1. Cardinality(ActiveIn(upload, o)) <= Quota
    BY <1>1 DEF QuotaFits
  <2> QED
    BY <1>2, <1>3, <2>1, UploadsAssumption
<1> QED
  BY <1>4, <1>5 DEF QuotaFits

(* A request or nobody goes on, with assets and what is shown as they were.  *)
LEMMA StorageMove ==
    ASSUME UploadsInv, StorageTyped', NEW p, NEW ch,
           \A q \in Requests \ {p} : call'[q] = call[q],
           p \in Requests =>
              /\ call'[p] = ch
              /\ ch.phase \notin OfNoUpload => ch.upload \in Uploads
              /\ asset[p].status # "none" => ch.phase \in {"done", "failing"}
              /\ ch.phase = "committed" /\ OwnedBy(p, upload'[ch.upload]) => kept'[ch.upload] # None,
           UNCHANGED <<asset, shown, cleaner>>,
           \A u \in Uploads : RowGoes(p, upload[u], upload'[u]),
           \A u \in Uploads : kept[u] # None => kept'[u] # None,
           QuotaFits(call', upload', quota')
    PROVE  UploadsInv'
<1>1. AssetsFit(asset', call')
  BY DEF UploadsInv, AssetsFit
<1>2. StatusFits(upload', asset')
  BY DEF UploadsInv, StatusFits, RowGoes
<1>3. ShownFits(shown', asset', kept')
  <2>1. ASSUME NEW t \in Storage!Targets, shown[t] \in Requests
        PROVE  asset[shown[t]].status = "READY" /\ kept'[asset[shown[t]].upload] # None
    <3>1. asset[shown[t]].status = "READY" /\ kept[asset[shown[t]].upload] # None
      BY <2>1 DEF UploadsInv, ShownFits
    <3>2. asset[shown[t]].upload \in Uploads
      BY <2>1, <3>1 DEF UploadsInv, AssetsFit, StorageTyped, AssetRows
    <3> QED
      BY <3>1, <3>2
  <2> QED
    BY <2>1 DEF ShownFits
<1>4. CleanerFits(cleaner', asset')
  BY DEF UploadsInv
<1>5. CommittedFits(call', upload', kept')
  <2>1. ASSUME NEW q \in Requests, q # p
        PROVE  /\ call'[q].phase \notin OfNoUpload => call'[q].upload \in Uploads
               /\ call'[q].phase = "committed" /\ OwnedBy(q, upload'[call'[q].upload])
                     => kept'[call'[q].upload] # None
    <3>1. call'[q] = call[q] /\ (call[q].phase \notin OfNoUpload => call[q].upload \in Uploads)
          /\ (call[q].phase = "committed" /\ OwnedBy(q, upload[call[q].upload]) => kept[call[q].upload] # None)
      BY <2>1 DEF UploadsInv, CommittedFits
    <3> QED
      BY <2>1, <3>1 DEF OfNoUpload, RowGoes
  <2> QED
    BY <2>1 DEF CommittedFits
<1> QED
  BY <1>1, <1>2, <1>3, <1>4, <1>5 DEF UploadsInv

LEMMA CallIs ==
    ASSUME UploadsInv, NEW p \in Requests
    PROVE  /\ call[p] \in CallRows /\ call \in [Requests -> CallRows]
           /\ call[p].phase \notin OfNoUpload => call[p].upload \in Uploads
           /\ call[p].phase \notin {"done", "failing"} => asset[p].status = "none"
<1>1. call[p].phase \notin {"done", "failing"} => asset[p].status = "none"
  BY DEF UploadsInv, AssetsFit
<1>2. call[p].phase \notin OfNoUpload => call[p].upload \in Uploads
  BY DEF UploadsInv, CommittedFits
<1> QED
  BY <1>1, <1>2 DEF UploadsInv, StorageTyped

LEMMA RowsAre ==
    ASSUME UploadsInv, NEW u \in Uploads
    PROVE  upload[u] \in UploadRows /\ temp[u] \in FileNames /\ kept[u] \in FileNames
BY DEF UploadsInv, StorageTyped

LEMMA RowStays ==
    ASSUME NEW p, NEW row PROVE RowGoes(p, row, row) /\ StaysActive(row, row)
BY DEF RowGoes, StaysActive

(* A request goes on and no row or file that is kept changes.                *)
LEMMA CallStep ==
    ASSUME UploadsInv, NEW p \in Requests, NEW ch \in CallRows, call' = [call EXCEPT ![p] = ch],
           UNCHANGED <<upload, kept, asset, shown, quota, cleaner>>,
           temp' \in [Uploads -> FileNames], content' \in [Requests -> Storage!Bodies],
           call[p].phase \notin {"done", "failing"}, ch.phase \notin {"measured", "committed"},
           ch.phase \notin OfNoUpload => ch.upload \in Uploads
    PROVE  UploadsInv'
<1>1. call' \in [Requests -> CallRows] /\ call'[p] = ch /\ \A q \in Requests \ {p} : call'[q] = call[q]
  BY CallIs
<1>2. StorageTyped'
  BY <1>1 DEF UploadsInv, StorageTyped
<1>3. \A u \in Uploads : RowGoes(p, upload[u], upload'[u]) /\ StaysActive(upload[u], upload'[u])
  BY RowStays
<1>4. QuotaFits(call', upload', quota')
  BY <1>1, <1>3, QuotaStays
<1>5. asset[p].status = "none"
  BY CallIs
<1>6. \A u \in Uploads : kept[u] # None => kept'[u] # None
  OBVIOUS
<1> QED
  BY <1>1, <1>2, <1>3, <1>4, <1>5, <1>6, StorageMove

LEMMA NoCallIs ==
    /\ Storage!NoCall \in CallRows /\ Storage!NoCall.phase = "none"
BY DEF Storage!NoCall, CallRows, Storage!Phases, Storage!Bodies

\* The phase a request begins, goes on or ends with.
LEMMA CallGoes ==
    ASSUME UploadsInv, NEW p \in Requests, NEW phase \in Storage!Phases, Storage!Goes(p, phase)
    PROVE  \E ch \in CallRows : /\ call' = [call EXCEPT ![p] = ch]
                                /\ ch.phase = phase /\ ch.upload = call[p].upload
<1> DEFINE ch == [call[p] EXCEPT !.phase = phase]
<1>1. ch \in CallRows /\ ch.phase = phase /\ ch.upload = call[p].upload
  BY CallIs DEF CallRows
<1>2. call' = [call EXCEPT ![p] = ch]
  BY DEF Storage!Goes
<1> HIDE DEF ch
<1> QED
  BY <1>1, <1>2
LEMMA CallStarts ==
    ASSUME UploadsInv, NEW p \in Requests, NEW u \in Uploads, NEW phase \in Storage!Phases,
           Storage!Starts(p, u, phase)
    PROVE  /\ call[p].phase = "none"
           /\ \E ch \in CallRows : call' = [call EXCEPT ![p] = ch] /\ ch.phase = phase /\ ch.upload = u
<1> DEFINE ch == [Storage!NoCall EXCEPT !.phase = phase, !.upload = u]
<1>1. ch \in CallRows /\ ch.phase = phase /\ ch.upload = u
  BY NoCallIs DEF CallRows
<1>2. call[p].phase = "none" /\ call' = [call EXCEPT ![p] = ch]
  BY DEF Storage!Starts, Storage!At
<1> HIDE DEF ch
<1> QED
  BY <1>1, <1>2
LEMMA CallEnds ==
    ASSUME UploadsInv, NEW p \in Requests, Storage!Ends(p)
    PROVE  \E ch \in CallRows : call' = [call EXCEPT ![p] = ch] /\ ch.phase = "none"
BY NoCallIs DEF Storage!Ends

LEMMA FindStep ==
    ASSUME UploadsInv, NEW p \in Requests, NEW u \in Uploads, NEW body \in Storage!Bodies,
           Storage!FindUpload(p, u, body)
    PROVE  UploadsInv'
<1> DEFINE ch == [Storage!NoCall EXCEPT !.phase = "checked", !.upload = u, !.body = body]
<1>1. call[p].phase = "none" /\ call' = [call EXCEPT ![p] = ch]
      /\ UNCHANGED <<upload, temp, kept, content, asset, shown, quota, cleaner>>
  BY DEF Storage!FindUpload, Storage!At, Storage!files
<1>2. ch \in CallRows /\ ch.phase = "checked" /\ ch.upload = u
  BY NoCallIs DEF CallRows, Storage!Phases
<1> HIDE DEF ch
<1>3. temp' \in [Uploads -> FileNames] /\ content' \in [Requests -> Storage!Bodies]
  BY <1>1 DEF UploadsInv, StorageTyped
<1> QED
  BY <1>1, <1>2, <1>3, CallStep DEF OfNoUpload

LEMMA OpenStep ==
    ASSUME UploadsInv, NEW p \in Requests, Storage!OpenTemp(p)
    PROVE  UploadsInv'
<1> DEFINE u == call[p].upload
           f == IF temp[u] = None THEN p ELSE temp[u]
           ch == [call[p] EXCEPT !.phase = "writing", !.file = f]
<1>1. call[p].phase = "checked" /\ call' = [call EXCEPT ![p].phase = "writing", ![p].file = f]
      /\ temp' = [temp EXCEPT ![u] = f] /\ content' = [content EXCEPT ![f] = "cut"]
      /\ UNCHANGED <<upload, kept, asset, shown, quota, cleaner>>
  BY DEF Storage!OpenTemp, Storage!At, Storage!Of
<1>2. u \in Uploads /\ call[p] \in CallRows /\ call \in [Requests -> CallRows]
  BY <1>1, CallIs DEF OfNoUpload
<1>3. f \in Requests
  BY <1>2, RowsAre DEF FileNames
<1> HIDE DEF u, f
<1>4. ch \in CallRows /\ ch.phase = "writing" /\ ch.upload = u
  BY <1>2, <1>3 DEF CallRows, Storage!Phases, u
<1>5. call' = [call EXCEPT ![p] = ch]
  BY <1>1, <1>2
<1> HIDE DEF ch
<1>6. temp' \in [Uploads -> FileNames] /\ content' \in [Requests -> Storage!Bodies]
  BY <1>1, <1>2, <1>3 DEF UploadsInv, StorageTyped, FileNames, Storage!Bodies
<1> QED
  BY <1>1, <1>2, <1>4, <1>5, <1>6, CallStep

LEMMA WriteStep ==
    ASSUME UploadsInv, NEW p \in Requests, Storage!WriteUploadStream(p)
    PROVE  UploadsInv'
<1>1. call[p].phase = "writing" /\ Storage!Goes(p, "done")
      /\ content' = [content EXCEPT ![call[p].file] = call[p].body]
      /\ (temp' = temp \/ temp' = [temp EXCEPT ![call[p].upload] = None])
      /\ UNCHANGED <<upload, kept, asset, shown, quota, cleaner>>
  BY DEF Storage!WriteUploadStream, Storage!At, Storage!Of
<1>2. call[p] \in CallRows
  BY CallIs
<1>3. temp' \in [Uploads -> FileNames] /\ content' \in [Requests -> Storage!Bodies]
  BY <1>1, <1>2 DEF UploadsInv, StorageTyped, FileNames, CallRows
<1>4. PICK ch \in CallRows : call' = [call EXCEPT ![p] = ch] /\ ch.phase = "done"
  BY <1>1, CallGoes DEF Storage!Phases
<1> QED
  BY <1>1, <1>3, <1>4, CallStep DEF OfNoUpload

LEMMA WaitStep ==
    ASSUME UploadsInv, NEW p \in Requests, Storage!WaitForCompletion(p)
    PROVE  UploadsInv'
<1>1. call[p].phase = "waiting" /\ Storage!Ends(p)
      /\ UNCHANGED <<upload, temp, kept, content, asset, shown, quota, cleaner>>
  BY DEF Storage!WaitForCompletion, Storage!At, Storage!files
<1>2. temp' \in [Uploads -> FileNames] /\ content' \in [Requests -> Storage!Bodies]
  BY <1>1 DEF UploadsInv, StorageTyped
<1>3. PICK ch \in CallRows : call' = [call EXCEPT ![p] = ch] /\ ch.phase = "none"
  BY <1>1, CallEnds
<1> QED
  BY <1>1, <1>2, <1>3, CallStep DEF OfNoUpload

LEMMA InspectStep ==
    ASSUME UploadsInv, NEW p \in Requests,
           Storage!Inspect(p) \/ Storage!FinalizeRefused(p)
    PROVE  UploadsInv'
<1>1. call[p].phase \in {"claimed", "committed"}
      /\ UNCHANGED <<upload, temp, kept, content, asset, shown, quota, cleaner>>
  BY DEF Storage!Inspect, Storage!FinalizeRefused, Storage!At, Storage!files
<1>2. PICK phase \in {"inspected", "failing", "done"} : Storage!Goes(p, phase)
  BY DEF Storage!Inspect, Storage!FinalizeRefused
<1>3. call[p].upload \in Uploads
  BY <1>1, CallIs DEF OfNoUpload
<1>4. temp' \in [Uploads -> FileNames] /\ content' \in [Requests -> Storage!Bodies]
  BY <1>1 DEF UploadsInv, StorageTyped
<1>5. PICK ch \in CallRows : /\ call' = [call EXCEPT ![p] = ch]
                             /\ ch.phase = phase /\ ch.upload = call[p].upload
  BY <1>2, CallGoes DEF Storage!Phases
<1> QED
  BY <1>1, <1>2, <1>3, <1>4, <1>5, CallStep

LEMMA AbandonFileStep ==
    ASSUME UploadsInv, NEW p \in Requests, NEW u \in Uploads, Storage!AbandonFile(p, u)
    PROVE  UploadsInv'
<1>1. Storage!Starts(p, u, "abandoning") /\ temp' = [temp EXCEPT ![u] = None]
      /\ UNCHANGED <<upload, kept, content, asset, shown, quota, cleaner>>
  BY DEF Storage!AbandonFile
<1>2. temp' \in [Uploads -> FileNames] /\ content' \in [Requests -> Storage!Bodies]
  BY <1>1 DEF UploadsInv, StorageTyped, FileNames
<1>3. call[p].phase = "none"
      /\ \E ch \in CallRows : call' = [call EXCEPT ![p] = ch] /\ ch.phase = "abandoning" /\ ch.upload = u
  BY <1>1, CallStarts DEF Storage!Phases
<1> QED
  BY <1>1, <1>2, <1>3, CallStep

(* Rows of uploads go on, with the request that wrote them or nobody.        *)
LEMMA RowsStep ==
    ASSUME UploadsInv, NEW p, NEW ch, upload' \in [Uploads -> UploadRows],
           \A u \in Uploads : RowGoes(p, upload[u], upload'[u]) /\ StaysActive(upload[u], upload'[u]),
           UNCHANGED <<temp, kept, content, asset, shown, quota, cleaner>>,
           p \notin Requests => call' = call,
           p \in Requests =>
              /\ ch \in CallRows /\ call' = [call EXCEPT ![p] = ch]
              /\ ch.phase \notin {"measured", "committed"}
              /\ ch.phase \notin OfNoUpload => ch.upload \in Uploads
              /\ asset[p].status # "none" => ch.phase \in {"done", "failing"}
    PROVE  UploadsInv'
<1>1. call \in [Requests -> CallRows]
  BY DEF UploadsInv, StorageTyped
<1>2. /\ call' \in [Requests -> CallRows] /\ \A q \in Requests \ {p} : call'[q] = call[q]
      /\ p \in Requests => call'[p] = ch
  BY <1>1
<1>3. StorageTyped'
  BY <1>2 DEF UploadsInv, StorageTyped
<1>4. p \in Requests => call'[p].phase # "measured"
  BY <1>2
<1>5. QuotaFits(call', upload', quota')
  BY <1>2, <1>4, QuotaStays
<1>6. \A u \in Uploads : kept[u] # None => kept'[u] # None
  OBVIOUS
<1> QED
  BY <1>2, <1>3, <1>5, <1>6, StorageMove

(* The rows a request or the clean-up writes.                                *)
LEMMA ExpiredIs ==
    ASSUME NEW row \in UploadRows
    PROVE  /\ Storage!Expired(row) \in UploadRows /\ Storage!Expired(row).status = "EXPIRED"
           /\ Storage!Expired(row).token = None
BY DEF Storage!Expired, UploadRows, Storage!Statuses
LEMMA NewIs ==
    ASSUME NEW t \in Storage!Targets \union {None}
    PROVE  /\ Storage!New(t) \in UploadRows /\ Storage!New(t).status = "CREATED"
           /\ Storage!New(t).target = t /\ Storage!New(t).token = None
<1>1. Storage!NoUpload \in UploadRows /\ Storage!NoUpload.token = None
  BY DEF Storage!NoUpload, UploadRows, Storage!Statuses
<1> QED
  BY <1>1 DEF Storage!New, UploadRows, Storage!Statuses
LEMMA GoneIs ==
    LET gone == [Storage!NoUpload EXCEPT !.status = "gone"]
    IN  gone \in UploadRows /\ gone.status = "gone"
BY DEF Storage!NoUpload, UploadRows, Storage!Statuses

LEMMA EndedRow ==
    ASSUME NEW p, NEW row \in UploadRows, NEW after,
           after.status \in {"EXPIRED", "FAILED"}, row.status \in Unfinished
    PROVE  RowGoes(p, row, after) /\ StaysActive(row, after)
BY DEF RowGoes, StaysActive, OwnedBy
LEMMA GoneRow ==
    ASSUME NEW p, NEW row, NEW after, after.status = "gone"
    PROVE  RowGoes(p, row, after) /\ StaysActive(row, after)
BY DEF RowGoes, StaysActive, OwnedBy, Unfinished

(* One row changes.                                                          *)
LEMMA RowStep ==
    ASSUME UploadsInv, NEW u \in Uploads, NEW after \in UploadRows,
           upload' = [upload EXCEPT ![u] = after],
           NEW p, NEW ch, RowGoes(p, upload[u], after), StaysActive(upload[u], after),
           UNCHANGED <<temp, kept, content, asset, shown, quota, cleaner>>,
           p \notin Requests => call' = call,
           p \in Requests =>
              /\ ch \in CallRows /\ call' = [call EXCEPT ![p] = ch]
              /\ ch.phase \notin {"measured", "committed"}
              /\ ch.phase \notin OfNoUpload => ch.upload \in Uploads
              /\ asset[p].status # "none" => ch.phase \in {"done", "failing"}
    PROVE  UploadsInv'
<1>1. upload \in [Uploads -> UploadRows]
  BY DEF UploadsInv, StorageTyped
<1>2. upload' \in [Uploads -> UploadRows] /\ upload'[u] = after
      /\ \A v \in Uploads \ {u} : upload'[v] = upload[v]
  BY <1>1
<1>3. \A v \in Uploads : RowGoes(p, upload[v], upload'[v]) /\ StaysActive(upload[v], upload'[v])
  BY <1>2, RowStays
<1> QED
  BY <1>2, <1>3, RowsStep

LEMMA NobodyIs == None \notin Requests
BY UploadsAssumption

(* One row changes and no request.                                           *)
LEMMA RowAlone ==
    ASSUME UploadsInv, NEW u \in Uploads, NEW after \in UploadRows,
           upload' = [upload EXCEPT ![u] = after],
           RowGoes(None, upload[u], after), StaysActive(upload[u], after),
           UNCHANGED <<temp, kept, content, asset, shown, quota, cleaner, call>>
    PROVE  UploadsInv'
BY RowStep, NobodyIs

LEMMA CreateUploadStep ==
    ASSUME UploadsInv, NEW u \in Uploads, NEW t \in Songs \union Sleeves, Storage!CreateUpload(u, t)
    PROVE  UploadsInv'
<1>1. upload[u].status = "none" /\ upload' = [upload EXCEPT ![u] = Storage!New(t)]
      /\ UNCHANGED <<temp, kept, content, asset, shown, quota, cleaner, call>>
  BY DEF Storage!CreateUpload, Storage!files
<1>2. t \in Storage!Targets /\ t \notin Owners
  BY UploadsAssumption DEF Storage!Targets
<1>3. /\ Storage!New(t) \in UploadRows /\ Storage!New(t).status = "CREATED"
      /\ Storage!New(t).target = t /\ Storage!New(t).token = None
  BY <1>2, NewIs
<1>4. RowGoes(None, upload[u], Storage!New(t)) /\ StaysActive(upload[u], Storage!New(t))
  BY <1>1, <1>2, <1>3 DEF RowGoes, StaysActive, OwnedBy, Unfinished
<1> QED
  BY <1>1, <1>3, <1>4, RowAlone

LEMMA LapseStep ==
    ASSUME UploadsInv, NEW u \in Uploads, Storage!Lapse(u)
    PROVE  UploadsInv'
<1> DEFINE after == [upload[u] EXCEPT !.lapsed = TRUE]
<1>1. upload[u].status \in {"CREATED", "COMPLETING", "FAILED"}
      /\ upload' = [upload EXCEPT ![u] = after]
      /\ UNCHANGED <<temp, kept, content, asset, shown, quota, cleaner, call>>
  BY DEF Storage!Lapse, Storage!files
<1>2. upload[u] \in UploadRows
  BY RowsAre
<1>3. after \in UploadRows /\ after.lapsed /\ after.status = upload[u].status /\ after.token = upload[u].token
  BY <1>2 DEF UploadRows
<1> HIDE DEF after
<1>4. RowGoes(None, upload[u], after) /\ StaysActive(upload[u], after)
  BY <1>1, <1>3 DEF RowGoes, StaysActive, OwnedBy, Unfinished
<1> QED
  BY <1>1, <1>3, <1>4, RowAlone

LEMMA DeleteUploadStep ==
    ASSUME UploadsInv, NEW u \in Uploads, Storage!DeleteUpload(u)
    PROVE  UploadsInv'
<1> DEFINE after == [Storage!NoUpload EXCEPT !.status = "gone"]
<1>1. upload' = [upload EXCEPT ![u] = after]
      /\ UNCHANGED <<temp, kept, content, asset, shown, quota, cleaner, call>>
  BY DEF Storage!DeleteUpload, Storage!files
<1>2. after \in UploadRows /\ after.status = "gone"
  BY GoneIs
<1> HIDE DEF after
<1> QED
  BY <1>1, <1>2, GoneRow, RowAlone

LEMMA ExpireStepOfUploads ==
    ASSUME UploadsInv, Storage!ExpireUploads
    PROVE  UploadsInv'
<1>1. upload' = [u \in Uploads |-> IF Storage!Overdue(u) THEN Storage!Expired(upload[u]) ELSE upload[u]]
      /\ UNCHANGED <<temp, kept, content, asset, shown, quota, cleaner, call>>
  BY DEF Storage!ExpireUploads, Storage!files
<1>2. ASSUME NEW u \in Uploads
      PROVE  /\ upload'[u] \in UploadRows
             /\ RowGoes(None, upload[u], upload'[u]) /\ StaysActive(upload[u], upload'[u])
  <2>1. upload[u] \in UploadRows
    BY RowsAre
  <2>2. CASE Storage!Overdue(u)
    <3>1. upload[u].status \in Unfinished /\ upload'[u] = Storage!Expired(upload[u])
      BY <1>1, <2>2 DEF Storage!Overdue, Unfinished
    <3> QED
      BY <2>1, <3>1, ExpiredIs, EndedRow
  <2>3. CASE ~Storage!Overdue(u)
    BY <1>1, <2>1, <2>3, RowStays
  <2> QED
    BY <2>2, <2>3
<1>3. upload' \in [Uploads -> UploadRows]
  BY <1>1, <1>2
<1> QED
  BY <1>1, <1>2, <1>3, NobodyIs, RowsStep

LEMMA ClaimUploadStep ==
    ASSUME UploadsInv, NEW p \in Requests, NEW u \in Uploads, Storage!Claim(p, u)
    PROVE  UploadsInv'
<1> DEFINE row == upload[u]
<1>1. UNCHANGED <<temp, kept, content, asset, shown, quota, cleaner>>
  BY DEF Storage!Claim, Storage!files
<1>2. row \in UploadRows
  BY RowsAre
<1>3. CASE UNCHANGED <<upload, call>>
  BY <1>1, <1>3 DEF UploadsInv, StorageTyped
<1>4. CASE Storage!Starts(p, u, "waiting") /\ UNCHANGED upload
  <2>1. call[p].phase = "none"
        /\ \E ch \in CallRows : call' = [call EXCEPT ![p] = ch] /\ ch.phase = "waiting" /\ ch.upload = u
    BY <1>4, CallStarts DEF Storage!Phases
  <2>2. temp' \in [Uploads -> FileNames] /\ content' \in [Requests -> Storage!Bodies]
    BY <1>1 DEF UploadsInv, StorageTyped
  <2> QED
    BY <1>1, <1>4, <2>1, <2>2, CallStep
<1>5. CASE /\ row.status \notin {"none", "gone", "COMPLETED"} /\ UNCHANGED call
           /\ upload' = [upload EXCEPT ![u] = Storage!Expired(row)]
  <2>1. row.status \in Unfinished
    BY <1>2, <1>5 DEF UploadRows, Storage!Statuses, Unfinished
  <2>2. Storage!Expired(row) \in UploadRows /\ Storage!Expired(row).status = "EXPIRED"
    BY <1>2, ExpiredIs
  <2>3. RowGoes(None, row, Storage!Expired(row)) /\ StaysActive(row, Storage!Expired(row))
    BY <1>2, <2>1, <2>2, EndedRow
  <2> QED
    BY <1>1, <1>5, <2>2, <2>3, RowAlone
<1>6. CASE /\ row.status = "CREATED" /\ ~row.lapsed /\ Storage!Starts(p, u, "claimed")
           /\ upload' = [upload EXCEPT ![u].status = "COMPLETING", ![u].token = p]
  <2> DEFINE after == [row EXCEPT !.status = "COMPLETING", !.token = p]
  <2>1. upload \in [Uploads -> UploadRows]
    BY DEF UploadsInv, StorageTyped
  <2>2. upload' = [upload EXCEPT ![u] = after]
    BY <1>6, <2>1
  <2>3. after \in UploadRows /\ after.status = "COMPLETING" /\ after.token = p
        /\ after.target = row.target /\ after.lapsed = row.lapsed
    BY <1>2 DEF UploadRows, Storage!Statuses
  <2> HIDE DEF after
  <2>4. RowGoes(p, row, after) /\ StaysActive(row, after)
    BY <1>6, <2>3 DEF RowGoes, StaysActive, OwnedBy, Unfinished
  <2>5. call[p].phase = "none"
    BY <1>6, CallStarts DEF Storage!Phases
  <2>6. PICK ch \in CallRows : call' = [call EXCEPT ![p] = ch] /\ ch.phase = "claimed" /\ ch.upload = u
    BY <1>6, CallStarts DEF Storage!Phases
  <2>7. asset[p].status = "none"
    BY <2>5, CallIs
  <2> QED
    BY <1>1, <2>2, <2>3, <2>4, <2>6, <2>7, RowStep
<1> QED
  BY <1>3, <1>4, <1>5, <1>6 DEF Storage!Claim, Storage!ClaimUploadCompletion

LEMMA FailStep ==
    ASSUME UploadsInv, NEW p \in Requests, Storage!FailUploadCompletion(p)
    PROVE  UploadsInv'
<1> DEFINE u == call[p].upload
           after == [upload[u] EXCEPT !.status = "FAILED", !.token = None]
<1>1. call[p].phase = "failing" /\ Storage!Goes(p, "done")
      /\ UNCHANGED <<temp, kept, content, asset, shown, quota, cleaner>>
  BY DEF Storage!FailUploadCompletion, Storage!At, Storage!files
<1>2. u \in Uploads
  BY <1>1, CallIs DEF OfNoUpload
<1>3. upload[u] \in UploadRows /\ upload \in [Uploads -> UploadRows]
  BY <1>2, RowsAre DEF UploadsInv, StorageTyped
<1>4. PICK ch \in CallRows : call' = [call EXCEPT ![p] = ch] /\ ch.phase = "done"
  BY <1>1, CallGoes DEF Storage!Phases
<1>5. CASE upload' = upload
  BY <1>1, <1>3, <1>4, <1>5, RowStays, RowsStep DEF OfNoUpload
<1>6. CASE Storage!Failable(p) /\ upload' # upload
  <2>1. upload' = [upload EXCEPT ![u].status = "FAILED", ![u].token = None]
        /\ upload[u].status = "COMPLETING"
    BY <1>6 DEF Storage!FailUploadCompletion, Storage!Of, Storage!Failable, Storage!Owned
  <2>2. upload' = [upload EXCEPT ![u] = after]
    BY <1>3, <2>1
  <2>3. after \in UploadRows /\ after.status = "FAILED" /\ upload[u].status \in Unfinished
    BY <1>3, <2>1 DEF UploadRows, Storage!Statuses, Unfinished
  <2> HIDE DEF after
  <2>4. RowGoes(p, upload[u], after) /\ StaysActive(upload[u], after)
    BY <1>3, <2>3, EndedRow
  <2> QED
    BY <1>1, <1>2, <1>4, <2>2, <2>3, <2>4, RowStep DEF OfNoUpload
<1> QED
  BY <1>5, <1>6 DEF Storage!FailUploadCompletion

LEMMA AbandonStep ==
    ASSUME UploadsInv, NEW p \in Requests, Storage!AbandonUpload(p)
    PROVE  UploadsInv'
<1> DEFINE u == call[p].upload
           after == [upload[u] EXCEPT !.status = "FAILED"]
<1>1. call[p].phase = "abandoning" /\ Storage!Ends(p)
      /\ UNCHANGED <<temp, kept, content, asset, shown, quota, cleaner>>
  BY DEF Storage!AbandonUpload, Storage!At, Storage!files
<1>2. u \in Uploads /\ asset[p].status = "none"
  BY <1>1, CallIs DEF OfNoUpload
<1>3. upload[u] \in UploadRows /\ upload \in [Uploads -> UploadRows]
  BY <1>2, RowsAre DEF UploadsInv, StorageTyped
<1>4. PICK ch \in CallRows : call' = [call EXCEPT ![p] = ch] /\ ch.phase = "none"
  BY <1>1, CallEnds
<1>5. CASE upload' = upload
  BY <1>1, <1>2, <1>3, <1>4, <1>5, RowStays, RowsStep DEF OfNoUpload
<1>6. CASE upload[u].status \notin {"COMPLETED", "FAILED", "gone"}
  <2>1. upload' = [upload EXCEPT ![u] = after]
    BY <1>6 DEF Storage!AbandonUpload, Storage!Of
  <2>2. after \in UploadRows /\ after.status = "FAILED" /\ upload[u].status \in Unfinished
    BY <1>3, <1>6 DEF UploadRows, Storage!Statuses, Unfinished
  <2> HIDE DEF after
  <2>3. RowGoes(p, upload[u], after) /\ StaysActive(upload[u], after)
    BY <1>3, <2>2, EndedRow
  <2> QED
    BY <1>1, <1>2, <1>4, <2>1, <2>2, <2>3, RowStep DEF OfNoUpload
<1> QED
  BY <1>5, <1>6 DEF Storage!AbandonUpload, Storage!Of

-----------------------------------------------------------------------------
(* Uploads: the cleaner, answers and crashes.                                *)

LEMMA ListStep ==
    ASSUME UploadsInv, Storage!ListPending
    PROVE  UploadsInv'
<1>1. cleaner' = [Storage!Idle EXCEPT !.listed = {a \in Requests : Storage!Pending(a)}]
      /\ UNCHANGED <<upload, temp, kept, content, asset, shown, quota, call>>
  BY DEF Storage!ListPending, Storage!files
<1>2. cleaner' = [listed |-> {a \in Requests : Storage!Pending(a)}, removed |-> {}]
  BY <1>1 DEF Storage!Idle
<1>3. cleaner' \in [listed : SUBSET Requests, removed : SUBSET Requests]
  BY <1>2
<1>4. StorageTyped'
  BY <1>1, <1>3 DEF UploadsInv, StorageTyped
<1>5. CleanerFits(cleaner', asset')
  BY <1>1, <1>2 DEF CleanerFits, Storage!Pending
<1> QED
  BY <1>1, <1>4, <1>5 DEF UploadsInv

LEMMA DeleteFileStep ==
    ASSUME UploadsInv, NEW a \in Requests, Storage!DeleteFile(a)
    PROVE  UploadsInv'
<1> DEFINE u == asset[a].upload
<1>1. a \in cleaner.listed /\ kept' = [kept EXCEPT ![u] = None]
      /\ cleaner' = [listed |-> cleaner.listed \ {a}, removed |-> cleaner.removed \union {a}]
      /\ UNCHANGED <<upload, temp, content, asset, shown, quota, call>>
  BY DEF Storage!DeleteFile, Storage!Place
<1>2. asset[a].status \in {"DELETE_PENDING", "DELETED"}
  BY <1>1 DEF UploadsInv, CleanerFits
<1>3. u # None
  BY <1>2 DEF UploadsInv, AssetsFit
<1>4. /\ StorageTyped /\ AssetsFit(asset, call) /\ StatusFits(upload, asset)
      /\ ShownFits(shown, asset, kept) /\ CleanerFits(cleaner, asset)
      /\ CommittedFits(call, upload, kept)
  BY DEF UploadsInv
<1>5. \A v \in Uploads \ {u} : kept'[v] = kept[v]
  BY <1>1, <1>4 DEF StorageTyped
<1>6. StorageTyped'
  BY <1>1, <1>4 DEF StorageTyped, FileNames
<1>7. ShownFits(shown', asset', kept')
  <2>1. ASSUME NEW t \in Storage!Targets, shown[t] \in Requests
        PROVE  asset[shown[t]].status = "READY" /\ kept'[asset[shown[t]].upload] # None
    <3>1. asset[shown[t]].status = "READY" /\ kept[asset[shown[t]].upload] # None
      BY <1>4, <2>1 DEF ShownFits
    <3>2. asset[shown[t]].upload \in Uploads /\ asset[shown[t]].upload # None
      BY <1>4, <2>1, <3>1 DEF AssetsFit, StorageTyped, AssetRows
    <3>3. asset[shown[t]].upload # u
      BY <1>2, <1>4, <2>1, <3>1, <3>2 DEF AssetsFit
    <3> QED
      BY <1>5, <3>1, <3>2, <3>3
  <2> QED
    BY <1>1, <2>1 DEF ShownFits
<1>8. CommittedFits(call', upload', kept')
  <2>1. ASSUME NEW p \in Requests, call[p].phase = "committed", OwnedBy(p, upload[call[p].upload])
        PROVE  kept'[call[p].upload] # None
    <3>1. call[p].upload \in Uploads /\ kept[call[p].upload] # None
      BY <1>4, <2>1 DEF CommittedFits, OfNoUpload
    <3>2. call[p].upload # u
      BY <1>4, <2>1, <3>1 DEF StatusFits, OwnedBy, Unfinished
    <3> QED
      BY <1>5, <3>1, <3>2
  <2> QED
    BY <1>1, <1>4, <2>1 DEF CommittedFits
<1>9. CleanerFits(cleaner', asset')
  BY <1>1, <1>2, <1>4 DEF CleanerFits
<1> QED
  BY <1>1, <1>6, <1>7, <1>8, <1>9 DEF UploadsInv

LEMMA MarkDeletedStep ==
    ASSUME UploadsInv, NEW a \in Requests, Storage!MarkDeleted(a)
    PROVE  UploadsInv'
<1>1. /\ cleaner' = [cleaner EXCEPT !.removed = @ \ {a}]
      /\ asset' = IF Storage!Pending(a) THEN [asset EXCEPT ![a].status = "DELETED"] ELSE asset
      /\ UNCHANGED <<upload, temp, kept, content, shown, quota, call>>
  BY DEF Storage!MarkDeleted, Storage!files
<1>2. /\ StorageTyped /\ AssetsFit(asset, call) /\ StatusFits(upload, asset)
      /\ ShownFits(shown, asset, kept) /\ CleanerFits(cleaner, asset)
      /\ CommittedFits(call, upload, kept) /\ QuotaFits(call, upload, quota)
  BY DEF UploadsInv
<1>3. cleaner' \in [listed : SUBSET Requests, removed : SUBSET Requests]
      /\ cleaner'.listed = cleaner.listed /\ cleaner'.removed \subseteq cleaner.removed
  BY <1>1, <1>2 DEF StorageTyped
<1>4. /\ asset' \in [Requests -> AssetRows] /\ \A b \in Requests : asset'[b].upload = asset[b].upload
      /\ \A b \in Requests : \/ asset'[b].status = asset[b].status
            \/ /\ asset[b].status = "DELETE_PENDING" /\ asset'[b].status = "DELETED"
               /\ \A t \in Storage!Targets : shown[t] # b
  <2>1. asset \in [Requests -> AssetRows]
    BY <1>2 DEF StorageTyped
  <2>2. CASE ~Storage!Pending(a)
    BY <1>1, <2>1, <2>2
  <2>3. CASE Storage!Pending(a)
    <3>1. asset' = [asset EXCEPT ![a] = [asset[a] EXCEPT !.status = "DELETED"]]
      BY <1>1, <2>1, <2>3
    <3>2. asset[a].status = "DELETE_PENDING" /\ \A t \in Storage!Targets : shown[t] # a
      BY <2>3 DEF Storage!Pending, Storage!Referenced
    <3>3. [asset[a] EXCEPT !.status = "DELETED"] \in AssetRows
          /\ [asset[a] EXCEPT !.status = "DELETED"].status = "DELETED"
          /\ [asset[a] EXCEPT !.status = "DELETED"].upload = asset[a].upload
      BY <2>1 DEF AssetRows
    <3> QED
      BY <2>1, <3>1, <3>2, <3>3
  <2> QED
    BY <2>2, <2>3
<1>5. StorageTyped'
  BY <1>1, <1>2, <1>3, <1>4 DEF StorageTyped
<1>6. AssetsFit(asset', call')
  BY <1>1, <1>2, <1>4 DEF AssetsFit
<1>7. StatusFits(upload', asset')
  BY <1>1, <1>2, <1>4 DEF StatusFits
<1>8. ShownFits(shown', asset', kept')
  BY <1>1, <1>2, <1>4 DEF ShownFits
<1>9. CleanerFits(cleaner', asset')
  <2>1. ASSUME NEW b \in cleaner'.listed \union cleaner'.removed
        PROVE  asset'[b].status \in {"DELETE_PENDING", "DELETED"}
    <3>1. b \in Requests /\ asset[b].status \in {"DELETE_PENDING", "DELETED"}
      BY <1>2, <1>3, <2>1 DEF CleanerFits
    <3> QED
      BY <1>4, <3>1
  <2> QED
    BY <2>1 DEF CleanerFits
<1> QED
  BY <1>1, <1>2, <1>5, <1>6, <1>7, <1>8, <1>9 DEF UploadsInv

LEMMA StorageAnswerStep ==
    ASSUME UploadsInv, NEW p \in Requests, Storage!Answer(p)
    PROVE  UploadsInv'
<1>1. call' = [call EXCEPT ![p] = Storage!NoCall] /\ content' = [content EXCEPT ![p] = "cut"]
      /\ asset[p].status = "none"
      /\ UNCHANGED <<upload, temp, kept, asset, shown, quota, cleaner>>
  BY DEF Storage!Answer
<1>2. call \in [Requests -> CallRows]
  BY DEF UploadsInv, StorageTyped
<1>3. call' \in [Requests -> CallRows] /\ call'[p] = Storage!NoCall
      /\ \A q \in Requests \ {p} : call'[q] = call[q]
  BY <1>1, <1>2, NoCallIs
<1>4. StorageTyped'
  BY <1>1, <1>3 DEF UploadsInv, StorageTyped, Storage!Bodies
<1>5. \A u \in Uploads : RowGoes(p, upload[u], upload'[u]) /\ StaysActive(upload[u], upload'[u])
  BY <1>1, RowStays
<1>6. QuotaFits(call', upload', quota')
  BY <1>1, <1>3, <1>5, NoCallIs, QuotaStays
<1> QED
  BY <1>1, <1>3, <1>4, <1>5, <1>6, NoCallIs, StorageMove DEF OfNoUpload

LEMMA StorageCrashStep ==
    ASSUME UploadsInv, Storage!Crash
    PROVE  UploadsInv'
<1>1. /\ call' = [p \in Requests |-> IF call[p].phase = "none" THEN Storage!NoCall
                                     ELSE [Storage!NoCall EXCEPT !.phase = "done"]]
      /\ quota' = [o \in Owners |-> None] /\ cleaner' = Storage!Idle
      /\ UNCHANGED <<upload, temp, kept, content, asset, shown>>
  BY DEF Storage!Crash, Storage!At, Storage!files
<1> DEFINE done == [Storage!NoCall EXCEPT !.phase = "done"]
<1>2. done \in CallRows /\ done.phase = "done"
  BY NoCallIs DEF CallRows, Storage!Phases
<1> HIDE DEF done
<1>3. \A p \in Requests : /\ call'[p] \in CallRows /\ call'[p].phase \in {"none", "done"}
                          /\ call[p].phase # "none" => call'[p].phase = "done"
  BY <1>1, <1>2, NoCallIs DEF done
<1>4. call' \in [Requests -> CallRows]
  BY <1>1, <1>3
<1>5. cleaner' \in [listed : SUBSET Requests, removed : SUBSET Requests]
      /\ cleaner'.listed = {} /\ cleaner'.removed = {}
  BY <1>1 DEF Storage!Idle
<1>6. StorageTyped'
  BY <1>1, <1>4, <1>5 DEF UploadsInv, StorageTyped, FileNames
<1>7. AssetsFit(asset', call')
  BY <1>1, <1>3 DEF UploadsInv, AssetsFit
<1>8. CommittedFits(call', upload', kept')
  BY <1>3 DEF CommittedFits, OfNoUpload
<1>9. QuotaFits(call', upload', quota')
  BY <1>1, <1>3 DEF UploadsInv, QuotaFits
<1>10. CleanerFits(cleaner', asset')
  BY <1>5 DEF CleanerFits
<1> QED
  BY <1>1, <1>6, <1>7, <1>8, <1>9, <1>10 DEF UploadsInv

-----------------------------------------------------------------------------
(* Uploads: quotas, completions and the end of a target.                     *)

LEMMA ActiveOfIs ==
    ASSUME NEW o
    PROVE  /\ Storage!ActiveOf(o) = ActiveIn(upload, o)
           /\ Storage!Cardinality(Storage!ActiveOf(o)) = Cardinality(ActiveIn(upload, o))
<1>1. Storage!ActiveOf(o) = ActiveIn(upload, o)
  BY DEF Storage!ActiveOf, Storage!Active, ActiveIn
<1>2. Storage!Cardinality(Storage!ActiveOf(o)) = Cardinality(Storage!ActiveOf(o))
  BY Zenon DEF Storage!Cardinality, Cardinality
<1> QED
  BY <1>1, <1>2

LEMMA MeasureStep ==
    ASSUME UploadsInv, NEW p \in Requests, NEW o \in Owners, Storage!MeasureQuota(p, o)
    PROVE  UploadsInv'
<1> DEFINE ch == [Storage!NoCall EXCEPT !.phase = "measured", !.user = o]
<1>1. quota[o] = None /\ Cardinality(ActiveIn(upload, o)) < Quota
      /\ call[p].phase = "none" /\ call' = [call EXCEPT ![p] = ch] /\ quota' = [quota EXCEPT ![o] = p]
      /\ UNCHANGED <<upload, temp, kept, content, asset, shown, cleaner>>
  BY ActiveOfIs DEF Storage!MeasureQuota, Storage!QuotaFree, Storage!At, Storage!files
<1>2. ch \in CallRows /\ ch.phase = "measured" /\ ch.user = o
  BY NoCallIs DEF CallRows, Storage!Phases
<1> HIDE DEF ch
<1>3. call \in [Requests -> CallRows] /\ quota \in [Owners -> FileNames] /\ QuotaFits(call, upload, quota)
  BY DEF UploadsInv, StorageTyped
<1>4. /\ call' \in [Requests -> CallRows] /\ call'[p] = ch /\ \A q \in Requests \ {p} : call'[q] = call[q]
      /\ quota' \in [Owners -> FileNames] /\ quota'[o] = p /\ \A v \in Owners \ {o} : quota'[v] = quota[v]
  BY <1>1, <1>2, <1>3 DEF FileNames
<1>5. StorageTyped'
  BY <1>1, <1>4 DEF UploadsInv, StorageTyped
<1>6. QuotaFits(call', upload', quota')
  <2>1. ASSUME NEW q \in Requests, call'[q].phase = "measured"
        PROVE  /\ call'[q].user \in Owners /\ quota'[call'[q].user] = q
               /\ Cardinality(ActiveIn(upload, call'[q].user)) < Quota
    <3>1. CASE q = p
      BY <1>1, <1>2, <1>4, <3>1
    <3>2. CASE q # p
      <4>1. call'[q] = call[q]
        BY <1>4, <3>2
      <4>2. call[q].user \in Owners /\ quota[call[q].user] = q
            /\ Cardinality(ActiveIn(upload, call[q].user)) < Quota
        BY <1>3, <2>1, <4>1 DEF QuotaFits
      <4>3. call[q].user # o
        BY <1>1, <4>2, NobodyIs
      <4> QED
        BY <1>4, <4>1, <4>2, <4>3
    <3> QED
      BY <3>1, <3>2
  <2> QED
    BY <1>1, <1>3, <2>1 DEF QuotaFits
<1>7. asset[p].status = "none"
  BY <1>1, CallIs
<1>8. \A u \in Uploads : RowGoes(p, upload[u], upload'[u])
  BY <1>1, RowStays
<1> QED
  BY <1>1, <1>2, <1>4, <1>5, <1>6, <1>7, <1>8, StorageMove DEF OfNoUpload

LEMMA CreateAvatarStep ==
    ASSUME UploadsInv, NEW p \in Requests, NEW u \in Uploads, Storage!CreateAvatarUpload(p, u)
    PROVE  UploadsInv'
<1> DEFINE o == call[p].user
<1>1. /\ call[p].phase = "measured" /\ call' = [call EXCEPT ![p] = Storage!NoCall]
      /\ upload[u].status = "none"
      /\ upload' = [v \in Uploads |->
            IF v = u THEN Storage!New(o)
            ELSE IF upload[v].target = o /\ Storage!Overdue(v) THEN Storage!Expired(upload[v]) ELSE upload[v]]
      /\ quota' = [quota EXCEPT ![o] = None]
      /\ UNCHANGED <<temp, kept, content, asset, shown, cleaner>>
  BY DEF Storage!CreateAvatarUpload, Storage!At, Storage!Ends, Storage!files, Storage!Target
<1>2. call \in [Requests -> CallRows] /\ quota \in [Owners -> FileNames] /\ QuotaFits(call, upload, quota)
      /\ upload \in [Uploads -> UploadRows]
  BY DEF UploadsInv, StorageTyped
<1>3. o \in Owners /\ quota[o] = p /\ Cardinality(ActiveIn(upload, o)) < Quota
  BY <1>1, <1>2 DEF QuotaFits
<1>4. /\ call' \in [Requests -> CallRows] /\ call'[p] = Storage!NoCall
      /\ \A q \in Requests \ {p} : call'[q] = call[q]
      /\ quota' \in [Owners -> FileNames] /\ \A v \in Owners \ {o} : quota'[v] = quota[v]
  BY <1>1, <1>2, NoCallIs DEF FileNames
<1>5. o \in Storage!Targets
  BY <1>3 DEF Storage!Targets
<1> HIDE DEF o
<1>6. /\ upload'[u] \in UploadRows /\ upload'[u].status = "CREATED"
      /\ upload'[u].target = o /\ upload'[u].token = None
  BY <1>1, <1>5, NewIs
<1>7. ASSUME NEW v \in Uploads, v # u
      PROVE  /\ upload'[v] \in UploadRows
             /\ RowGoes(p, upload[v], upload'[v]) /\ StaysActive(upload[v], upload'[v])
  <2>1. upload[v] \in UploadRows
    BY RowsAre
  <2>2. CASE upload[v].target = o /\ Storage!Overdue(v)
    <3>1. upload[v].status \in Unfinished /\ upload'[v] = Storage!Expired(upload[v])
      BY <1>1, <1>7, <2>2 DEF Storage!Overdue, Unfinished
    <3> QED
      BY <2>1, <3>1, ExpiredIs, EndedRow
  <2>3. CASE ~(upload[v].target = o /\ Storage!Overdue(v))
    <3>1. upload'[v] = upload[v]
      BY <1>1, <1>7, <2>3
    <3> QED
      BY <2>1, <3>1, RowStays
  <2> QED
    BY <2>2, <2>3
<1>8. RowGoes(p, upload[u], upload'[u])
  BY <1>1, <1>6, NobodyIs DEF RowGoes, OwnedBy, Unfinished
<1>9. \A v \in Uploads : RowGoes(p, upload[v], upload'[v])
  BY <1>7, <1>8
<1>10. upload' \in [Uploads -> UploadRows]
  <2>1. \A v \in Uploads : upload'[v] \in UploadRows
    BY <1>6, <1>7
  <2> QED
    BY <1>1, <2>1
<1>11. StorageTyped'
  BY <1>1, <1>4, <1>10 DEF UploadsInv, StorageTyped
<1>12. ASSUME NEW d \in Owners, d # o
       PROVE  /\ Cardinality(ActiveIn(upload', d)) <= Cardinality(ActiveIn(upload, d))
              /\ Cardinality(ActiveIn(upload', d)) \in Nat /\ Cardinality(ActiveIn(upload, d)) \in Nat
  <2>1. ActiveIn(upload', d) \subseteq ActiveIn(upload, d)
    <3>1. ASSUME NEW v \in ActiveIn(upload', d) PROVE v \in ActiveIn(upload, d)
      <4>1. v \in Uploads /\ upload'[v].target = d /\ upload'[v].status \in {"CREATED", "COMPLETING"}
            /\ ~upload'[v].lapsed
        BY <3>1 DEF ActiveIn
      <4>2. v # u
        BY <1>6, <1>12, <4>1
      <4> QED
        BY <1>7, <1>12, <4>1, <4>2 DEF StaysActive, ActiveIn
    <3> QED
      BY <3>1
  <2> QED
    BY <2>1, FewerActive, ActiveCount
<1>13. Cardinality(ActiveIn(upload', o)) <= Quota
  <2>1. ActiveIn(upload', o) \subseteq ActiveIn(upload, o) \union {u}
    <3>1. ASSUME NEW v \in ActiveIn(upload', o), v # u PROVE v \in ActiveIn(upload, o)
      <4>1. v \in Uploads /\ upload'[v].target = o /\ upload'[v].status \in {"CREATED", "COMPLETING"}
            /\ ~upload'[v].lapsed
        BY <3>1 DEF ActiveIn
      <4> QED
        BY <1>3, <1>7, <3>1, <4>1 DEF StaysActive, ActiveIn, o
    <3> QED
      BY <3>1
  <2>2. u \notin ActiveIn(upload, o)
    BY <1>1 DEF ActiveIn
  <2>3. IsFiniteSet(ActiveIn(upload, o)) /\ Cardinality(ActiveIn(upload, o)) \in Nat
    BY ActiveCount
  <2>4. /\ IsFiniteSet(ActiveIn(upload, o) \union {u})
        /\ Cardinality(ActiveIn(upload, o) \union {u}) = Cardinality(ActiveIn(upload, o)) + 1
    BY <2>2, <2>3, FS_AddElement
  <2>5. Cardinality(ActiveIn(upload', o)) <= Cardinality(ActiveIn(upload, o) \union {u})
    BY <2>1, <2>4, FS_Subset
  <2>6. Cardinality(ActiveIn(upload', o)) \in Nat
    BY ActiveCount
  <2>7. Cardinality(ActiveIn(upload, o)) < Quota
    BY <1>3 DEF o
  <2> QED
    BY <2>3, <2>4, <2>5, <2>6, <2>7, UploadsAssumption
<1>14. QuotaFits(call', upload', quota')
  <2>1. ASSUME NEW q \in Requests, call'[q].phase = "measured"
        PROVE  /\ call'[q].user \in Owners /\ quota'[call'[q].user] = q
               /\ Cardinality(ActiveIn(upload', call'[q].user)) < Quota
    <3>1. q # p
      BY <1>4, <2>1, NoCallIs
    <3>2. call'[q] = call[q]
      BY <1>4, <3>1
    <3>3. call[q].user \in Owners /\ quota[call[q].user] = q
          /\ Cardinality(ActiveIn(upload, call[q].user)) < Quota
      BY <1>2, <2>1, <3>2 DEF QuotaFits
    <3>4. call[q].user # o
      BY <1>3, <3>1, <3>3 DEF o
    <3> QED
      BY <1>4, <1>12, <3>2, <3>3, <3>4, UploadsAssumption
  <2>2. ASSUME NEW d \in Owners PROVE Cardinality(ActiveIn(upload', d)) <= Quota
    <3>1. Cardinality(ActiveIn(upload, d)) <= Quota
      BY <1>2 DEF QuotaFits
    <3> QED
      BY <1>12, <1>13, <3>1, UploadsAssumption
  <2> QED
    BY <2>1, <2>2 DEF QuotaFits
<1>15. asset[p].status = "none"
  BY <1>1, CallIs
<1> QED
  BY <1>1, <1>4, <1>9, <1>11, <1>14, <1>15, NoCallIs, StorageMove DEF OfNoUpload

LEMMA CommitUploadStep ==
    ASSUME UploadsInv, NEW p \in Requests, Storage!CommitUpload(p)
    PROVE  UploadsInv'
<1> DEFINE u == call[p].upload
<1>1. call[p].phase = "inspected" /\ UNCHANGED <<upload, asset, shown, quota, cleaner>>
  BY DEF Storage!CommitUpload, Storage!At
<1>2. u \in Uploads /\ asset[p].status = "none"
  BY <1>1, CallIs DEF OfNoUpload
<1>3. CASE Storage!Goes(p, "failing") /\ UNCHANGED <<temp, kept, content>>
  <2>1. PICK ch \in CallRows : call' = [call EXCEPT ![p] = ch] /\ ch.phase = "failing" /\ ch.upload = u
    BY <1>3, CallGoes DEF Storage!Phases
  <2>2. temp' \in [Uploads -> FileNames] /\ content' \in [Requests -> Storage!Bodies]
    BY <1>3 DEF UploadsInv, StorageTyped
  <2> QED
    BY <1>1, <1>2, <1>3, <2>1, <2>2, CallStep
<1>4. CASE \E f \in Requests :
             /\ Storage!Goes(p, "committed") /\ kept' = [kept EXCEPT ![u] = f]
             /\ temp' = [temp EXCEPT ![u] = None] /\ content' \in [Requests -> Storage!Bodies]
  <2>1. PICK f \in Requests :
             /\ Storage!Goes(p, "committed") /\ kept' = [kept EXCEPT ![u] = f]
             /\ temp' = [temp EXCEPT ![u] = None] /\ content' \in [Requests -> Storage!Bodies]
    BY <1>4
  <2>2. PICK ch \in CallRows : call' = [call EXCEPT ![p] = ch] /\ ch.phase = "committed" /\ ch.upload = u
    BY <2>1, CallGoes DEF Storage!Phases
  <2>3. call \in [Requests -> CallRows] /\ kept \in [Uploads -> FileNames] /\ temp \in [Uploads -> FileNames]
    BY DEF UploadsInv, StorageTyped
  <2>4. call' \in [Requests -> CallRows] /\ call'[p] = ch /\ \A q \in Requests \ {p} : call'[q] = call[q]
    BY <2>2, <2>3
  <2>5. kept' \in [Uploads -> FileNames] /\ temp' \in [Uploads -> FileNames] /\ kept'[u] = f
        /\ \A v \in Uploads \ {u} : kept'[v] = kept[v]
    BY <1>2, <2>1, <2>3 DEF FileNames
  <2>6. StorageTyped'
    BY <1>1, <2>1, <2>4, <2>5 DEF UploadsInv, StorageTyped
  <2>7. \A v \in Uploads : kept[v] # None => kept'[v] # None
    BY <2>5, NobodyIs
  <2>8. \A v \in Uploads : RowGoes(p, upload[v], upload'[v]) /\ StaysActive(upload[v], upload'[v])
    BY <1>1, RowStays
  <2>9. QuotaFits(call', upload', quota')
    BY <1>1, <2>2, <2>4, <2>8, QuotaStays
  <2>10. kept'[ch.upload] # None
    BY <2>2, <2>5, NobodyIs
  <2> QED
    BY <1>1, <1>2, <2>2, <2>4, <2>6, <2>7, <2>8, <2>9, <2>10, StorageMove
<1>5. CASE /\ temp[u] # None /\ Storage!Goes(p, "committed")
           /\ kept' = [kept EXCEPT ![u] = temp[u]] /\ temp' = [temp EXCEPT ![u] = None]
           /\ UNCHANGED content
  <2>1. temp[u] \in Requests /\ content' \in [Requests -> Storage!Bodies]
    BY <1>2, <1>5 DEF UploadsInv, StorageTyped, FileNames
  <2> QED
    BY <1>4, <1>5, <2>1
<1>6. CASE /\ temp[u] # None /\ Storage!Goes(p, "committed")
           /\ content' = [content EXCEPT ![p] = content[temp[u]]]
           /\ kept' = [kept EXCEPT ![u] = p] /\ temp' = [temp EXCEPT ![u] = None]
  <2>1. temp[u] \in Requests /\ content \in [Requests -> Storage!Bodies]
    BY <1>2, <1>6 DEF UploadsInv, StorageTyped, FileNames
  <2>2. content' \in [Requests -> Storage!Bodies]
    BY <1>6, <2>1
  <2> QED
    BY <1>4, <1>6, <2>2
<1> QED
  BY <1>3, <1>5, <1>6 DEF Storage!CommitUpload, Storage!Of, Storage!Place, Storage!files

(* The asset a completion inserts, and the avatar it replaces.               *)
LEMMA FinalizeUploadStep ==
    ASSUME UploadsInv, NEW p \in Requests, Storage!FinalizeUpload(p)
    PROVE  UploadsInv'
<1> DEFINE u == call[p].upload
           t == upload[u].target
           made == [status |-> "READY", upload |-> u]
           replaced(a) == shown[t] = a /\ Storage!Replaced(a, t)
           after == [Storage!New(t) EXCEPT !.status = "COMPLETED", !.asset = p]
<1>1. /\ call[p].phase = "committed" /\ OwnedBy(p, upload[u])
      /\ asset' = [a \in Requests |-> IF a = p THEN made
                     ELSE IF replaced(a) THEN [asset[a] EXCEPT !.status = "DELETE_PENDING"] ELSE asset[a]]
      /\ shown' = [shown EXCEPT ![t] = p] /\ upload' = [upload EXCEPT ![u] = after]
      /\ UNCHANGED <<temp, kept, content, quota, cleaner>>
  BY DEF Storage!FinalizeUpload, Storage!At, Storage!Of, Storage!Target, Storage!Owned, OwnedBy, Storage!files
<1>2. PICK phase \in {"done", "failing"} : Storage!Goes(p, phase)
  BY DEF Storage!FinalizeUpload
<1>3. PICK ch \in CallRows : call' = [call EXCEPT ![p] = ch] /\ ch.phase = phase /\ ch.upload = u
  BY <1>2, CallGoes DEF Storage!Phases
<1>4. /\ StorageTyped /\ AssetsFit(asset, call) /\ StatusFits(upload, asset)
      /\ ShownFits(shown, asset, kept) /\ CleanerFits(cleaner, asset)
      /\ CommittedFits(call, upload, kept)
  BY DEF UploadsInv
<1>5. u \in Uploads /\ u # None /\ asset[p].status = "none" /\ asset[p].upload = None
  BY <1>1, <1>4, CallIs, UploadsAssumption DEF OfNoUpload, AssetsFit
<1>6. upload[u] \in UploadRows /\ upload \in [Uploads -> UploadRows] /\ asset \in [Requests -> AssetRows]
      /\ call \in [Requests -> CallRows] /\ shown \in [Storage!Targets -> Requests \union {None, "gone"}]
  BY <1>4, <1>5 DEF StorageTyped
<1>7. t \in Storage!Targets \union {None}
  BY <1>6 DEF UploadRows
<1>8. made \in AssetRows /\ made.status = "READY" /\ made.upload = u
  BY <1>5 DEF AssetRows
<1>9. after \in UploadRows /\ after.status = "COMPLETED" /\ after.asset = p
  <2>1. Storage!New(t) \in UploadRows
    BY <1>7, NewIs
  <2> HIDE DEF t
  <2>2. ASSUME NEW row \in UploadRows
        PROVE  LET done == [row EXCEPT !.status = "COMPLETED", !.asset = p]
               IN  done \in UploadRows /\ done.status = "COMPLETED" /\ done.asset = p
    BY DEF UploadRows, Storage!Statuses
  <2> QED
    BY <2>1, <2>2
<1>10. upload[u].status = "COMPLETING" /\ \A a \in Requests : asset[a].upload # u
  BY <1>1, <1>4, <1>5 DEF OwnedBy, StatusFits, Unfinished
<1>11. kept[u] # None
  BY <1>1, <1>4 DEF CommittedFits
<1> HIDE DEF u, t, made, after
<1>12. ASSUME NEW a \in Requests, replaced(a)
       PROVE  /\ asset[a].status = "READY"
              /\ \A other \in Storage!Targets \ {t} : shown[other] # a
  <2>1. t \in Storage!Targets /\ \A other \in Storage!Targets \ {t} : shown[other] # a
    BY <1>12 DEF Storage!Replaced, Storage!ShownElsewhere, Storage!Targets
  <2> QED
    BY <1>4, <1>12, <2>1 DEF ShownFits
<1> HIDE DEF replaced
<1>13. ASSUME NEW a \in Requests, a # p
       PROVE  /\ asset'[a] \in AssetRows /\ asset'[a].upload = asset[a].upload
              /\ \/ asset'[a] = asset[a] /\ ~replaced(a)
                 \/ replaced(a) /\ asset'[a].status = "DELETE_PENDING"
  <2>1. asset[a] \in AssetRows
    BY <1>6
  <2>2. /\ [asset[a] EXCEPT !.status = "DELETE_PENDING"] \in AssetRows
        /\ [asset[a] EXCEPT !.status = "DELETE_PENDING"].status = "DELETE_PENDING"
        /\ [asset[a] EXCEPT !.status = "DELETE_PENDING"].upload = asset[a].upload
    BY <2>1 DEF AssetRows
  <2> QED
    BY <1>1, <1>13, <2>1, <2>2
<1>14. asset'[p] = made
  BY <1>1
<1>15. asset' \in [Requests -> AssetRows]
  <2>1. \A a \in Requests : asset'[a] \in AssetRows
    BY <1>8, <1>13, <1>14
  <2> QED
    BY <1>1, <2>1
<1>16. /\ call' \in [Requests -> CallRows] /\ call'[p] = ch /\ \A q \in Requests \ {p} : call'[q] = call[q]
       /\ upload' \in [Uploads -> UploadRows] /\ upload'[u] = after
       /\ \A v \in Uploads \ {u} : upload'[v] = upload[v]
       /\ shown' \in [Storage!Targets -> Requests \union {None, "gone"}]
  BY <1>1, <1>3, <1>5, <1>6, <1>9
<1>17. StorageTyped'
  BY <1>1, <1>4, <1>15, <1>16 DEF StorageTyped
<1>18. AssetsFit(asset', call')
  <2>1. ASSUME NEW a \in Requests
        PROVE  /\ asset'[a].status = "none" <=> asset'[a].upload = None
               /\ asset'[a].status # "none" => call'[a].phase \in {"done", "failing"}
    <3>1. CASE a = p
      BY <1>3, <1>5, <1>8, <1>14, <1>16, <3>1
    <3>2. CASE a # p
      <4>1. /\ asset[a].status = "none" <=> asset[a].upload = None
            /\ asset[a].status # "none" => call[a].phase \in {"done", "failing"}
        BY <1>4 DEF AssetsFit
      <4> QED
        BY <1>12, <1>13, <1>16, <3>2, <4>1
    <3> QED
      BY <3>1, <3>2
  <2>2. ASSUME NEW a \in Requests, NEW b \in Requests,
               asset'[a].upload = asset'[b].upload, asset'[a].upload # None
        PROVE  a = b
    BY <1>4, <1>8, <1>10, <1>13, <1>14, <2>2 DEF AssetsFit
  <2> QED
    BY <2>1, <2>2 DEF AssetsFit
<1>19. StatusFits(upload', asset')
  <2>1. ASSUME NEW v \in Uploads, v # u
        PROVE  /\ upload'[v].status \in Unfinished => \A a \in Requests : asset'[a].upload # v
               /\ upload'[v].status = "COMPLETED" =>
                     upload'[v].asset \in Requests /\ asset'[upload'[v].asset].upload = v
    <3>1. upload'[v] = upload[v]
      BY <1>16, <2>1
    <3>2. /\ upload[v].status \in Unfinished => \A a \in Requests : asset[a].upload # v
          /\ upload[v].status = "COMPLETED" => upload[v].asset \in Requests /\ asset[upload[v].asset].upload = v
      BY <1>4 DEF StatusFits
    <3>3. v # None
      BY UploadsAssumption
    <3> QED
      BY <1>5, <1>8, <1>13, <1>14, <2>1, <3>1, <3>2, <3>3
  <2>2. upload'[u].status \notin Unfinished /\ upload'[u].asset = p /\ asset'[p].upload = u
    BY <1>8, <1>9, <1>14, <1>16 DEF Unfinished
  <2> QED
    BY <2>1, <2>2 DEF StatusFits
<1>20. ShownFits(shown', asset', kept')
  <2>1. ASSUME NEW s \in Storage!Targets, shown'[s] \in Requests
        PROVE  asset'[shown'[s]].status = "READY" /\ kept'[asset'[shown'[s]].upload] # None
    <3>1. CASE s = t
      BY <1>1, <1>6, <1>8, <1>11, <1>14, <2>1, <3>1
    <3>2. CASE s # t
      <4>1. shown'[s] = shown[s]
        BY <1>1, <1>6, <3>2
      <4>2. asset[shown[s]].status = "READY" /\ kept[asset[shown[s]].upload] # None
        BY <1>4, <2>1, <4>1 DEF ShownFits
      <4>3. shown[s] # p /\ ~replaced(shown[s])
        BY <1>5, <1>12, <2>1, <3>2, <4>1, <4>2
      <4> QED
        BY <1>1, <1>13, <2>1, <4>1, <4>2, <4>3
    <3> QED
      BY <3>1, <3>2
  <2> QED
    BY <2>1 DEF ShownFits
<1>21. CleanerFits(cleaner', asset')
  <2>1. ASSUME NEW a \in cleaner.listed \union cleaner.removed
        PROVE  asset'[a].status \in {"DELETE_PENDING", "DELETED"}
    <3>1. a \in Requests /\ asset[a].status \in {"DELETE_PENDING", "DELETED"}
      BY <1>4 DEF CleanerFits, StorageTyped
    <3>2. a # p
      BY <1>5, <3>1
    <3> QED
      BY <1>13, <3>1, <3>2
  <2> QED
    BY <1>1, <2>1 DEF CleanerFits
<1>22. CommittedFits(call', upload', kept')
  <2>1. ASSUME NEW q \in Requests, q # p
        PROVE  /\ call'[q].phase \notin OfNoUpload => call'[q].upload \in Uploads
               /\ call'[q].phase = "committed" /\ OwnedBy(q, upload'[call'[q].upload])
                     => kept'[call'[q].upload] # None
    <3>1. call'[q] = call[q]
      BY <1>16, <2>1
    <3>2. /\ call[q].phase \notin OfNoUpload => call[q].upload \in Uploads
          /\ call[q].phase = "committed" /\ OwnedBy(q, upload[call[q].upload]) => kept[call[q].upload] # None
      BY <1>4 DEF CommittedFits
    <3>3. call[q].upload = u => ~OwnedBy(q, upload'[call[q].upload])
      BY <1>9, <1>16 DEF OwnedBy
    <3> QED
      BY <1>1, <1>16, <3>1, <3>2, <3>3 DEF OfNoUpload
  <2>2. call'[p].phase # "committed" /\ call'[p].upload \in Uploads
    BY <1>2, <1>3, <1>5, <1>16
  <2> QED
    BY <2>1, <2>2 DEF CommittedFits
<1>23. QuotaFits(call', upload', quota')
  <2>1. \A v \in Uploads : StaysActive(upload[v], upload'[v])
    BY <1>9, <1>16, RowStays DEF StaysActive
  <2>2. call'[p].phase # "measured"
    BY <1>2, <1>3, <1>16
  <2> QED
    BY <1>1, <1>16, <2>1, <2>2, QuotaStays
<1> QED
  BY <1>17, <1>18, <1>19, <1>20, <1>21, <1>22, <1>23 DEF UploadsInv

LEMMA DeleteTargetStep ==
    ASSUME UploadsInv, NEW t \in Storage!Targets, Storage!DeleteTarget(t)
    PROVE  UploadsInv'
<1> DEFINE gone == [Storage!NoUpload EXCEPT !.status = "gone"]
<1>1. /\ shown' = [shown EXCEPT ![t] = "gone"]
      /\ upload' = [u \in Uploads |-> IF upload[u].target = t /\ t \in Songs THEN gone ELSE upload[u]]
      /\ UNCHANGED <<temp, kept, content, asset, quota, cleaner, call>>
  BY DEF Storage!DeleteTarget, Storage!Target, Storage!files
<1>2. gone \in UploadRows /\ gone.status = "gone"
  BY GoneIs
<1> HIDE DEF gone
<1>3. ASSUME NEW u \in Uploads
      PROVE  /\ upload'[u] \in UploadRows
             /\ RowGoes(None, upload[u], upload'[u]) /\ StaysActive(upload[u], upload'[u])
  <2>1. upload[u] \in UploadRows
    BY RowsAre
  <2>2. CASE upload'[u] = gone
    BY <1>2, <2>2, GoneRow
  <2>3. CASE upload'[u] = upload[u]
    BY <2>1, <2>3, RowStays
  <2> QED
    BY <1>1, <2>2, <2>3
<1>4. /\ StorageTyped /\ AssetsFit(asset, call) /\ StatusFits(upload, asset)
      /\ ShownFits(shown, asset, kept) /\ CleanerFits(cleaner, asset)
      /\ CommittedFits(call, upload, kept)
  BY DEF UploadsInv
<1>5. StorageTyped'
  <2>1. upload' \in [Uploads -> UploadRows]
    BY <1>1, <1>3
  <2>2. shown' \in [Storage!Targets -> Requests \union {None, "gone"}]
    BY <1>1, <1>4 DEF StorageTyped
  <2> QED
    BY <1>1, <1>4, <2>1, <2>2 DEF StorageTyped
<1>6. StatusFits(upload', asset')
  BY <1>1, <1>3, <1>4 DEF StatusFits, RowGoes
<1>7. ShownFits(shown', asset', kept')
  <2>1. ASSUME NEW s \in Storage!Targets, shown'[s] \in Requests PROVE shown'[s] = shown[s]
    BY <1>1, <1>4, <2>1, UploadsAssumption DEF StorageTyped
  <2> QED
    BY <1>1, <1>4, <2>1 DEF ShownFits
<1>8. CommittedFits(call', upload', kept')
  <2>1. ASSUME NEW q \in Requests
        PROVE  /\ call[q].phase \notin OfNoUpload => call[q].upload \in Uploads
               /\ call[q].phase = "committed" /\ OwnedBy(q, upload'[call[q].upload])
                     => kept[call[q].upload] # None
    <3>1. /\ call[q].phase \notin OfNoUpload => call[q].upload \in Uploads
          /\ call[q].phase = "committed" /\ OwnedBy(q, upload[call[q].upload]) => kept[call[q].upload] # None
      BY <1>4 DEF CommittedFits
    <3>2. q \in Requests \ {None}
      BY NobodyIs
    <3> QED
      BY <1>3, <3>1, <3>2 DEF OfNoUpload, RowGoes
  <2> QED
    BY <1>1, <2>1 DEF CommittedFits
<1>9. QuotaFits(call', upload', quota')
  BY <1>1, <1>3, NobodyIs, QuotaStays
<1> QED
  BY <1>1, <1>4, <1>5, <1>6, <1>7, <1>8, <1>9 DEF UploadsInv

LEMMA StorageStep ==
    ASSUME UploadsInv, Storage!Next
    PROVE  UploadsInv'
<1>1. ASSUME NEW p \in Requests, Storage!Serve(p) PROVE UploadsInv'
  BY <1>1, CreateAvatarStep, ClaimUploadStep, AbandonFileStep, FindStep, MeasureStep, OpenStep, WriteStep,
     WaitStep, InspectStep, CommitUploadStep, FinalizeUploadStep, FailStep, AbandonStep, StorageAnswerStep
     DEF Storage!Serve
<1>2. ASSUME Storage!Background PROVE UploadsInv'
  BY <1>2, LapseStep, DeleteUploadStep, CreateUploadStep, ExpireStepOfUploads, ListStep, StorageCrashStep,
     DeleteFileStep, MarkDeletedStep, DeleteTargetStep DEF Storage!Background
<1> QED
  BY <1>1, <1>2 DEF Storage!Next

LEMMA StorageInit ==
    ASSUME Storage!Init
    PROVE  UploadsInv
<1> DEFINE noAsset == [status |-> "none", upload |-> None]
<1>1. noAsset \in AssetRows /\ noAsset.status = "none" /\ noAsset.upload = None
  BY DEF AssetRows
<1>2. Storage!NoUpload \in UploadRows /\ Storage!NoUpload.status = "none"
  BY DEF Storage!NoUpload, UploadRows, Storage!Statuses
<1>3. /\ upload = [u \in Uploads |-> Storage!NoUpload] /\ asset = [a \in Requests |-> noAsset]
      /\ temp = [u \in Uploads |-> None] /\ kept = [u \in Uploads |-> None]
      /\ content = [f \in Requests |-> "cut"] /\ shown = [t \in Storage!Targets |-> None]
      /\ quota = [o \in Owners |-> None] /\ call = [p \in Requests |-> Storage!NoCall]
      /\ cleaner = Storage!Idle
  BY DEF Storage!Init
<1> HIDE DEF noAsset
<1>4. cleaner \in [listed : SUBSET Requests, removed : SUBSET Requests]
      /\ cleaner.listed = {} /\ cleaner.removed = {}
  BY <1>3 DEF Storage!Idle
<1>5. StorageTyped
  BY <1>1, <1>2, <1>3, <1>4, NoCallIs DEF StorageTyped, FileNames, Storage!Bodies
<1>6. AssetsFit(asset, call)
  BY <1>1, <1>3 DEF AssetsFit
<1>7. StatusFits(upload, asset)
  BY <1>1, <1>2, <1>3, UploadsAssumption DEF StatusFits
<1>8. ShownFits(shown, asset, kept)
  BY <1>3, NobodyIs DEF ShownFits
<1>9. CleanerFits(cleaner, asset)
  BY <1>4 DEF CleanerFits
<1>10. CommittedFits(call, upload, kept)
  BY <1>3, NoCallIs DEF CommittedFits, OfNoUpload
<1>11. QuotaFits(call, upload, quota)
  <2>1. ASSUME NEW o \in Owners PROVE Cardinality(ActiveIn(upload, o)) <= Quota
    <3>1. ActiveIn(upload, o) = {}
      BY <1>2, <1>3 DEF ActiveIn
    <3> QED
      BY <3>1, FS_EmptySet, UploadsAssumption
  <2> QED
    BY <1>3, <2>1, NoCallIs DEF QuotaFits
<1> QED
  BY <1>5, <1>6, <1>7, <1>8, <1>9, <1>10, <1>11 DEF UploadsInv

LEMMA UploadsInvShows ==
    ASSUME UploadsInv
    PROVE  Storage!CompletedMadeOneAsset /\ Storage!ShownFileKept /\ Storage!QuotaKept
<1>1. /\ AssetsFit(asset, call) /\ StatusFits(upload, asset) /\ ShownFits(shown, asset, kept)
      /\ QuotaFits(call, upload, quota)
  BY DEF UploadsInv
<1>2. ASSUME NEW u \in Uploads
      PROVE  /\ upload[u].status = "COMPLETED" => Storage!AssetsOf(u) = {upload[u].asset}
             /\ upload[u].status \in {"CREATED", "COMPLETING", "FAILED", "EXPIRED"} => Storage!AssetsOf(u) = {}
  <2>1. u # None
    BY UploadsAssumption
  <2>2. /\ upload[u].status \in Unfinished => \A a \in Requests : asset[a].upload # u
        /\ upload[u].status = "COMPLETED" => upload[u].asset \in Requests /\ asset[upload[u].asset].upload = u
    BY <1>1 DEF StatusFits
  <2>3. \A a, b \in Requests : asset[a].upload = u /\ asset[b].upload = u => a = b
    BY <1>1, <2>1 DEF AssetsFit
  <2> QED
    BY <2>2, <2>3 DEF Storage!AssetsOf, Unfinished
<1>3. Storage!ShownFileKept
  BY <1>1 DEF ShownFits, Storage!ShownFileKept, Storage!Place
<1>4. Storage!QuotaKept
  BY <1>1, ActiveOfIs DEF QuotaFits, Storage!QuotaKept
<1> QED
  BY <1>2, <1>3, <1>4 DEF Storage!CompletedMadeOneAsset

-----------------------------------------------------------------------------
(* A playlist and the history: what a device has under way fits the rows it  *)
(* will write, whatever tracks are deleted meanwhile.                        *)

\* list has the members of S, each once, from the lowest key to the highest.
Ordered(list, S, key) ==
    /\ list \in Seq(S)
    /\ \A e \in S : key[e] \in Int /\ \E i \in 1..Len(list) : list[i] = e
    /\ \A i, j \in 1..Len(list) : i < j => key[list[i]] < key[list[j]]
\* list has the members of S, each once, in the order of their keys, and others.
Follows(list, S, key) ==
    /\ \A i, j \in 1..Len(list) : i < j => list[i] # list[j]
    /\ \A e \in S : key[e] \in Int /\ \E i \in 1..Len(list) : list[i] = e
    /\ \A i, j \in 1..Len(list) : i < j /\ list[i] \in S /\ list[j] \in S => key[list[i]] < key[list[j]]

EntryRows == [track : Tracks \union {None}, at : Nat \union {None}]
DeviceRecords ==
    [phase : Library!Phases, seen : Seq(Entries), version : Nat, op : Library!Ops,
     entry : Entries \union {None}, track : Tracks \union {None}, at : Nat,
     order : Seq(Entries), wanted : Seq(Entries)]
InList(rows) == {e \in Entries : rows[e].at # None}
Places(rows) == [e \in Entries |-> rows[e].at]
\* The place of an entry between the one before `p` and the one at it.
PlacesWith(rows, e, p) ==
    [k \in InList(rows) \union {e} |-> IF k = e THEN 2 * p - 1 ELSE 2 * rows[k].at]
PlacesIn(list) == [e \in Library!ToSet(list) |-> Library!PositionIn(list, e)]

\* The edit that a device has under way can follow deletions of tracks only.
EditFits(x, rows, n) ==
    \/ /\ x.op = "add" /\ x.entry \in Entries \ InList(rows) /\ x.track \in Tracks /\ x.at <= n
       /\ Ordered(x.wanted, InList(rows) \union {x.entry}, PlacesWith(rows, x.entry, x.at))
    \/ /\ x.op = "remove" /\ x.entry \in Entries
       /\ \A e \in InList(rows) : e = x.entry <=> rows[e].at = x.at
       /\ Ordered(x.wanted, InList(rows) \ {x.entry}, Places(rows))
    \/ /\ x.op = "reorder" /\ Len(x.order) <= n /\ Follows(x.order, InList(rows), PlacesIn(x.order))
       /\ Ordered(x.wanted, InList(rows), PlacesIn(x.order))
DeviceFits(x, rows, v, n) ==
    /\ x.phase = "looked" =>
          /\ x.version > 0 /\ (v = 0 \/ x.version <= v)
          /\ x.version = v => Follows(x.seen, InList(rows), Places(rows))
    /\ x.phase = "locked" => v > 0 /\ EditFits(x, rows, n)

RowsFit(rows, list, n) ==
    /\ rows \in [Entries -> EntryRows] /\ \A e \in InList(rows) : rows[e].at < n
    /\ Ordered(list, InList(rows), Places(rows))
LibInv ==
    /\ track \subseteq Tracks /\ favorite \subseteq Tracks
    /\ edits \in 0..MaxEdits /\ version \in 0..edits + 1 /\ collided = FALSE
    /\ RowsFit(entry, intended, edits)
    /\ device \in [Devices -> DeviceRecords]
    /\ \A d \in Devices : DeviceFits(device[d], entry, version, edits)
    /\ \A d, other \in Devices : device[d].phase = "locked" /\ device[other].phase = "locked" => d = other
HistoryInv ==
    /\ heard \subseteq Events /\ history.at \in Nat /\ history.count \in Nat
    /\ \A event \in heard : event.at <= history.at
    /\ heard # {} \/ history.at # 0 => \E latest \in heard : latest.at = history.at /\ latest.kind = history.kind

LEMMA LibraryCount == \A S : Library!Cardinality(S) = Cardinality(S)
BY Zenon DEF Library!Cardinality, Cardinality

LEMMA LeastNumber ==
    ASSUME NEW T, T \subseteq Nat, T # {}
    PROVE  \E m \in T : \A n \in T : m <= n
<1>1. PICK m \in T : \A n \in T : <<n, m>> \notin OpToRel(<, Nat)
  BY NatLessThanWellFounded, WFMin
<1>2. ASSUME NEW n \in T, n < m PROVE FALSE
  <2>1. <<n, m>> \in Nat \X Nat /\ <<n, m>>[1] < <<n, m>>[2]
    BY <1>2
  <2>2. <<n, m>> \in OpToRel(<, Nat)
    BY <2>1, Zenon DEF OpToRel
  <2> QED
    BY <1>1, <2>2
<1> QED
  BY <1>2

LEMMA OrderedOnce ==
    ASSUME NEW S, NEW list, NEW key, Ordered(list, S, key)
    PROVE  /\ Len(list) \in Nat /\ DOMAIN list = 1..Len(list) /\ list \in [1..Len(list) -> S]
           /\ \A i, j \in 1..Len(list) : list[i] = list[j] => i = j
           /\ \A i, j \in 1..Len(list) : key[list[i]] < key[list[j]] => i < j
<1>1. Len(list) \in Nat /\ DOMAIN list = 1..Len(list) /\ list \in [1..Len(list) -> S]
  BY LenProperties DEF Ordered
<1>2. \A i \in 1..Len(list) : key[list[i]] \in Int
  BY <1>1 DEF Ordered
<1>3. \A i, j \in 1..Len(list) : list[i] = list[j] => i = j
  BY <1>1, <1>2 DEF Ordered
<1>4. \A i, j \in 1..Len(list) : key[list[i]] < key[list[j]] => i < j
  BY <1>1, <1>2, <1>3 DEF Ordered
<1> QED
  BY <1>1, <1>3, <1>4

(* There is only one order.                                                  *)
LEMMA OneOrder ==
    ASSUME NEW S, NEW f, NEW g, NEW key, Ordered(f, S, key), Ordered(g, S, key)
    PROVE  f = g
<1> DEFINE Differ(p, q) == {i \in 1..Len(p) : i \notin 1..Len(q) \/ p[i] # q[i]}
<1>1. ASSUME NEW p, NEW q, Ordered(p, S, key), Ordered(q, S, key), Differ(p, q) # {}
      PROVE  FALSE
  <2>1. /\ Len(p) \in Nat /\ p \in [1..Len(p) -> S] /\ \A i, j \in 1..Len(p) : p[i] = p[j] => i = j
        /\ Len(q) \in Nat /\ q \in [1..Len(q) -> S] /\ \A i, j \in 1..Len(q) : q[i] = q[j] => i = j
        /\ \A i, j \in 1..Len(p) : key[p[i]] < key[p[j]] => i < j
    BY <1>1, OrderedOnce
  <2>2. PICK i \in Differ(p, q) : \A n \in Differ(p, q) : i <= n
    <3>1. Differ(p, q) \subseteq Nat
      BY <2>1
    <3> QED
      BY <1>1, <3>1, LeastNumber
  <2>3. i \in 1..Len(p) /\ \A n \in 1..Len(p) : n < i => n \in 1..Len(q) /\ p[n] = q[n]
    BY <2>1, <2>2
  <2>4. PICK j \in 1..Len(q) : q[j] = p[i]
    <3>1. p[i] \in S
      BY <2>1, <2>3
    <3>2. \A e \in S : \E n \in 1..Len(q) : q[n] = e
      BY <1>1, Zenon DEF Ordered
    <3> QED
      BY <3>1, <3>2
  <2>5. i < j
    <3>1. j # i
      BY <2>2, <2>4
    <3>2. ~(j < i)
      BY <2>1, <2>3, <2>4
    <3> QED
      BY <2>1, <2>3, <3>1, <3>2
  <2>6. i \in 1..Len(q)
    BY <2>1, <2>3, <2>5
  <2>7. key[q[i]] < key[p[i]]
    BY <1>1, <2>4, <2>5, <2>6 DEF Ordered
  <2>8. PICK k \in 1..Len(p) : p[k] = q[i]
    BY <1>1, <2>1, <2>6 DEF Ordered
  <2>9. k < i
    BY <2>1, <2>3, <2>7, <2>8
  <2>10. q[k] = q[i] /\ k \in 1..Len(q)
    BY <2>3, <2>8, <2>9
  <2> QED
    BY <2>1, <2>6, <2>9, <2>10
<1>2. /\ Len(f) \in Nat /\ Len(g) \in Nat /\ f \in [1..Len(f) -> S] /\ g \in [1..Len(g) -> S]
      /\ f \in Seq(S) /\ g \in Seq(S)
  BY OrderedOnce DEF Ordered
<1>3. Differ(f, g) = {} /\ Differ(g, f) = {}
  BY <1>1
<1>4. Len(f) = Len(g)
  <2>1. ASSUME NEW p, NEW q, Differ(p, q) = {}, Len(p) \in Nat, Len(q) \in Nat
        PROVE  Len(p) <= Len(q)
    <3>1. Len(p) > 0 => Len(p) \in 1..Len(q)
      BY <2>1
    <3> QED
      BY <2>1, <3>1
  <2>2. Len(f) <= Len(g) /\ Len(g) <= Len(f)
    BY <1>2, <1>3, <2>1
  <2>3. Len(f) \in Nat /\ Len(g) \in Nat
    BY <1>2
  <2> QED
    BY <2>2, <2>3
<1> QED
  BY <1>2, <1>3, <1>4, SeqEqual

LEMMA OtherKeys ==
    ASSUME NEW S, NEW list, NEW key, NEW other, Ordered(list, S, key),
           \A e \in S : other[e] \in Int,
           \A e, f \in S : key[e] < key[f] => other[e] < other[f]
    PROVE  Ordered(list, S, other)
<1>1. list \in [1..Len(list) -> S]
  BY OrderedOnce
<1> QED
  BY <1>1 DEF Ordered

LEMMA NoneOrdered == \A key : Ordered(<<>>, {}, key)
BY DEF Ordered

LEMMA PutFirst ==
    ASSUME NEW S, NEW list, NEW key, NEW e, Ordered(list, S, key), key[e] \in Int,
           \A f \in S : key[e] < key[f]
    PROVE  Ordered(<<e>> \o list, S \union {e}, key)
<1> DEFINE long == <<e>> \o list
           T == S \union {e}
<1>1. Len(list) \in Nat /\ list \in [1..Len(list) -> S] /\ list \in Seq(S)
  BY OrderedOnce DEF Ordered
<1>2. list \in Seq(T) /\ <<e>> \in Seq(T) /\ Len(<<e>>) = 1 /\ <<e>>[1] = e
  BY <1>1
<1>3. /\ long \in Seq(T) /\ Len(long) = Len(list) + 1 /\ long[1] = e
      /\ \A i \in 1..Len(list) : long[i + 1] = list[i]
  <2>1. /\ long \in Seq(T) /\ Len(long) = 1 + Len(list)
        /\ \A i \in 1..1 + Len(list) : long[i] = IF i <= 1 THEN e ELSE list[i - 1]
    BY <1>2, ConcatProperties
  <2> QED
    BY <1>1, <2>1
<1> HIDE DEF long
<1>4. \A k \in T : key[k] \in Int /\ \E i \in 1..Len(long) : long[i] = k
  <2>1. ASSUME NEW k \in S PROVE \E i \in 1..Len(long) : long[i] = k
    <3>1. PICK i \in 1..Len(list) : list[i] = k
      BY DEF Ordered
    <3>2. i + 1 \in 1..Len(long) /\ long[i + 1] = k
      BY <1>1, <1>3, <3>1
    <3> QED
      BY <3>2
  <2>2. \E i \in 1..Len(long) : long[i] = e
    BY <1>1, <1>3
  <2> QED
    BY <2>1, <2>2 DEF Ordered
<1>5. ASSUME NEW i \in 1..Len(long), NEW j \in 1..Len(long), i < j PROVE key[long[i]] < key[long[j]]
  <2>1. j - 1 \in 1..Len(list) /\ long[j] = list[j - 1] /\ list[j - 1] \in S
    BY <1>1, <1>3, <1>5
  <2>2. CASE i = 1
    BY <1>3, <2>1, <2>2
  <2>3. CASE i # 1
    <3>1. i - 1 \in 1..Len(list) /\ long[i] = list[i - 1] /\ i - 1 < j - 1
      BY <1>1, <1>3, <1>5, <2>3
    <3> QED
      BY <2>1, <3>1 DEF Ordered
  <2> QED
    BY <2>2, <2>3
<1> QED
  BY <1>3, <1>4, <1>5 DEF Ordered, long

LEMMA SomeOrder ==
    ASSUME NEW E, IsFiniteSet(E), NEW key \in [E -> Nat],
           \A e, f \in E : e # f => key[e] # key[f]
    PROVE  \E list : Ordered(list, E, key)
<1> DEFINE Orderless == {S \in SUBSET E : ~\E list : Ordered(list, S, key)}
           Sizes == {Cardinality(S) : S \in Orderless}
<1>1. SUFFICES ASSUME Orderless # {} PROVE FALSE
  BY Zenon
<1>2. \A S \in SUBSET E : IsFiniteSet(S) /\ Cardinality(S) \in Nat
  BY FS_Subset, FS_CardinalityType
<1>3. PICK n \in Sizes : \A m \in Sizes : n <= m
  <2>1. Sizes \subseteq Nat /\ Sizes # {}
    BY <1>1, <1>2
  <2> HIDE DEF Sizes
  <2> QED
    BY <2>1, LeastNumber
<1>4. PICK S \in Orderless : n = Cardinality(S)
  BY <1>3
<1>5. S # {}
  BY NoneOrdered
<1>6. PICK e \in S : \A f \in S : key[e] <= key[f]
  <2> DEFINE T == {key[f] : f \in S}
  <2>1. T \subseteq Nat /\ T # {}
    BY <1>5
  <2>2. PICK least \in T : \A k \in T : least <= k
    <3> HIDE DEF T
    <3> QED
      BY <2>1, LeastNumber
  <2> QED
    BY <2>2
<1>7. Cardinality(S \ {e}) < n /\ Cardinality(S \ {e}) \in Nat
  BY <1>2, <1>4, <1>6, FS_RemoveElement
<1>8. S \ {e} \notin Orderless
  BY <1>2, <1>3, <1>4, <1>7
<1>9. PICK list : Ordered(list, S \ {e}, key)
  BY <1>8
<1>10. key[e] \in Int /\ \A f \in S \ {e} : key[e] < key[f]
  <2>1. e \in E /\ S \subseteq E /\ \A f \in E : key[f] \in Nat
    BY <1>6
  <2>2. ASSUME NEW f \in S \ {e} PROVE key[e] < key[f]
    <3>1. key[e] <= key[f] /\ key[e] # key[f]
      BY <1>6, <2>1
    <3> QED
      BY <2>1, <3>1
  <2> QED
    BY <2>1, <2>2
<1>11. Ordered(<<e>> \o list, (S \ {e}) \union {e}, key)
  BY <1>9, <1>10, PutFirst
<1>12. (S \ {e}) \union {e} = S
  BY <1>6
<1> QED
  BY <1>4, <1>11, <1>12

(* A list with the members of a set in order is what InOrder gives.          *)
LEMMA OrderIsInOrder ==
    ASSUME NEW S, IsFiniteSet(S), NEW list, NEW key, Ordered(list, S, key)
    PROVE  Library!InOrder(S, key) = list
<1> DEFINE D == 1..Cardinality(S)
           Sorted(l) == \A i, j \in DOMAIN l : i < j => key[l[i]] <= key[l[j]]
           picked == CHOOSE l \in Library!SetToSeqs(S) : Sorted(l)
<1>1. /\ Len(list) \in Nat /\ DOMAIN list = 1..Len(list) /\ list \in [1..Len(list) -> S]
      /\ \A i, j \in 1..Len(list) : list[i] = list[j] => i = j
  BY OrderedOnce
<1>2. Len(list) = Cardinality(S)
  <2>1. list \in Bijection(1..Len(list), S)
    BY <1>1 DEF Bijection, Injection, IsInjective, Surjection, Ordered
  <2> QED
    BY <1>1, <2>1, FS_CountingElements DEF ExistsBijection
<1>3. Library!SetToSeqs(S) = {f \in [D -> S] : \A i, j \in D : i # j => f[i] # f[j]}
  BY LibraryCount DEF Library!SetToSeqs
<1>4. list \in Library!SetToSeqs(S) /\ Sorted(list)
  BY <1>1, <1>2, <1>3 DEF Ordered
<1>5. picked \in Library!SetToSeqs(S) /\ Sorted(picked)
  BY <1>4
<1>6. Library!InOrder(S, key) = picked
  BY Zenon DEF Library!InOrder
<1> HIDE DEF picked
<1>7. Ordered(picked, S, key)
  <2>1. /\ picked \in [D -> S] /\ \A i, j \in D : i # j => picked[i] # picked[j]
        /\ DOMAIN picked = D /\ Cardinality(S) \in Nat
    BY <1>2, <1>1, <1>3, <1>5
  <2>2. picked \in Seq(S) /\ Len(picked) = Cardinality(S)
    BY <2>1
  <2>3. IsFiniteSet(D) /\ Cardinality(D) = Cardinality(S)
    BY <2>1, FS_Interval
  <2>4. picked \in Injection(D, S)
    BY <2>1 DEF Injection, IsInjective
  <2>5. picked \in Surjection(D, S)
    BY <2>3, <2>4, FS_Injection
  <2>6. \A e \in S : \E i \in 1..Len(picked) : picked[i] = e
    BY <2>2, <2>5 DEF Surjection
  <2>7. ASSUME NEW i \in D, NEW j \in D, i < j PROVE key[picked[i]] < key[picked[j]]
    <3>1. key[picked[i]] <= key[picked[j]] /\ picked[i] # picked[j] /\ picked[i] \in S /\ picked[j] \in S
      BY <1>5, <2>1, <2>7
    <3>2. PICK m \in 1..Len(list) : list[m] = picked[i]
      BY <3>1 DEF Ordered
    <3>3. PICK k \in 1..Len(list) : list[k] = picked[j]
      BY <3>1 DEF Ordered
    <3>4. key[list[m]] < key[list[k]] \/ key[list[k]] < key[list[m]]
      BY <1>1, <3>1, <3>2, <3>3 DEF Ordered
    <3>5. key[picked[i]] \in Int /\ key[picked[j]] \in Int
      BY <3>1 DEF Ordered
    <3> QED
      BY <3>1, <3>2, <3>3, <3>4, <3>5
  <2> QED
    BY <2>2, <2>6, <2>7 DEF Ordered
<1> QED
  BY <1>6, <1>7, OneOrder

LEMMA PlacesAre ==
    ASSUME NEW E, NEW list \in Seq(E)
    PROVE  /\ DOMAIN list = 1..Len(list) /\ Len(list) \in Nat
           /\ Library!ToSet(list) = {list[i] : i \in 1..Len(list)} /\ Library!ToSet(list) \subseteq E
           /\ PlacesIn(list) \in [Library!ToSet(list) -> Nat]
           /\ \A e \in Library!ToSet(list) : /\ Library!PositionIn(list, e) \in 1..Len(list)
                                             /\ list[Library!PositionIn(list, e)] = e
                                             /\ PlacesIn(list)[e] = Library!PositionIn(list, e)
<1>1. DOMAIN list = 1..Len(list) /\ Len(list) \in Nat /\ list \in [1..Len(list) -> E]
  BY LenProperties
<1>2. Library!ToSet(list) = {list[i] : i \in 1..Len(list)}
  BY <1>1 DEF Library!ToSet
<1>3. Library!ToSet(list) \subseteq E
  BY <1>1, <1>2
<1>4. \A e \in Library!ToSet(list) : Library!PositionIn(list, e) \in 1..Len(list)
                                     /\ list[Library!PositionIn(list, e)] = e
  BY <1>1, <1>2 DEF Library!PositionIn
<1>5. \A e \in Library!ToSet(list) : PlacesIn(list)[e] = Library!PositionIn(list, e)
  BY DEF PlacesIn
<1>6. PlacesIn(list) \in [Library!ToSet(list) -> Nat]
  BY <1>4 DEF PlacesIn
<1> QED
  BY <1>1, <1>2, <1>3, <1>4, <1>5, <1>6

LEMMA KeptInPlace ==
    ASSUME NEW E, IsFiniteSet(E), NEW list \in Seq(E), NEW T
    PROVE  /\ Ordered(Library!Keep(list, T), Library!ToSet(list) \intersect T, PlacesIn(list))
           /\ Library!Keep(list, T) \in Seq(E)
<1> DEFINE S == Library!ToSet(list) \intersect T
           place == [e \in S |-> PlacesIn(list)[e]]
<1>1. /\ Library!ToSet(list) \subseteq E /\ PlacesIn(list) \in [Library!ToSet(list) -> Nat]
      /\ \A e, f \in Library!ToSet(list) : e # f => PlacesIn(list)[e] # PlacesIn(list)[f]
  BY PlacesAre
<1>2. IsFiniteSet(S)
  BY <1>1, FS_Subset
<1>3. place \in [S -> Nat] /\ \A e, f \in S : e # f => place[e] # place[f]
  BY <1>1
<1>4. \A e \in S : place[e] = PlacesIn(list)[e] /\ PlacesIn(list)[e] \in Int
  BY <1>1
<1>5. Library!Keep(list, T) = Library!InOrder(S, PlacesIn(list))
  BY Zenon DEF Library!Keep, PlacesIn
<1> HIDE DEF place, S
<1>6. PICK inplace : Ordered(inplace, S, place)
  BY <1>2, <1>3, SomeOrder
<1>7. Ordered(inplace, S, PlacesIn(list))
  BY <1>4, <1>6, OtherKeys
<1>8. Library!Keep(list, T) = inplace
  BY <1>2, <1>5, <1>7, OrderIsInOrder
<1>9. inplace \in Seq(S) /\ S \subseteq E
  BY <1>1, <1>7 DEF Ordered, S
<1> QED
  BY <1>7, <1>8, <1>9 DEF S

LEMMA KeptInOrder ==
    ASSUME NEW E, IsFiniteSet(E), NEW list \in Seq(E), NEW T, NEW S, NEW key,
           S = Library!ToSet(list) \intersect T, Follows(list, S, key)
    PROVE  Ordered(Library!Keep(list, T), S, key)
<1>1. Ordered(Library!Keep(list, T), S, PlacesIn(list))
  BY KeptInPlace
<1>2. \A e \in S : key[e] \in Int
  BY DEF Follows
<1>3. \A e, f \in S : PlacesIn(list)[e] < PlacesIn(list)[f] => key[e] < key[f]
  <2> SUFFICES ASSUME NEW e \in S, NEW f \in S, PlacesIn(list)[e] < PlacesIn(list)[f]
               PROVE  key[e] < key[f]
    OBVIOUS
  <2>1. /\ PlacesIn(list)[e] \in 1..Len(list) /\ list[PlacesIn(list)[e]] = e
        /\ PlacesIn(list)[f] \in 1..Len(list) /\ list[PlacesIn(list)[f]] = f
    BY PlacesAre
  <2> QED
    BY <2>1 DEF Follows
<1> QED
  BY <1>1, <1>2, <1>3, OtherKeys

LEMMA OrderedFollows ==
    ASSUME NEW S, NEW T, NEW list, NEW key, Ordered(list, S, key), T \subseteq S
    PROVE  Follows(list, T, key) /\ Library!ToSet(list) = S
<1>1. /\ Len(list) \in Nat /\ DOMAIN list = 1..Len(list) /\ list \in [1..Len(list) -> S]
      /\ \A i, j \in 1..Len(list) : list[i] = list[j] => i = j
  BY OrderedOnce
<1>2. Follows(list, T, key)
  BY <1>1 DEF Follows, Ordered
<1>3. \A e \in S : \E i \in 1..Len(list) : list[i] = e
  BY Zenon DEF Ordered
<1>4. Library!ToSet(list) = S
  BY <1>1, <1>3 DEF Library!ToSet
<1> QED
  BY <1>2, <1>4

LEMMA FollowsFewer ==
    ASSUME NEW S, NEW T, NEW list, NEW key, Follows(list, S, key), T \subseteq S
    PROVE  Follows(list, T, key)
BY DEF Follows

LEMMA FollowsOtherKeys ==
    ASSUME NEW S, NEW list, NEW key, NEW other, Follows(list, S, key), \A e \in S : other[e] = key[e]
    PROVE  Follows(list, S, other)
BY DEF Follows

LEMMA KeptOf ==
    ASSUME NEW E, IsFiniteSet(E), NEW S, S \subseteq E, NEW list, NEW key, Ordered(list, S, key), NEW T
    PROVE  Ordered(Library!Keep(list, T), S \intersect T, key)
<1>1. Follows(list, S \intersect T, key) /\ Library!ToSet(list) = S
  BY OrderedFollows
<1>2. list \in Seq(E)
  BY DEF Ordered
<1> QED
  BY <1>1, <1>2, KeptInOrder

(* A new member goes where its key puts it.                                  *)
LEMMA PutBetween ==
    ASSUME NEW S, NEW list, NEW key, NEW e, NEW n \in 0..Len(list), Ordered(list, S, key), key[e] \in Int,
           \A i \in 1..Len(list) : IF i <= n THEN key[list[i]] < key[e] ELSE key[e] < key[list[i]],
           NEW long \in Seq(S \union {e}), Len(long) = Len(list) + 1,
           \A i \in 1..Len(list) + 1 : long[i] = IF i <= n THEN list[i] ELSE IF i = n + 1 THEN e ELSE list[i - 1]
    PROVE  Ordered(long, S \union {e}, key)
<1>1. Len(list) \in Nat /\ list \in [1..Len(list) -> S]
  BY OrderedOnce
<1>2. n \in Nat /\ n <= Len(list)
  BY <1>1
<1>3. \A k \in S \union {e} : key[k] \in Int /\ \E i \in 1..Len(long) : long[i] = k
  <2>1. ASSUME NEW k \in S PROVE \E i \in 1..Len(long) : long[i] = k
    <3>1. PICK i \in 1..Len(list) : list[i] = k
      BY DEF Ordered
    <3>2. CASE i <= n
      <4>1. i \in 1..Len(long) /\ long[i] = k
        BY <1>1, <1>2, <3>1, <3>2
      <4> QED
        BY <4>1
    <3>3. CASE ~(i <= n)
      <4>1. i + 1 \in 1..Len(long) /\ long[i + 1] = list[(i + 1) - 1]
        BY <1>1, <1>2, <3>3
      <4> QED
        BY <1>1, <3>1, <4>1
    <3> QED
      BY <3>2, <3>3
  <2>2. n + 1 \in 1..Len(long) /\ long[n + 1] = e
    BY <1>1, <1>2
  <2> QED
    BY <2>1, <2>2 DEF Ordered
<1>4. ASSUME NEW i \in 1..Len(long), NEW j \in 1..Len(long), i < j PROVE key[long[i]] < key[long[j]]
  <2>1. ASSUME NEW m \in 1..Len(long), m # n + 1
        PROVE  \E h \in 1..Len(list) : long[m] = list[h] /\ h = (IF m <= n THEN m ELSE m - 1)
    <3>1. CASE m <= n
      BY <1>1, <1>2, <3>1
    <3>2. CASE ~(m <= n)
      BY <1>1, <1>2, <2>1, <3>2
    <3> QED
      BY <3>1, <3>2
  <2>2. long[n + 1] = e
    BY <1>1, <1>2
  <2>3. CASE i # n + 1 /\ j # n + 1
    <3>1. PICK h \in 1..Len(list) : long[i] = list[h] /\ h = (IF i <= n THEN i ELSE i - 1)
      BY <2>1, <2>3
    <3>2. PICK k \in 1..Len(list) : long[j] = list[k] /\ k = (IF j <= n THEN j ELSE j - 1)
      BY <2>1, <2>3
    <3>3. h < k
      BY <1>1, <1>2, <1>4, <2>3, <3>1, <3>2
    <3> QED
      BY <3>1, <3>2, <3>3 DEF Ordered
  <2>4. CASE i = n + 1
    <3>1. PICK k \in 1..Len(list) : long[j] = list[k] /\ k = (IF j <= n THEN j ELSE j - 1)
      BY <1>1, <1>2, <1>4, <2>1, <2>4
    <3>2. ~(k <= n)
      BY <1>1, <1>2, <1>4, <2>4, <3>1
    <3> QED
      BY <2>2, <2>4, <3>1, <3>2
  <2>5. CASE j = n + 1
    <3>1. PICK h \in 1..Len(list) : long[i] = list[h] /\ h = (IF i <= n THEN i ELSE i - 1)
      BY <1>1, <1>2, <1>4, <2>1, <2>5
    <3>2. h <= n
      BY <1>1, <1>2, <1>4, <2>5, <3>1
    <3> QED
      BY <2>2, <2>5, <3>1, <3>2
  <2> QED
    BY <2>3, <2>4, <2>5
<1> QED
  BY <1>3, <1>4 DEF Ordered

LEMMA PutLast ==
    ASSUME NEW S, NEW list, NEW key, NEW e, Ordered(list, S, key), key[e] \in Int,
           \A f \in S : key[f] < key[e]
    PROVE  Ordered(Append(list, e), S \union {e}, key)
<1> DEFINE T == S \union {e}
           long == Append(list, e)
           n == Len(list)
<1>1. Len(list) \in Nat /\ list \in [1..Len(list) -> S] /\ list \in Seq(T) /\ e \in T
  BY OrderedOnce DEF Ordered
<1>2. /\ long \in Seq(T) /\ Len(long) = Len(list) + 1
      /\ \A i \in 1..Len(list) : long[i] = list[i]
      /\ long[Len(list) + 1] = e
  BY <1>1, AppendProperties
<1>3. \A i \in 1..Len(list) + 1 : long[i] = IF i <= n THEN list[i] ELSE IF i = n + 1 THEN e ELSE list[i - 1]
  BY <1>1, <1>2
<1>4. \A i \in 1..Len(list) : IF i <= n THEN key[list[i]] < key[e] ELSE key[e] < key[list[i]]
  BY <1>1
<1>5. n \in 0..Len(list)
  BY <1>1
<1> HIDE DEF long, n
<1>6. Ordered(long, T, key)
  <2> HIDE DEF T
  <2>1. T = S \union {e}
    BY DEF T
  <2>2. long \in Seq(T) /\ Len(long) = Len(list) + 1
    BY <1>2
  <2> QED
    BY <1>3, <1>4, <1>5, <2>1, <2>2, PutBetween
<1> QED
  BY <1>6 DEF long

LEMMA PutNext ==
    ASSUME NEW S, NEW list, NEW key, NEW e, NEW after \in S, Ordered(list, S, key), key[e] \in Int,
           key[after] < key[e], \A f \in S : key[after] < key[f] => key[e] < key[f]
    PROVE  Ordered(Library!InsertAt(list, 1 + Library!PositionIn(list, after), e), S \union {e}, key)
<1> DEFINE T == S \union {e}
           n == Library!PositionIn(list, after)
           front == SubSeq(list, 1, n)
           back == SubSeq(list, n + 1, Len(list))
           long == Library!InsertAt(list, 1 + n, e)
<1>1. /\ Len(list) \in Nat /\ DOMAIN list = 1..Len(list) /\ list \in [1..Len(list) -> S]
      /\ \A i, j \in 1..Len(list) : list[i] = list[j] => i = j
  BY OrderedOnce
<1>2. n \in 1..Len(list) /\ list[n] = after
  <2>1. \E i \in DOMAIN list : list[i] = after
    BY <1>1 DEF Ordered
  <2> QED
    BY <1>1, <2>1 DEF Library!PositionIn
<1>3. n \in 0..Len(list) /\ n \in Nat
  BY <1>1, <1>2
<1>4. \A i \in 1..Len(list) : IF i <= n THEN key[list[i]] < key[e] ELSE key[e] < key[list[i]]
  <2> SUFFICES ASSUME NEW i \in 1..Len(list)
               PROVE  IF i <= n THEN key[list[i]] < key[e] ELSE key[e] < key[list[i]]
    OBVIOUS
  <2>1. list[i] \in S /\ key[list[i]] \in Int /\ key[after] \in Int
    BY <1>1 DEF Ordered
  <2>2. CASE i < n
    <3>1. key[list[i]] < key[after]
      BY <1>2, <2>2 DEF Ordered
    <3> QED
      BY <1>3, <2>1, <2>2, <3>1
  <2>3. CASE i = n
    BY <1>2, <2>3
  <2>4. CASE n < i
    <3>1. key[after] < key[list[i]]
      BY <1>2, <2>4 DEF Ordered
    <3> QED
      BY <1>3, <2>1, <2>4, <3>1
  <2> QED
    BY <1>3, <2>2, <2>3, <2>4
<1>5. long = front \o <<e>> \o back
  <2>1. 1 + n = n + 1 /\ (1 + n) - 1 = n
    BY <1>3
  <2>2. long = SubSeq(list, 1, (1 + n) - 1) \o <<e>> \o SubSeq(list, 1 + n, Len(list))
    BY Zenon DEF Library!InsertAt
  <2> QED
    BY <2>1, <2>2
<1> HIDE DEF n, long
<1>6. front \in Seq(T) /\ Len(front) = n /\ \A i \in 1..n : front[i] = list[i]
  <2>1. \A i \in 1..n : list[i] \in T
    BY <1>1, <1>3
  <2>2. n >= 1 /\ (n - 1) + 1 = n
    BY <1>2, <1>3
  <2> QED
    BY <1>3, <2>1, <2>2, SubSeqProperties
<1>7. /\ back \in Seq(T) /\ Len(back) = Len(list) - n
      /\ \A i \in 1..Len(list) - n : back[i] = list[n + i]
  <2>1. \A i \in n + 1..Len(list) : list[i] \in T
    BY <1>1, <1>3
  <2>2. n + 1 \in Int /\ Len(list) \in Int
    BY <1>1, <1>3
  <2>3. /\ back \in Seq(T) /\ Len(back) = IF n + 1 <= Len(list) THEN Len(list) - (n + 1) + 1 ELSE 0
        /\ \A i \in 1..Len(list) - (n + 1) + 1 : back[i] = list[(n + 1) + i - 1]
    BY <2>1, <2>2, SubSeqProperties
  <2>4. Len(list) - (n + 1) + 1 = Len(list) - n /\ n <= Len(list)
    BY <1>1, <1>2, <1>3
  <2> HIDE DEF back
  <2>5. Len(back) = Len(list) - n
    <3>0. Len(list) \in Nat /\ n \in Nat /\ n <= Len(list)
      BY <1>1, <1>3, <2>4
    <3>1. n + 1 <= Len(list) \/ Len(list) - n = 0
      BY <3>0
    <3>2. n + 1 <= Len(list) => Len(back) = Len(list) - n
      BY <2>3, <2>4
    <3>3. ~(n + 1 <= Len(list)) => Len(back) = 0
      BY <2>3
    <3> QED
      BY <3>1, <3>2, <3>3
  <2>6. \A i \in 1..Len(list) - n : (n + 1) + i - 1 = n + i
    BY <1>3
  <2> QED
    BY <2>3, <2>4, <2>5, <2>6
<1> HIDE DEF front, back
<1>8. /\ front \o <<e>> \in Seq(T) /\ Len(front \o <<e>>) = n + 1
      /\ \A i \in 1..n + 1 : (front \o <<e>>)[i] = IF i <= n THEN list[i] ELSE e
  <2>1. <<e>> \in Seq(T) /\ Len(<<e>>) = 1 /\ <<e>>[1] = e
    OBVIOUS
  <2>2. /\ front \o <<e>> \in Seq(T) /\ Len(front \o <<e>>) = Len(front) + Len(<<e>>)
        /\ \A i \in 1..Len(front) + Len(<<e>>) : (front \o <<e>>)[i] =
               IF i <= Len(front) THEN front[i] ELSE <<e>>[i - Len(front)]
    BY <1>6, <2>1, ConcatProperties
  <2>3. \A i \in 1..n + 1 : IF i <= n THEN i \in 1..n ELSE i - n = 1
    BY <1>3
  <2> QED
    BY <1>6, <2>1, <2>2, <2>3
<1>9. /\ long \in Seq(T) /\ Len(long) = Len(list) + 1
      /\ \A i \in 1..Len(list) + 1 : long[i] = IF i <= n THEN list[i] ELSE IF i = n + 1 THEN e ELSE list[i - 1]
  <2> DEFINE start == front \o <<e>>
  <2> HIDE DEF start
  <2>1. long = start \o back /\ start \in Seq(T) /\ Len(start) = n + 1
        /\ \A i \in 1..n + 1 : start[i] = IF i <= n THEN list[i] ELSE e
    BY <1>5, <1>8 DEF start
  <2>2. /\ start \o back \in Seq(T) /\ Len(start \o back) = Len(start) + Len(back)
        /\ \A i \in 1..Len(start) + Len(back) : (start \o back)[i] =
               IF i <= Len(start) THEN start[i] ELSE back[i - Len(start)]
    BY <1>7, <2>1, ConcatProperties
  <2>3. (n + 1) + (Len(list) - n) = Len(list) + 1
    BY <1>1, <1>3
  <2>4. \A i \in 1..Len(list) + 1 : long[i] = IF i <= n + 1 THEN start[i] ELSE back[i - (n + 1)]
    BY <1>7, <2>1, <2>2, <2>3
  <2>5. ASSUME NEW i \in 1..Len(list) + 1
        PROVE  long[i] = IF i <= n THEN list[i] ELSE IF i = n + 1 THEN e ELSE list[i - 1]
    <3>1. CASE i <= n + 1
      <4>1. i \in 1..n + 1
        BY <1>1, <1>3, <3>1
      <4> QED
        BY <1>3, <2>1, <2>4, <3>1, <4>1
    <3>2. CASE ~(i <= n + 1)
      <4>1. i - (n + 1) \in 1..Len(list) - n /\ n + (i - (n + 1)) = i - 1 /\ ~(i <= n) /\ i # n + 1
        BY <1>1, <1>3, <3>2
      <4> QED
        BY <1>7, <2>4, <3>2, <4>1
    <3> QED
      BY <3>1, <3>2
  <2> QED
    BY <1>7, <2>1, <2>2, <2>3, <2>5
<1>10. Ordered(long, T, key)
  <2> HIDE DEF T
  <2>1. T = S \union {e}
    BY DEF T
  <2> QED
    BY <1>3, <1>4, <1>9, <2>1, PutBetween
<1> QED
  BY <1>10 DEF long, n

LEMMA InListIs == Library!Listed = InList(entry)
BY DEF Library!Listed, InList

LEMMA RowsShaped ==
    ASSUME NEW rows \in [Entries -> EntryRows]
    PROVE  /\ InList(rows) \subseteq Entries /\ IsFiniteSet(InList(rows)) /\ IsFiniteSet(Entries)
           /\ \A e \in InList(rows) : rows[e].at \in Nat /\ Places(rows)[e] = rows[e].at
<1>1. InList(rows) \subseteq Entries
  BY DEF InList
<1>2. \A e \in InList(rows) : rows[e].at \in Nat /\ Places(rows)[e] = rows[e].at
  BY <1>1 DEF EntryRows, InList, Places
<1> QED
  BY <1>1, <1>2, LibraryAssumption, FS_Subset

LEMMA ListIsIntended ==
    ASSUME NEW n, RowsFit(entry, intended, n)
    PROVE  Library!ListEntries = intended
<1> DEFINE S == InList(entry)
           key == [e \in S |-> entry[e].at]
<1>1. Ordered(intended, S, Places(entry)) /\ entry \in [Entries -> EntryRows]
  BY DEF RowsFit
<1>2. IsFiniteSet(S) /\ \A e \in S : entry[e].at \in Nat /\ Places(entry)[e] = entry[e].at
  BY <1>1, RowsShaped
<1>3. \A e \in S : key[e] = Places(entry)[e] /\ key[e] \in Int
  BY <1>2
<1>4. Library!ListEntries = Library!InOrder(S, key)
  BY InListIs DEF Library!ListEntries
<1> HIDE DEF key, S
<1>5. Ordered(intended, S, key)
  BY <1>1, <1>3, OtherKeys
<1> QED
  BY <1>2, <1>4, <1>5, OrderIsInOrder

(* Rows that move by way of positions beyond every other do not collide.     *)
LEMMA ShiftsApart ==
    ASSUME NEW rows \in [Entries -> EntryRows], NEW p \in Nat, NEW distance \in {1, -1},
           distance = -1 => p > 0 /\ \A e \in InList(rows) : rows[e].at # p - 1,
           \A e \in InList(rows) : rows[e].at + 1 < PositionShift,
           \A e, f \in InList(rows) : e # f => rows[e].at # rows[f].at,
           NEW done, done = Library!ShiftPositions(rows, p, distance)
    PROVE  /\ ~done.collides /\ done.rows \in [Entries -> EntryRows] /\ InList(done.rows) = InList(rows)
           /\ \A e \in InList(rows) : done.rows[e].at = IF rows[e].at >= p THEN rows[e].at + distance
                                                                            ELSE rows[e].at
           /\ \A e \in Entries \ InList(rows) : done.rows[e] = rows[e]
<1> DEFINE S == Library!From(rows, p)
           staged == Library!Moved(rows, S, PositionShift)
           back == Library!From(staged, PositionShift)
           after == Library!Moved(staged, back, distance - PositionShift)
<1>1. PositionShift \in Nat /\ None \notin Nat
  BY LibraryAssumption
<1>2. /\ InList(rows) \subseteq Entries /\ \A e \in InList(rows) : rows[e].at \in Nat
      /\ \A e \in Entries : rows[e] \in EntryRows
  BY RowsShaped
<1>3. S = {e \in InList(rows) : rows[e].at >= p}
  BY DEF Library!From, InList
<1>4. done.rows = after /\ done.collides = (Library!Collides(rows, S, PositionShift)
                                            \/ Library!Collides(staged, back, distance - PositionShift))
  BY DEF Library!ShiftPositions
<1>5. /\ \A e \in S : staged[e] \in EntryRows /\ staged[e].at = rows[e].at + PositionShift
                      /\ staged[e].track = rows[e].track
      /\ \A e \in Entries \ S : staged[e] = rows[e]
  BY <1>1, <1>2, <1>3 DEF Library!Moved, EntryRows
<1> HIDE DEF S, staged
<1>6. back = S
  <2>1. ASSUME NEW e \in S PROVE e \in back
    BY <1>1, <1>2, <1>3, <1>5, <2>1 DEF Library!From
  <2>2. ASSUME NEW e \in back, e \notin S PROVE FALSE
    <3>1. e \in Entries /\ staged[e].at # None /\ staged[e].at >= PositionShift
      BY DEF Library!From
    <3>2. e \in InList(rows) /\ rows[e].at >= PositionShift
      BY <1>5, <2>2, <3>1 DEF InList
    <3> QED
      BY <1>1, <1>2, <3>2
  <2>3. back \subseteq Entries
    BY DEF Library!From
  <2> QED
    BY <2>1, <2>2
<1> HIDE DEF back
<1>7. /\ \A e \in S : after[e] \in EntryRows /\ after[e].at = rows[e].at + distance
      /\ \A e \in Entries \ S : after[e] = rows[e]
  <2>1. \A e \in S : rows[e].at \in Nat /\ rows[e].at + distance \in Nat
    BY <1>2, <1>3
  <2>2. \A e \in S : (rows[e].at + PositionShift) + (distance - PositionShift) = rows[e].at + distance
    BY <1>1, <2>1
  <2>3. \A e \in S : e \in Entries /\ after[e] = [staged[e] EXCEPT !.at = @ + (distance - PositionShift)]
    BY <1>2, <1>3, <1>6 DEF Library!Moved
  <2>4. ASSUME NEW e \in S PROVE after[e] \in EntryRows /\ after[e].at = rows[e].at + distance
    <3> DEFINE moved == [staged[e] EXCEPT !.at = @ + (distance - PositionShift)]
    <3>1. staged[e] \in EntryRows /\ staged[e].at = rows[e].at + PositionShift
      BY <1>5
    <3>2. staged[e].at + (distance - PositionShift) = rows[e].at + distance /\ rows[e].at + distance \in Nat
      BY <2>1, <2>2, <3>1
    <3>3. moved \in EntryRows /\ moved.at = rows[e].at + distance
      BY <3>1, <3>2 DEF EntryRows
    <3>4. after[e] = moved
      BY <2>3
    <3> HIDE DEF after, moved
    <3> QED
      BY <3>3, <3>4
  <2>5. \A e \in Entries \ S : after[e] = rows[e]
    BY <1>5, <1>6 DEF Library!Moved
  <2> QED
    BY <2>4, <2>5
<1>8. DOMAIN after = Entries /\ after = [e \in Entries |-> after[e]]
  BY DEF Library!Moved
<1> HIDE DEF after
<1>9. after \in [Entries -> EntryRows]
  BY <1>2, <1>7, <1>8
<1>10. InList(after) = InList(rows)
  <2>1. \A e \in S : after[e].at # None /\ rows[e].at # None
    BY <1>1, <1>2, <1>3, <1>7 DEF InList
  <2> QED
    BY <1>2, <1>3, <1>7, <2>1 DEF InList
<1>11. ~Library!Collides(rows, S, PositionShift)
  <2> SUFFICES ASSUME NEW e \in S, NEW f \in Entries \ {e}, rows[f].at # None,
                      rows[e].at + PositionShift = rows[f].at
               PROVE  FALSE
    BY DEF Library!Collides
  <2>1. f \in InList(rows)
    BY DEF InList
  <2> QED
    BY <1>1, <1>2, <1>3, <2>1
<1>12. ~Library!Collides(staged, S, distance - PositionShift)
  <2> SUFFICES ASSUME NEW e \in S, NEW f \in Entries \ {e}, staged[f].at # None,
                      staged[e].at + (distance - PositionShift) = staged[f].at
               PROVE  FALSE
    BY DEF Library!Collides
  <2>1. rows[e].at \in Nat /\ rows[e].at + distance = staged[f].at /\ rows[e].at >= p
        /\ rows[e].at + 1 < PositionShift
    BY <1>1, <1>2, <1>3, <1>5
  <2>2. CASE f \in S
    <3>1. rows[f].at \in Nat /\ staged[f].at = rows[f].at + PositionShift
      BY <1>2, <1>3, <1>5, <2>2
    <3> QED
      BY <1>1, <2>1, <3>1
  <2>3. CASE f \notin S
    <3>1. f \in InList(rows) /\ rows[f].at = rows[e].at + distance /\ rows[f].at \in Nat
      BY <1>2, <1>5, <2>1, <2>3 DEF InList
    <3>2. ~(rows[f].at >= p)
      BY <1>3, <2>3, <3>1
    <3> QED
      BY <2>1, <3>1, <3>2
  <2> QED
    BY <2>2, <2>3
<1> QED
  BY <1>2, <1>3, <1>4, <1>6, <1>7, <1>9, <1>10, <1>11, <1>12

(* Steps of a device that write no row.                                      *)
LEMMA DeviceStep ==
    ASSUME LibInv, NEW d \in Devices, NEW y \in DeviceRecords, device' = [device EXCEPT ![d] = y],
           UNCHANGED <<track, entry, version, intended, collided, edits>>, favorite' \subseteq Tracks,
           DeviceFits(y, entry, version, edits),
           y.phase = "locked" => \A other \in Devices : device[other].phase # "locked"
    PROVE  LibInv'
<1>1. /\ device \in [Devices -> DeviceRecords] /\ \A e \in Devices : DeviceFits(device[e], entry, version, edits)
      /\ \A e, other \in Devices : device[e].phase = "locked" /\ device[other].phase = "locked" => e = other
  BY DEF LibInv
<1>2. device' \in [Devices -> DeviceRecords] /\ device'[d] = y /\ \A e \in Devices \ {d} : device'[e] = device[e]
  BY <1>1
<1>3. \A e \in Devices : DeviceFits(device'[e], entry, version, edits)
  BY <1>1, <1>2
<1>4. \A e, other \in Devices : device'[e].phase = "locked" /\ device'[other].phase = "locked" => e = other
  BY <1>1, <1>2
<1>5. \A e \in Devices : DeviceFits(device[e], entry, version, edits)'
  BY <1>3
<1> QED
  BY <1>2, <1>4, <1>5 DEF LibInv, RowsFit

LEMMA PlacesApart ==
    ASSUME NEW rows, NEW S, NEW list, Ordered(list, S, Places(rows)), \A e \in S : Places(rows)[e] = rows[e].at
    PROVE  \A e, f \in S : e # f => rows[e].at # rows[f].at
<1> SUFFICES ASSUME NEW e \in S, NEW f \in S, e # f PROVE rows[e].at # rows[f].at
  OBVIOUS
<1>1. \A k \in S : Places(rows)[k] \in Int /\ \E i \in 1..Len(list) : list[i] = k
  BY Zenon DEF Ordered
<1>2. PICK i \in 1..Len(list) : list[i] = e
  BY <1>1
<1>3. PICK j \in 1..Len(list) : list[j] = f
  BY <1>1
<1>4. i < j \/ j < i
  BY <1>2, <1>3, OrderedOnce
<1>5. Places(rows)[e] < Places(rows)[f] \/ Places(rows)[f] < Places(rows)[e]
  BY <1>2, <1>3, <1>4 DEF Ordered
<1> QED
  BY <1>1, <1>5

LEMMA OneOfEach ==
    ASSUME NEW E, NEW S, S \subseteq E, IsFiniteSet(S), NEW order \in Library!SetToSeqs(S)
    PROVE  Ordered(order, S, PlacesIn(order)) /\ Len(order) = Cardinality(S) /\ order \in Seq(E)
<1> DEFINE D == 1..Cardinality(S)
<1>1. order \in [D -> S] /\ \A i, j \in D : i # j => order[i] # order[j]
  BY LibraryCount DEF Library!SetToSeqs
<1>2. Cardinality(S) \in Nat
  BY FS_CardinalityType
<1>3. order \in Seq(S) /\ Len(order) = Cardinality(S) /\ order \in Seq(E)
  BY <1>1, <1>2
<1>4. order \in Surjection(D, S)
  <2>1. IsFiniteSet(D) /\ Cardinality(D) = Cardinality(S)
    BY <1>2, FS_Interval
  <2>2. order \in Injection(D, S)
    BY <1>1 DEF Injection, IsInjective
  <2> QED
    BY <2>1, <2>2, FS_Injection
<1>5. \A e \in S : \E i \in 1..Len(order) : order[i] = e
  BY <1>3, <1>4 DEF Surjection
<1>6. /\ Library!ToSet(order) = {order[i] : i \in 1..Len(order)}
      /\ PlacesIn(order) \in [Library!ToSet(order) -> Nat]
      /\ \A e \in Library!ToSet(order) : PlacesIn(order)[e] \in D /\ order[PlacesIn(order)[e]] = e
  BY <1>3, PlacesAre
<1>7. \A i \in D : order[i] \in Library!ToSet(order) /\ PlacesIn(order)[order[i]] = i
  BY <1>1, <1>3, <1>6
<1>8. \A e \in S : PlacesIn(order)[e] \in Int
  BY <1>3, <1>5, <1>6
<1>9. \A i, j \in 1..Len(order) : i < j => PlacesIn(order)[order[i]] < PlacesIn(order)[order[j]]
  BY <1>3, <1>7
<1> QED
  BY <1>3, <1>5, <1>8, <1>9 DEF Ordered

LEMMA IdleDevice == \A rows, v, n : Library!Nothing \in DeviceRecords /\ DeviceFits(Library!Nothing, rows, v, n)
                                    /\ Library!Nothing.phase = "none" /\ Library!Nothing.wanted = <<>>
<1>1. <<>> \in Seq(Entries)
  OBVIOUS
<1> QED
  BY <1>1 DEF Library!Nothing, DeviceRecords, DeviceFits, Library!Phases, Library!Ops

LEMMA LockedDevice ==
    ASSUME LibInv, NEW d \in Devices, Library!Lock(d), NEW y \in DeviceRecords,
           device' = [device EXCEPT ![d] = y], y.phase = "locked",
           UNCHANGED <<track, Library!Playlist, Library!Others, edits>>, EditFits(y, entry, edits)
    PROVE  LibInv'
<1>1. version > 0 /\ \A other \in Devices : device[other].phase # "locked"
  BY DEF Library!Lock
<1>2. DeviceFits(y, entry, version, edits)
  BY <1>1 DEF DeviceFits
<1>3. UNCHANGED <<track, entry, version, intended, collided, edits>> /\ favorite' \subseteq Tracks
  BY DEF Library!Playlist, Library!Others, LibInv
<1> QED
  BY <1>1, <1>2, <1>3, DeviceStep

\* What a device that holds the lock has seen is what is there, but for what
\* track deletions took from it.
LEMMA SeenWhenLocked ==
    ASSUME LibInv, NEW d \in Devices, Library!Lock(d)
    PROVE  /\ entry \in [Entries -> EntryRows] /\ edits \in Nat
           /\ \A e \in InList(entry) : entry[e].at \in Nat /\ entry[e].at < edits /\ Places(entry)[e] = entry[e].at
           /\ device[d] \in DeviceRecords /\ Follows(device[d].seen, InList(entry), Places(entry))
           /\ Ordered(intended, InList(entry), Places(entry))
           /\ \A T : T \subseteq InList(entry) => Ordered(Library!Keep(device[d].seen, T), T, Places(entry))
<1>1. /\ entry \in [Entries -> EntryRows] /\ \A e \in InList(entry) : entry[e].at < edits
      /\ Ordered(intended, InList(entry), Places(entry))
  BY DEF LibInv, RowsFit
<1>2. device[d] \in DeviceRecords /\ DeviceFits(device[d], entry, version, edits) /\ edits \in Nat
  BY LibraryAssumption DEF LibInv
<1>3. Follows(device[d].seen, InList(entry), Places(entry))
  BY <1>2 DEF Library!Lock, Library!SeenVersion, DeviceFits
<1>4. device[d].seen \in Seq(Entries) /\ IsFiniteSet(Entries)
  BY <1>2, LibraryAssumption DEF DeviceRecords
<1>5. ASSUME NEW T, T \subseteq InList(entry)
      PROVE  Ordered(Library!Keep(device[d].seen, T), T, Places(entry))
  <2>1. \A e \in InList(entry) : \E i \in 1..Len(device[d].seen) : device[d].seen[i] = e
    BY <1>3, Zenon DEF Follows
  <2>2. T = Library!ToSet(device[d].seen) \intersect T
    BY <1>4, <1>5, <2>1, PlacesAre
  <2>3. Follows(device[d].seen, T, Places(entry))
    BY <1>3, <1>5, FollowsFewer
  <2> QED
    BY <1>4, <2>2, <2>3, KeptInOrder
<1> QED
  BY <1>1, <1>2, <1>3, <1>5, RowsShaped

LEMMA GetStep ==
    ASSUME LibInv, NEW d \in Devices, Library!Get(d)
    PROVE  LibInv'
<1> DEFINE y == [Library!Nothing EXCEPT !.phase = "looked", !.seen = Library!ListEntries, !.version = version]
<1>1. /\ version > 0 /\ device' = [device EXCEPT ![d] = y]
      /\ UNCHANGED <<track, Library!Playlist, Library!Others, edits>>
  BY DEF Library!Get
<1>2. RowsFit(entry, intended, edits) /\ version \in Nat /\ favorite \subseteq Tracks
  BY DEF LibInv
<1>3. Library!ListEntries = intended
  BY <1>2, ListIsIntended
<1>4. Ordered(intended, InList(entry), Places(entry)) /\ intended \in Seq(Entries)
  <2>1. Ordered(intended, InList(entry), Places(entry)) /\ InList(entry) \subseteq Entries
    BY <1>2, RowsShaped DEF RowsFit
  <2> QED
    BY <2>1 DEF Ordered
<1>5. Library!Nothing \in DeviceRecords
  BY IdleDevice
<1>6. y \in DeviceRecords /\ y.phase = "looked" /\ y.seen = intended /\ y.version = version
  BY <1>2, <1>3, <1>4, <1>5 DEF DeviceRecords, Library!Phases
<1> HIDE DEF y
<1>7. Follows(intended, InList(entry), Places(entry))
  BY <1>4, OrderedFollows
<1>8. DeviceFits(y, entry, version, edits)
  BY <1>1, <1>2, <1>6, <1>7 DEF DeviceFits
<1>9. UNCHANGED <<track, entry, version, intended, collided, edits>> /\ favorite' \subseteq Tracks
  BY <1>1, <1>2 DEF Library!Playlist, Library!Others
<1> QED
  BY <1>1, <1>6, <1>8, <1>9, DeviceStep

LEMMA AddStep ==
    ASSUME LibInv, NEW d \in Devices, NEW e \in Entries, NEW f \in Tracks, NEW after \in Entries \union {None},
           Library!AddTrack(d, e, f, after)
    PROVE  LibInv'
<1> DEFINE S == InList(entry)
           list == Library!Keep(device[d].seen, S)
           p == 1 + (IF after = None THEN Library!MaxPosition ELSE entry[after].at)
           wanted == Library!PutAfter(list, after, e)
           key == PlacesWith(entry, e, p)
           x == device[d]
           y == [device[d] EXCEPT !.phase = "locked", !.op = "add", !.entry = e, !.track = f,
                                  !.at = p, !.wanted = wanted]
<1>1. /\ Library!Lock(d) /\ e \notin S /\ (after # None => after \in S)
      /\ UNCHANGED <<track, Library!Playlist, Library!Others, edits>>
  BY InListIs DEF Library!AddTrack
<1>2. /\ edits \in Nat /\ x \in DeviceRecords /\ Ordered(intended, S, Places(entry))
      /\ \A k \in S : entry[k].at \in Nat /\ entry[k].at < edits /\ Places(entry)[k] = entry[k].at
      /\ Ordered(list, S, Places(entry))
  BY <1>1, SeenWhenLocked
<1>3. device' = [device EXCEPT ![d] = y]
  <2>1. device' = [device EXCEPT
          ![d].phase = "locked", ![d].op = "add", ![d].entry = e, ![d].track = f,
          ![d].at = p, ![d].wanted = wanted]
    BY Zenon, InListIs DEF Library!AddTrack
  <2>2. device \in [Devices -> DeviceRecords]
    BY DEF LibInv
  <2> HIDE DEF p, wanted
  <2> QED
    BY <2>1, <2>2
<1>4. /\ p \in Nat /\ p <= edits
      /\ IF after = None THEN \A k \in S : entry[k].at < p ELSE entry[after].at = p - 1
  <2>1. CASE after = None
    <3>1. CASE S = {}
      BY <1>2, <2>1, <3>1, InListIs DEF Library!MaxPosition
    <3>2. CASE S # {}
      <4> DEFINE T == {entry[k].at : k \in S}
      <4>1. \E m \in T : \A k \in S : entry[k].at <= m
        <5>1. Len(intended) \in Nat /\ intended \in [1..Len(intended) -> S]
          BY <1>2, OrderedOnce
        <5>2. \A k \in S : \E i \in 1..Len(intended) : intended[i] = k
          BY <1>2, Zenon DEF Ordered
        <5>3. Len(intended) \in 1..Len(intended)
          <6>1. PICK k \in S : TRUE
            BY <3>2
          <6>2. PICK i \in 1..Len(intended) : intended[i] = k
            BY <5>2
          <6> QED
            BY <5>1, <6>2
        <5>4. PICK m \in S : m = intended[Len(intended)]
          BY <5>1, <5>3
        <5>5. ASSUME NEW k \in S PROVE entry[k].at <= entry[m].at
          <6>1. PICK i \in 1..Len(intended) : intended[i] = k
            BY <5>2
          <6>2. CASE i = Len(intended)
            BY <1>2, <5>4, <6>1, <6>2
          <6>3. CASE i < Len(intended)
            <7>1. Places(entry)[k] < Places(entry)[m]
              BY <1>2, <5>3, <5>4, <6>1, <6>3 DEF Ordered
            <7> QED
              BY <1>2, <7>1
          <6>4. i = Len(intended) \/ i < Len(intended)
            <7>1. Len(intended) \in Nat
              BY <5>1
            <7> QED
              BY <7>1
          <6> QED
            BY <6>2, <6>3, <6>4
        <5> QED
          BY <5>5
      <4>2. Library!MaxPosition = CHOOSE m \in T : \A k \in S : entry[k].at <= m
        BY <3>2, InListIs DEF Library!MaxPosition
      <4>3. Library!MaxPosition \in T /\ \A k \in S : entry[k].at <= Library!MaxPosition
        BY <4>1, <4>2
      <4>4. PICK k \in S : Library!MaxPosition = entry[k].at
        BY <4>3
      <4>5. p = 1 + entry[k].at
        BY <2>1, <4>4
      <4> QED
        BY <1>2, <2>1, <4>3, <4>4, <4>5
    <3> QED
      BY <3>1, <3>2
  <2>2. CASE after # None
    BY <1>1, <1>2, <2>2
  <2> QED
    BY <2>1, <2>2
<1> HIDE DEF p
<1>5. /\ \A k \in S : key[k] = 2 * entry[k].at /\ key[k] \in Int
      /\ key[e] = 2 * p - 1 /\ key[e] \in Int
  BY <1>1, <1>2, <1>4 DEF PlacesWith
<1> HIDE DEF key, list
<1>6. Ordered(list, S, key)
  BY <1>2, <1>5, OtherKeys
<1>7. Ordered(wanted, S \union {e}, key)
  <2>1. CASE after = None
    <3>1. \A k \in S : key[k] < key[e]
      BY <1>2, <1>4, <1>5, <2>1
    <3>2. wanted = Append(list, e)
      BY <2>1 DEF Library!PutAfter
    <3> QED
      BY <1>5, <1>6, <3>1, <3>2, PutLast
  <2>2. CASE after # None
    <3>1. after \in S /\ key[after] < key[e] /\ \A k \in S : key[after] < key[k] => key[e] < key[k]
      BY <1>1, <1>2, <1>4, <1>5, <2>2
    <3>2. wanted = Library!InsertAt(list, 1 + Library!PositionIn(list, after), e)
      BY <2>2 DEF Library!PutAfter
    <3> QED
      BY <1>5, <1>6, <3>1, <3>2, PutNext
  <2> QED
    BY <2>1, <2>2
<1>8. wanted \in Seq(Entries)
  <2>1. S \union {e} \subseteq Entries
    BY DEF InList
  <2> QED
    BY <1>7, <2>1 DEF Ordered
<1> HIDE DEF wanted
<1>9. /\ y \in DeviceRecords /\ y.phase = "locked" /\ y.op = "add" /\ y.entry = e /\ y.track = f
      /\ y.at = p /\ y.wanted = wanted
  BY <1>2, <1>4, <1>8 DEF DeviceRecords, Library!Phases, Library!Ops
<1> HIDE DEF y
<1>10. EditFits(y, entry, edits)
  BY <1>1, <1>4, <1>7, <1>9 DEF EditFits, key
<1> QED
  BY <1>1, <1>3, <1>9, <1>10, LockedDevice

LEMMA RemoveStep ==
    ASSUME LibInv, NEW d \in Devices, NEW e \in Entries, Library!RemoveTrack(d, e)
    PROVE  LibInv'
<1> DEFINE S == InList(entry)
           wanted == Library!Keep(device[d].seen, S \ {e})
           y == [device[d] EXCEPT !.phase = "locked", !.op = "remove", !.entry = e,
                                  !.at = entry[e].at, !.wanted = wanted]
<1>1. Library!Lock(d) /\ e \in S /\ UNCHANGED <<track, Library!Playlist, Library!Others, edits>>
  BY InListIs DEF Library!RemoveTrack
<1>2. /\ entry \in [Entries -> EntryRows] /\ device[d] \in DeviceRecords /\ Ordered(intended, S, Places(entry))
      /\ \A k \in S : entry[k].at \in Nat /\ Places(entry)[k] = entry[k].at
      /\ Ordered(wanted, S \ {e}, Places(entry))
  BY <1>1, SeenWhenLocked
<1>3. device' = [device EXCEPT ![d] = y]
  <2>1. device' = [device EXCEPT
          ![d].phase = "locked", ![d].op = "remove", ![d].entry = e, ![d].at = entry[e].at,
          ![d].wanted = wanted]
    BY Zenon, InListIs DEF Library!RemoveTrack
  <2>2. device \in [Devices -> DeviceRecords]
    BY DEF LibInv
  <2> HIDE DEF wanted
  <2> QED
    BY <2>1, <2>2
<1>4. wanted \in Seq(Entries)
  <2>1. S \subseteq Entries
    BY DEF InList
  <2> QED
    BY <1>2, <2>1 DEF Ordered
<1> HIDE DEF wanted
<1>5. /\ y \in DeviceRecords /\ y.phase = "locked" /\ y.op = "remove" /\ y.entry = e
      /\ y.at = entry[e].at /\ y.wanted = wanted
  BY <1>1, <1>2, <1>4 DEF DeviceRecords, Library!Phases, Library!Ops
<1> HIDE DEF y
<1>6. \A k \in S : k = e <=> entry[k].at = entry[e].at
  BY <1>1, <1>2, PlacesApart
<1>7. EditFits(y, entry, edits)
  BY <1>1, <1>2, <1>5, <1>6 DEF EditFits
<1> QED
  BY <1>1, <1>3, <1>5, <1>7, LockedDevice

LEMMA ReorderStep ==
    ASSUME LibInv, NEW d \in Devices, NEW order, Library!Reorder(d, order)
    PROVE  LibInv'
<1> DEFINE S == InList(entry)
           y == [device[d] EXCEPT !.phase = "locked", !.op = "reorder", !.order = order, !.wanted = order]
<1>1. /\ Library!Lock(d) /\ order \in Library!SetToSeqs(S)
      /\ UNCHANGED <<track, Library!Playlist, Library!Others, edits>>
      /\ device' = [device EXCEPT ![d].phase = "locked", ![d].op = "reorder",
                                  ![d].order = order, ![d].wanted = order]
  BY InListIs DEF Library!Reorder
<1>2. /\ entry \in [Entries -> EntryRows] /\ device[d] \in DeviceRecords /\ Ordered(intended, S, Places(entry))
      /\ edits \in Nat /\ \A k \in S : entry[k].at \in Nat /\ entry[k].at < edits /\ Places(entry)[k] = entry[k].at
  BY <1>1, SeenWhenLocked
<1>3. device' = [device EXCEPT ![d] = y]
  <2>1. device \in [Devices -> DeviceRecords]
    BY DEF LibInv
  <2> QED
    BY <1>1, <2>1
<1>4. S \subseteq Entries /\ IsFiniteSet(S)
  BY <1>2, RowsShaped
<1>5. Ordered(order, S, PlacesIn(order)) /\ Len(order) = Cardinality(S) /\ order \in Seq(Entries)
  BY <1>1, <1>4, OneOfEach
<1>6. Cardinality(S) <= edits
  <2> DEFINE f == [k \in S |-> entry[k].at]
  <2>1. f \in Injection(S, 0..edits - 1)
    <3>1. \A k \in S : entry[k].at \in 0..edits - 1
      BY <1>2
    <3>2. \A k, l \in S : entry[k].at = entry[l].at => k = l
      BY <1>2, PlacesApart
    <3> QED
      BY <3>1, <3>2 DEF Injection, IsInjective
  <2>2. IsFiniteSet(0..edits - 1) /\ Cardinality(0..edits - 1) = edits
    <3>1. 0 \in Int /\ edits - 1 \in Int /\ (edits - 1) - 0 + 1 = edits /\ (0 > edits - 1 => edits = 0)
      BY <1>2
    <3> QED
      BY <3>1, FS_Interval
  <2> QED
    BY <2>1, <2>2, FS_Injection
<1>7. /\ y \in DeviceRecords /\ y.phase = "locked" /\ y.op = "reorder" /\ y.order = order /\ y.wanted = order
  BY <1>2, <1>5 DEF DeviceRecords, Library!Phases, Library!Ops
<1> HIDE DEF y
<1>8. Follows(order, S, PlacesIn(order))
  BY <1>5, OrderedFollows
<1>9. EditFits(y, entry, edits)
  BY <1>5, <1>6, <1>7, <1>8 DEF EditFits
<1> QED
  BY <1>1, <1>3, <1>7, <1>9, LockedDevice

LEMMA BackToIdle ==
    ASSUME LibInv, NEW d \in Devices, device' = [device EXCEPT ![d] = Library!Nothing],
           UNCHANGED <<track, Library!Playlist, Library!Others, edits>>
    PROVE  LibInv'
<1>1. /\ Library!Nothing \in DeviceRecords /\ DeviceFits(Library!Nothing, entry, version, edits)
      /\ Library!Nothing.phase # "locked"
  BY IdleDevice
<1>2. UNCHANGED <<track, entry, version, intended, collided, edits>> /\ favorite' \subseteq Tracks
  BY DEF Library!Playlist, Library!Others, LibInv
<1> QED
  BY <1>1, <1>2, DeviceStep

LEMMA FavoriteStep ==
    ASSUME LibInv, NEW d \in Devices, NEW f \in Tracks, Library!AddFavorite(d, f)
    PROVE  LibInv'
<1>1. UNCHANGED <<track, entry, version, intended, collided, edits>> /\ favorite' \subseteq Tracks
  BY DEF Library!AddFavorite, Library!Playlist, LibInv
<1>2. CASE UNCHANGED device
  BY <1>1, <1>2 DEF LibInv, RowsFit
<1>3. CASE device' = [device EXCEPT ![d].phase = "favorite", ![d].track = f]
  <2> DEFINE y == [device[d] EXCEPT !.phase = "favorite", !.track = f]
  <2>1. device \in [Devices -> DeviceRecords] /\ device[d] \in DeviceRecords
    BY DEF LibInv
  <2>2. y \in DeviceRecords /\ y.phase = "favorite" /\ device' = [device EXCEPT ![d] = y]
    BY <1>3, <2>1 DEF DeviceRecords, Library!Phases
  <2> HIDE DEF y
  <2>3. DeviceFits(y, entry, version, edits)
    BY <2>2 DEF DeviceFits
  <2> QED
    BY <1>1, <2>2, <2>3, DeviceStep
<1> QED
  BY <1>2, <1>3 DEF Library!AddFavorite

(* The end of an edit: nobody else holds the lock, and what the others saw   *)
(* is of an earlier version.                                                 *)
LEMMA EndStep ==
    ASSUME LibInv, NEW d \in Devices, device' = [device EXCEPT ![d] = Library!Nothing],
           version > 0, version' = version + 1 \/ version' = 0, edits < MaxEdits, edits' = edits + 1,
           UNCHANGED <<track, Library!Others>>, collided' = FALSE,
           \A other \in Devices \ {d} : device[other].phase # "locked",
           RowsFit(entry', intended', edits')
    PROVE  LibInv'
<1>1. /\ device \in [Devices -> DeviceRecords] /\ \A e \in Devices : DeviceFits(device[e], entry, version, edits)
      /\ edits \in Nat /\ version \in Nat /\ version <= edits + 1 /\ favorite' \subseteq Tracks /\ track' \subseteq Tracks
  BY LibraryAssumption DEF LibInv, Library!Others
<1>2. /\ Library!Nothing \in DeviceRecords /\ Library!Nothing.phase = "none"
      /\ DeviceFits(Library!Nothing, entry', version', edits')
  BY IdleDevice
<1>3. /\ device' \in [Devices -> DeviceRecords] /\ device'[d] = Library!Nothing
      /\ \A e \in Devices \ {d} : device'[e] = device[e]
  BY <1>1, <1>2
<1>4. \A e \in Devices : DeviceFits(device'[e], entry', version', edits')
  <2>1. ASSUME NEW e \in Devices \ {d} PROVE DeviceFits(device[e], entry', version', edits')
    <3>1. device[e].phase # "locked" /\ DeviceFits(device[e], entry, version, edits)
          /\ device[e].version \in Nat
      BY <1>1 DEF DeviceRecords
    <3>2. CASE device[e].phase = "looked"
      <4>1. device[e].version > 0 /\ device[e].version <= version
        BY <1>1, <3>1, <3>2 DEF DeviceFits
      <4>2. device[e].version # version' /\ (version' = 0 \/ device[e].version <= version')
        BY <1>1, <3>1, <4>1
      <4> QED
        BY <3>1, <4>1, <4>2 DEF DeviceFits
    <3> QED
      BY <3>1, <3>2 DEF DeviceFits
  <2> QED
    BY <1>2, <1>3, <2>1
<1>5. \A e, other \in Devices : device'[e].phase = "locked" /\ device'[other].phase = "locked" => e = other
  BY <1>2, <1>3
<1>6. edits' \in 0..MaxEdits /\ version' \in 0..edits' + 1
  BY <1>1, LibraryAssumption
<1> QED
  BY <1>1, <1>3, <1>4, <1>5, <1>6 DEF LibInv

LEMMA LockHeld ==
    ASSUME LibInv, NEW d \in Devices, device[d].phase = "locked"
    PROVE  /\ version > 0 /\ EditFits(device[d], entry, edits) /\ device[d] \in DeviceRecords
           /\ \A other \in Devices \ {d} : device[other].phase # "locked"
           /\ entry \in [Entries -> EntryRows] /\ InList(entry) \subseteq Entries /\ edits \in Nat
           /\ \A e \in InList(entry) : entry[e].at \in Nat /\ entry[e].at < edits /\ Places(entry)[e] = entry[e].at
           /\ \A e, f \in InList(entry) : e # f => entry[e].at # entry[f].at
<1>1. DeviceFits(device[d], entry, version, edits) /\ device[d] \in DeviceRecords /\ RowsFit(entry, intended, edits)
      /\ edits \in Nat /\ \A other \in Devices \ {d} : device[other].phase # "locked"
  BY LibraryAssumption DEF LibInv
<1>2. version > 0 /\ EditFits(device[d], entry, edits)
  BY <1>1 DEF DeviceFits
<1>3. /\ entry \in [Entries -> EntryRows] /\ \A e \in InList(entry) : entry[e].at < edits
      /\ Ordered(intended, InList(entry), Places(entry))
  BY <1>1 DEF RowsFit
<1>4. InList(entry) \subseteq Entries /\ \A e \in InList(entry) : entry[e].at \in Nat /\ Places(entry)[e] = entry[e].at
  BY <1>3, RowsShaped
<1> QED
  BY <1>1, <1>2, <1>3, <1>4, PlacesApart

\* Rows whose places keep the order of the list that was wanted.
LEMMA RowsFitWanted ==
    ASSUME NEW rows \in [Entries -> EntryRows], NEW S, NEW wanted, NEW key, NEW n \in Nat,
           InList(rows) = S, Ordered(wanted, S, key), \A e \in S : rows[e].at < n,
           \A e, f \in S : key[e] < key[f] => rows[e].at < rows[f].at
    PROVE  RowsFit(rows, wanted, n)
<1>1. \A e \in S : Places(rows)[e] = rows[e].at /\ Places(rows)[e] \in Int
  BY RowsShaped
<1>2. Ordered(wanted, S, Places(rows))
  BY <1>1, OtherKeys
<1> QED
  BY <1>2 DEF RowsFit

LEMMA CommitAddStep ==
    ASSUME LibInv, NEW d \in Devices, Library!CommitAdd(d)
    PROVE  LibInv'
<1> DEFINE x == device[d]
           S == InList(entry)
           e == x.entry
           p == x.at
           shifted == Library!ShiftPositions(entry, p, 1)
           line == [track |-> x.track, at |-> p]
           rows == [shifted.rows EXCEPT ![e] = line]
           clash == shifted.collides \/ \E k \in Entries : shifted.rows[k].at = p
           key == PlacesWith(entry, e, p)
<1>1. x.phase = "locked" /\ x.op = "add"
      /\ (IF x.track \in track THEN Library!Ends(d, rows, clash) ELSE Library!Aborts(d))
  BY Zenon DEF Library!CommitAdd
<1>2. CASE Library!Aborts(d)
  <2>1. device' = [device EXCEPT ![d] = Library!Nothing]
        /\ UNCHANGED <<track, Library!Playlist, Library!Others, edits>>
    BY <1>2, Zenon DEF Library!Aborts
  <2> QED
    BY <2>1, BackToIdle
<1>3. CASE Library!Ends(d, rows, clash)
  <2>1. /\ edits < MaxEdits /\ edits' = edits + 1 /\ entry' = rows /\ collided' = (collided \/ clash)
        /\ version' = version + 1 /\ intended' = x.wanted
        /\ device' = [device EXCEPT ![d] = Library!Nothing] /\ UNCHANGED <<track, Library!Others>>
    BY <1>3, Zenon DEF Library!Ends, Library!Edited
  <2>2. /\ version > 0 /\ \A other \in Devices \ {d} : device[other].phase # "locked"
        /\ EditFits(x, entry, edits) /\ x \in DeviceRecords
        /\ entry \in [Entries -> EntryRows] /\ S \subseteq Entries /\ edits \in Nat
        /\ \A k \in S : entry[k].at \in Nat /\ entry[k].at < edits
        /\ \A k, f \in S : k # f => entry[k].at # entry[f].at
    BY <1>1, LockHeld
  <2>3. /\ e \in Entries \ S /\ x.track \in Tracks /\ p <= edits /\ p \in Nat
        /\ Ordered(x.wanted, S \union {e}, key)
    BY <1>1, <2>2 DEF EditFits, DeviceRecords
  <2>4. \A k \in S : entry[k].at + 1 < PositionShift
    <3>1. MaxEdits \in Nat /\ PositionShift \in Nat /\ MaxEdits <= PositionShift
      BY LibraryAssumption
    <3> QED
      BY <2>1, <2>2, <3>1
  <2>5. /\ ~shifted.collides /\ shifted.rows \in [Entries -> EntryRows] /\ InList(shifted.rows) = S
        /\ \A k \in S : shifted.rows[k].at = IF entry[k].at >= p THEN entry[k].at + 1 ELSE entry[k].at
        /\ \A k \in Entries \ S : shifted.rows[k] = entry[k]
    <3> HIDE DEF shifted, p
    <3>1. shifted = Library!ShiftPositions(entry, p, 1) /\ p \in Nat /\ 1 \in {1, -1} /\ 1 # -1
      BY <2>3 DEF shifted
    <3> QED
      BY <2>2, <2>4, <3>1, ShiftsApart
  <2> HIDE DEF shifted
  <2>6. \A k \in Entries : shifted.rows[k].at # p
    <3>1. ASSUME NEW k \in Entries, shifted.rows[k].at = p PROVE FALSE
      <4>1. p # None
        BY <2>3, LibraryAssumption
      <4>2. CASE k \in S
        BY <2>2, <2>3, <2>5, <3>1, <4>2
      <4>3. CASE k \notin S
        BY <2>5, <3>1, <4>1, <4>3 DEF InList
      <4> QED
        BY <4>2, <4>3
    <3> QED
      BY <3>1
  <2>7. ~clash
    BY <2>5, <2>6
  <2>8. line \in EntryRows /\ line.at = p /\ p # None
    BY <2>3, LibraryAssumption DEF EntryRows
  <2> HIDE DEF line, p
  <2>9. /\ rows \in [Entries -> EntryRows] /\ rows[e].at = p
        /\ \A k \in Entries \ {e} : rows[k] = shifted.rows[k]
    BY <2>3, <2>5, <2>8
  <2> HIDE DEF rows, e, clash
  <2>10. InList(rows) = S \union {e}
    <3>1. \A k \in Entries : k \in InList(rows) <=> k \in S \union {e}
      BY <2>3, <2>5, <2>8, <2>9 DEF InList
    <3>2. InList(rows) \subseteq Entries
      BY DEF InList
    <3> QED
      BY <2>2, <2>3, <3>1, <3>2
  <2>11. \A k \in S : k # e /\ rows[k].at = (IF entry[k].at >= p THEN entry[k].at + 1 ELSE entry[k].at)
                      /\ key[k] = 2 * entry[k].at
    BY <2>2, <2>3, <2>5, <2>9 DEF PlacesWith
  <2>12. key[e] = 2 * p - 1
    BY DEF PlacesWith
  <2> HIDE DEF key, S
  <2>13. \A k \in S \union {e} : rows[k].at < edits + 1
    BY <2>2, <2>3, <2>9, <2>11
  <2>14. ASSUME NEW k \in S \union {e}, NEW f \in S \union {e}, key[k] < key[f]
         PROVE  rows[k].at < rows[f].at
    <3>1. CASE k \in S /\ f \in S
      BY <2>2, <2>3, <2>11, <2>14, <3>1
    <3>2. CASE k = e /\ f \in S
      BY <2>2, <2>3, <2>9, <2>11, <2>12, <2>14, <3>2
    <3>3. CASE k \in S /\ f = e
      BY <2>2, <2>3, <2>9, <2>11, <2>12, <2>14, <3>3
    <3>4. CASE k = e /\ f = e
      BY <2>3, <2>12, <2>14, <3>4
    <3> QED
      BY <3>1, <3>2, <3>3, <3>4
  <2>15. RowsFit(rows, x.wanted, edits + 1)
    <3>1. edits + 1 \in Nat
      BY <2>2
    <3> QED
      BY <2>3, <2>9, <2>10, <2>13, <2>14, <3>1, RowsFitWanted
  <2>16. collided' = FALSE /\ RowsFit(entry', intended', edits')
    BY <2>1, <2>7, <2>15 DEF LibInv
  <2> QED
    BY <2>1, <2>2, <2>16, EndStep
<1> QED
  BY <1>1, <1>2, <1>3

LEMMA CommitRemoveStep ==
    ASSUME LibInv, NEW d \in Devices, Library!CommitRemove(d)
    PROVE  LibInv'
<1> DEFINE x == device[d]
           S == InList(entry)
           e == x.entry
           p == x.at
           left == [entry EXCEPT ![e] = Library!Absent]
           T == S \ {e}
           shifted == Library!ShiftPositions(left, p + 1, -1)
<1>1. x.phase = "locked" /\ x.op = "remove" /\ Library!Ends(d, shifted.rows, shifted.collides)
  BY Zenon DEF Library!CommitRemove
<1>2. /\ edits < MaxEdits /\ edits' = edits + 1 /\ entry' = shifted.rows /\ collided' = (collided \/ shifted.collides)
      /\ version' = version + 1 /\ intended' = x.wanted
      /\ device' = [device EXCEPT ![d] = Library!Nothing] /\ UNCHANGED <<track, Library!Others>>
  BY <1>1, Zenon DEF Library!Ends, Library!Edited
<1>3. /\ version > 0 /\ \A other \in Devices \ {d} : device[other].phase # "locked"
      /\ EditFits(x, entry, edits) /\ x \in DeviceRecords
      /\ entry \in [Entries -> EntryRows] /\ S \subseteq Entries /\ edits \in Nat
      /\ \A k \in S : entry[k].at \in Nat /\ entry[k].at < edits /\ Places(entry)[k] = entry[k].at
      /\ \A k, f \in S : k # f => entry[k].at # entry[f].at
  BY <1>1, LockHeld
<1>4. /\ e \in Entries /\ p \in Nat /\ (\A k \in S : k = e <=> entry[k].at = p)
      /\ Ordered(x.wanted, T, Places(entry))
  BY <1>1, <1>3 DEF EditFits, DeviceRecords
<1> HIDE DEF p, e
<1>5. /\ left \in [Entries -> EntryRows] /\ left[e].at = None /\ \A k \in Entries \ {e} : left[k] = entry[k]
  BY <1>3, <1>4 DEF Library!Absent, EntryRows
<1> HIDE DEF left
<1>6. InList(left) = T /\ \A k \in T : left[k] = entry[k]
  <2>1. \A k \in Entries : k \in InList(left) <=> k \in T
    BY <1>4, <1>5 DEF InList
  <2>2. InList(left) \subseteq Entries
    BY DEF InList
  <2> QED
    BY <1>3, <1>5, <2>1, <2>2
<1>7. \A k \in T : left[k].at + 1 < PositionShift /\ left[k].at \in Nat /\ left[k].at # p
  <2>1. MaxEdits \in Nat /\ PositionShift \in Nat /\ MaxEdits <= PositionShift
    BY LibraryAssumption
  <2> QED
    BY <1>2, <1>3, <1>4, <1>6, <2>1
<1> HIDE DEF T
<1>8. /\ ~shifted.collides /\ shifted.rows \in [Entries -> EntryRows] /\ InList(shifted.rows) = T
      /\ \A k \in T : shifted.rows[k].at = IF left[k].at >= p + 1 THEN left[k].at + -1 ELSE left[k].at
  <2> HIDE DEF shifted
  <2>1. /\ shifted = Library!ShiftPositions(left, p + 1, -1) /\ p + 1 \in Nat /\ p + 1 > 0 /\ (p + 1) - 1 = p
        /\ -1 \in {1, -1}
    BY <1>4 DEF shifted
  <2>2. \A k, f \in T : k # f => left[k].at # left[f].at
    BY <1>3, <1>6 DEF T
  <2> QED
    BY <1>5, <1>6, <1>7, <2>1, <2>2, ShiftsApart
<1> HIDE DEF shifted
<1>9. T \subseteq S /\ \A k \in T : Places(entry)[k] = left[k].at /\ left[k].at < edits
  BY <1>3, <1>6 DEF T
<1>10. \A k \in T : shifted.rows[k].at < edits + 1
  BY <1>3, <1>7, <1>8, <1>9
<1>11. \A k, f \in T : Places(entry)[k] < Places(entry)[f] => shifted.rows[k].at < shifted.rows[f].at
  <2> SUFFICES ASSUME NEW k \in T, NEW f \in T, left[k].at < left[f].at
               PROVE  shifted.rows[k].at < shifted.rows[f].at
    BY <1>9
  <2>1. left[k].at \in Nat /\ left[f].at \in Nat /\ left[k].at # p /\ left[f].at # p
    BY <1>7
  <2> QED
    BY <1>4, <1>8, <2>1
<1>12. RowsFit(shifted.rows, x.wanted, edits + 1)
  <2>1. edits + 1 \in Nat
    BY <1>3
  <2> QED
    BY <1>4, <1>8, <1>10, <1>11, <2>1, RowsFitWanted
<1>13. collided' = FALSE /\ RowsFit(entry', intended', edits')
  BY <1>2, <1>8, <1>12 DEF LibInv
<1> QED
  BY <1>2, <1>3, <1>13, EndStep

LEMMA CommitReorderStep ==
    ASSUME LibInv, NEW d \in Devices, Library!CommitReorder(d)
    PROVE  LibInv'
<1> DEFINE x == device[d]
           S == InList(entry)
           shifted == Library!Moved(entry, S, PositionShift)
           rows == [e \in Entries |-> IF e \in S
                       THEN [shifted[e] EXCEPT !.at = Library!PositionIn(x.order, e) - 1] ELSE shifted[e]]
           clash == Library!Collides(entry, S, PositionShift)
           key == PlacesIn(x.order)
<1>1. x.phase = "locked" /\ x.op = "reorder" /\ Library!Ends(d, rows, clash)
  BY InListIs, Zenon DEF Library!CommitReorder
<1>2. /\ edits < MaxEdits /\ edits' = edits + 1 /\ entry' = rows /\ collided' = (collided \/ clash)
      /\ version' = version + 1 /\ intended' = x.wanted
      /\ device' = [device EXCEPT ![d] = Library!Nothing] /\ UNCHANGED <<track, Library!Others>>
  BY <1>1, Zenon DEF Library!Ends, Library!Edited
<1>3. /\ version > 0 /\ \A other \in Devices \ {d} : device[other].phase # "locked"
      /\ EditFits(x, entry, edits) /\ x \in DeviceRecords
      /\ entry \in [Entries -> EntryRows] /\ S \subseteq Entries /\ edits \in Nat
      /\ \A k \in S : entry[k].at \in Nat /\ entry[k].at < edits
  BY <1>1, LockHeld
<1>4. /\ x.order \in Seq(Entries) /\ Len(x.order) <= edits /\ Follows(x.order, S, key)
      /\ Ordered(x.wanted, S, key)
  BY <1>1, <1>3 DEF EditFits, DeviceRecords
<1>5. /\ Len(x.order) \in Nat /\ Library!ToSet(x.order) = {x.order[i] : i \in 1..Len(x.order)}
      /\ \A e \in Library!ToSet(x.order) : Library!PositionIn(x.order, e) \in 1..Len(x.order)
                                           /\ key[e] = Library!PositionIn(x.order, e)
  BY <1>4, PlacesAre
<1>6. S \subseteq Library!ToSet(x.order)
  <2>1. \A e \in S : \E i \in 1..Len(x.order) : x.order[i] = e
    BY <1>4, Zenon DEF Follows
  <2> QED
    BY <1>5, <2>1
<1>7. MaxEdits \in Nat /\ PositionShift \in Nat /\ MaxEdits <= PositionShift /\ None \notin Nat
  BY LibraryAssumption
<1>8. ~clash
  <2> SUFFICES ASSUME NEW e \in S, NEW f \in Entries \ {e}, entry[f].at # None,
                      entry[e].at + PositionShift = entry[f].at
               PROVE  FALSE
    BY DEF Library!Collides
  <2>1. f \in S
    BY DEF InList
  <2> QED
    BY <1>2, <1>3, <1>7, <2>1
<1> HIDE DEF clash
<1>9. \A e \in S : shifted[e] \in [track : Tracks \union {None}, at : Int] /\ shifted[e].track = entry[e].track
  <2>1. \A e \in S : shifted[e] = [entry[e] EXCEPT !.at = entry[e].at + PositionShift]
    BY <1>3 DEF Library!Moved
  <2>2. \A e \in S : entry[e] \in EntryRows /\ entry[e].at + PositionShift \in Int
    BY <1>3, <1>7
  <2> HIDE DEF shifted
  <2> QED
    BY <2>1, <2>2 DEF EntryRows
<1>10. \A e \in Entries \ S : shifted[e] = entry[e]
  BY DEF Library!Moved
<1> HIDE DEF shifted
<1>11. ASSUME NEW e \in S
       PROVE  /\ rows[e] \in EntryRows /\ rows[e].at \in Nat /\ rows[e].at = key[e] - 1
              /\ rows[e].at < edits + 1
  <2>1. Library!PositionIn(x.order, e) - 1 \in Nat /\ key[e] = Library!PositionIn(x.order, e)
        /\ Library!PositionIn(x.order, e) - 1 < edits + 1
    BY <1>3, <1>4, <1>5, <1>6
  <2>2. rows[e] = [shifted[e] EXCEPT !.at = Library!PositionIn(x.order, e) - 1]
    BY <1>3
  <2> HIDE DEF rows
  <2> QED
    BY <1>9, <2>1, <2>2 DEF EntryRows
<1>12. \A e \in Entries \ S : rows[e] = entry[e]
  BY <1>10
<1>13. rows \in [Entries -> EntryRows] /\ InList(rows) = S
  <2>1. DOMAIN rows = Entries /\ rows = [e \in Entries |-> rows[e]]
    OBVIOUS
  <2> HIDE DEF rows
  <2>2. \A e \in Entries : rows[e] \in EntryRows
    BY <1>3, <1>11, <1>12
  <2>3. \A e \in Entries : e \in InList(rows) <=> e \in S
    BY <1>3, <1>7, <1>11, <1>12 DEF InList
  <2>4. InList(rows) \subseteq Entries
    BY DEF InList
  <2> QED
    BY <1>3, <2>1, <2>2, <2>3, <2>4
<1> HIDE DEF rows
<1>14. \A e, f \in S : key[e] < key[f] => rows[e].at < rows[f].at
  BY <1>5, <1>6, <1>11
<1>15. RowsFit(rows, x.wanted, edits + 1)
  <2>1. edits + 1 \in Nat /\ \A e \in S : rows[e].at < edits + 1
    BY <1>3, <1>11
  <2> HIDE DEF key, S
  <2> QED
    BY <1>4, <1>13, <1>14, <2>1, RowsFitWanted
<1>16. collided' = FALSE /\ RowsFit(entry', intended', edits')
  BY <1>2, <1>8, <1>15 DEF LibInv
<1> QED
  BY <1>2, <1>3, <1>16, EndStep

LEMMA VersionStep ==
    ASSUME LibInv, NEW d \in Devices, Library!Update(d) \/ Library!DeletePlaylist(d)
    PROVE  LibInv'
<1>1. /\ version > 0 /\ \A other \in Devices : device[other].phase # "locked"
      /\ edits < MaxEdits /\ edits' = edits + 1 /\ device' = [device EXCEPT ![d] = Library!Nothing]
      /\ UNCHANGED <<track, collided, Library!Others>>
  BY DEF Library!Update, Library!UpdatePlaylist, Library!DeletePlaylist, Library!Lock, Library!Edited
<1>2. RowsFit(entry, intended, edits) /\ edits \in Nat /\ collided = FALSE
  BY LibraryAssumption DEF LibInv
<1>3. CASE Library!Update(d)
  <2>1. version' = version + 1 /\ UNCHANGED <<entry, intended>>
    BY <1>3 DEF Library!Update, Library!UpdatePlaylist
  <2>2. RowsFit(entry, intended, edits + 1)
    BY <1>2, RowsShaped DEF RowsFit
  <2>3. RowsFit(entry', intended', edits')
    BY <1>1, <2>1, <2>2
  <2> QED
    BY <1>1, <1>2, <2>1, <2>3, EndStep
<1>4. CASE Library!DeletePlaylist(d)
  <2>1. version' = 0 /\ entry' = [e \in Entries |-> Library!Absent] /\ intended' = <<>>
    BY <1>4 DEF Library!DeletePlaylist
  <2>2. entry' \in [Entries -> EntryRows] /\ \A e \in Entries : entry'[e].at = None
    BY <2>1 DEF Library!Absent, EntryRows
  <2>3. InList(entry') = {}
    BY <2>2 DEF InList
  <2>4. RowsFit(entry', intended', edits')
    BY <2>1, <2>2, <2>3, NoneOrdered DEF RowsFit
  <2> QED
    BY <1>1, <1>2, <2>1, <2>4, EndStep
<1> QED
  BY <1>3, <1>4

LEMMA SameKeys ==
    ASSUME NEW S, NEW list, NEW key, NEW other, Ordered(list, S, key), \A e \in S : other[e] = key[e]
    PROVE  Ordered(list, S, other)
<1>1. \A e \in S : key[e] \in Int
  BY DEF Ordered
<1> QED
  BY <1>1, OtherKeys

\* An edit under way goes on without the entries of a deleted track.
LEMMA EditGoesOn ==
    ASSUME NEW rows \in [Entries -> EntryRows], NEW less \in [Entries -> EntryRows], NEW D,
           D \subseteq InList(rows), InList(less) = InList(rows) \ D,
           \A e \in InList(less) : less[e] = rows[e],
           NEW x \in DeviceRecords, NEW y \in DeviceRecords, NEW n \in Nat, EditFits(x, rows, n),
           y = [x EXCEPT !.wanted = Library!Keep(x.wanted, Entries \ D)]
    PROVE  EditFits(y, less, n + 1)
<1> DEFINE S == InList(rows)
           R == InList(less)
           remaining == Library!Keep(x.wanted, Entries \ D)
<1>1. /\ y.op = x.op /\ y.entry = x.entry /\ y.track = x.track /\ y.at = x.at /\ y.order = x.order
      /\ y.wanted = remaining
  BY DEF DeviceRecords
<1>2. /\ S \subseteq Entries /\ R \subseteq S /\ S \intersect (Entries \ D) = R
      /\ \A e \in S : rows[e].at \in Nat /\ Places(rows)[e] = rows[e].at
      /\ \A e \in R : less[e].at = rows[e].at /\ Places(less)[e] = less[e].at
  BY RowsShaped
<1>3. IsFiniteSet(Entries) /\ x.at \in Nat
  BY LibraryAssumption DEF DeviceRecords
<1>4. CASE x.op = "add"
  <2>1. /\ x.entry \in Entries \ S /\ x.track \in Tracks /\ x.at <= n
        /\ Ordered(x.wanted, S \union {x.entry}, PlacesWith(rows, x.entry, x.at))
    BY <1>4 DEF EditFits
  <2>2. S \union {x.entry} \subseteq Entries /\ (S \union {x.entry}) \intersect (Entries \ D) = R \union {x.entry}
    BY <1>2, <2>1
  <2>3. Ordered(remaining, R \union {x.entry}, PlacesWith(rows, x.entry, x.at))
    <3>1. Ordered(remaining, (S \union {x.entry}) \intersect (Entries \ D), PlacesWith(rows, x.entry, x.at))
      BY <1>3, <2>1, <2>2, KeptOf
    <3> QED
      BY <2>2, <3>1
  <2>4. \A k \in R \union {x.entry} :
           PlacesWith(less, x.entry, x.at)[k] = PlacesWith(rows, x.entry, x.at)[k]
    BY <1>2 DEF PlacesWith
  <2>5. Ordered(remaining, R \union {x.entry}, PlacesWith(less, x.entry, x.at))
    BY <2>3, <2>4, SameKeys
  <2>6. x.at <= n + 1
    BY <1>3, <2>1
  <2> QED
    BY <1>1, <1>2, <1>4, <2>1, <2>5, <2>6 DEF EditFits
<1>5. CASE x.op = "remove"
  <2>1. /\ x.entry \in Entries /\ \A e \in S : e = x.entry <=> rows[e].at = x.at
        /\ Ordered(x.wanted, S \ {x.entry}, Places(rows))
    BY <1>5 DEF EditFits
  <2>2. S \ {x.entry} \subseteq Entries /\ (S \ {x.entry}) \intersect (Entries \ D) = R \ {x.entry}
    BY <1>2
  <2>3. Ordered(remaining, R \ {x.entry}, Places(rows))
    <3>1. Ordered(remaining, (S \ {x.entry}) \intersect (Entries \ D), Places(rows))
      BY <1>3, <2>1, <2>2, KeptOf
    <3> QED
      BY <2>2, <3>1
  <2>4. \A k \in R \ {x.entry} : Places(less)[k] = Places(rows)[k]
    BY <1>2
  <2>5. Ordered(remaining, R \ {x.entry}, Places(less))
    BY <2>3, <2>4, SameKeys
  <2>6. \A e \in R : e = x.entry <=> less[e].at = x.at
    BY <1>2, <2>1
  <2> QED
    BY <1>1, <1>5, <2>1, <2>5, <2>6 DEF EditFits
<1>6. CASE x.op = "reorder"
  <2>1. /\ Len(x.order) <= n /\ Follows(x.order, S, PlacesIn(x.order))
        /\ Ordered(x.wanted, S, PlacesIn(x.order))
    BY <1>6 DEF EditFits
  <2>2. Ordered(remaining, R, PlacesIn(x.order))
    <3>1. Ordered(remaining, S \intersect (Entries \ D), PlacesIn(x.order))
      BY <1>2, <1>3, <2>1, KeptOf
    <3> QED
      BY <1>2, <3>1
  <2>3. Follows(x.order, R, PlacesIn(x.order))
    BY <1>2, <2>1, FollowsFewer
  <2>4. Len(x.order) <= n + 1
    <3>1. x.order \in Seq(Entries)
      BY DEF DeviceRecords
    <3>2. Len(x.order) \in Nat
      BY <3>1, LenProperties
    <3> QED
      BY <2>1, <3>2
  <2> QED
    BY <1>1, <1>6, <2>2, <2>3, <2>4 DEF EditFits
<1> QED
  BY <1>4, <1>5, <1>6 DEF EditFits

LEMMA DeleteTrackStep ==
    ASSUME LibInv, NEW f \in Tracks, Library!DeleteTrack(f)
    PROVE  LibInv'
<1> DEFINE D == Library!Holds(f)
           S == InList(entry)
           less == [e \in Entries |-> IF entry[e].track = f THEN Library!Absent ELSE entry[e]]
           gone(x) == [x EXCEPT !.wanted = Library!Keep(x.wanted, Entries \ D)]
<1>1. /\ edits < MaxEdits /\ edits' = edits + 1 /\ track' = track \ {f} /\ favorite' = favorite \ {f}
      /\ entry' = less /\ intended' = Library!Keep(intended, Entries \ D)
      /\ device' = [d \in Devices |-> gone(device[d])] /\ UNCHANGED <<version, collided>>
  BY DEF Library!DeleteTrack, Library!Edited
<1>2. /\ entry \in [Entries -> EntryRows] /\ (\A e \in S : entry[e].at < edits)
      /\ Ordered(intended, S, Places(entry)) /\ edits \in Nat /\ version \in Nat
      /\ device \in [Devices -> DeviceRecords] /\ IsFiniteSet(Entries) /\ None \notin Nat
      /\ \A d \in Devices : DeviceFits(device[d], entry, version, edits)
  BY LibraryAssumption DEF LibInv, RowsFit
<1>3. D \subseteq S /\ \A e \in Entries : e \in D <=> e \in S /\ entry[e].track = f
  BY InListIs DEF Library!Holds, InList
<1>4. less \in [Entries -> EntryRows] /\ \A e \in Entries : less[e] = IF entry[e].track = f THEN Library!Absent
                                                                                       ELSE entry[e]
  BY <1>2 DEF Library!Absent, EntryRows
<1> HIDE DEF less
<1>5. InList(less) = S \ D /\ \A e \in InList(less) : less[e] = entry[e]
  <2>1. \A e \in Entries : e \in InList(less) <=> e \in S /\ e \notin D
    BY <1>3, <1>4 DEF InList, Library!Absent
  <2>2. InList(less) \subseteq Entries /\ S \subseteq Entries
    BY DEF InList
  <2> QED
    BY <1>3, <1>4, <2>1, <2>2
<1> HIDE DEF D
<1>6. /\ S \subseteq Entries /\ S \intersect (Entries \ D) = InList(less)
      /\ \A e \in S : entry[e].at \in Nat /\ Places(entry)[e] = entry[e].at
  BY <1>2, <1>3, <1>5, RowsShaped
<1>7. RowsFit(less, Library!Keep(intended, Entries \ D), edits + 1)
  <2>1. Ordered(Library!Keep(intended, Entries \ D), InList(less), Places(entry))
    <3>1. Ordered(Library!Keep(intended, Entries \ D), S \intersect (Entries \ D), Places(entry))
      BY <1>2, <1>6, KeptOf
    <3> QED
      BY <1>6, <3>1
  <2>2. \A e \in InList(less) : less[e].at < edits + 1
    BY <1>2, <1>5, <1>6
  <2>3. \A e, k \in InList(less) : Places(entry)[e] < Places(entry)[k] => less[e].at < less[k].at
    BY <1>5, <1>6
  <2>4. edits + 1 \in Nat
    BY <1>2
  <2> QED
    BY <1>4, <2>1, <2>2, <2>3, <2>4, RowsFitWanted
<1>8. ASSUME NEW x \in DeviceRecords
      PROVE  gone(x) \in DeviceRecords /\ gone(x).phase = x.phase /\ gone(x).version = x.version /\ gone(x).seen = x.seen
  <2>1. x.wanted \in Seq(Entries)
    BY DEF DeviceRecords
  <2>2. Library!Keep(x.wanted, Entries \ D) \in Seq(Entries)
    BY <1>2, <2>1, KeptInPlace
  <2> QED
    BY <2>2 DEF DeviceRecords
<1>9. ASSUME NEW d \in Devices
      PROVE  DeviceFits(gone(device[d]), less, version, edits + 1)
  <2> DEFINE x == device[d]
  <2>1. x \in DeviceRecords /\ DeviceFits(x, entry, version, edits)
    BY <1>2
  <2>2. gone(x) \in DeviceRecords /\ gone(x).phase = x.phase /\ gone(x).version = x.version /\ gone(x).seen = x.seen
    BY <1>8, <2>1
  <2>3. gone(x) = [x EXCEPT !.wanted = Library!Keep(x.wanted, Entries \ D)]
    OBVIOUS
  <2> HIDE DEF gone
  <2>4. ASSUME x.phase = "looked", x.version = version
        PROVE  Follows(x.seen, InList(less), Places(less))
    <3>1. Follows(x.seen, S, Places(entry))
      BY <2>1, <2>4 DEF DeviceFits
    <3>2. Follows(x.seen, InList(less), Places(entry))
      BY <1>5, <3>1, FollowsFewer
    <3>3. \A e \in InList(less) : Places(less)[e] = Places(entry)[e]
      BY <1>4, <1>5, <1>6, RowsShaped
    <3> QED
      BY <3>2, <3>3, FollowsOtherKeys
  <2>5. ASSUME x.phase = "locked"
        PROVE  EditFits(gone(x), less, edits + 1)
    <3>1. EditFits(x, entry, edits)
      BY <2>1, <2>5 DEF DeviceFits
    <3> QED
      BY <1>2, <1>3, <1>4, <1>5, <2>1, <2>2, <2>3, <3>1, EditGoesOn
  <2> QED
    BY <2>1, <2>2, <2>4, <2>5 DEF DeviceFits
<1>10. /\ device' \in [Devices -> DeviceRecords]
       /\ \A d \in Devices : device'[d] = gone(device[d]) /\ device'[d].phase = device[d].phase
  BY <1>1, <1>2, <1>8
<1> HIDE DEF gone
<1>11. RowsFit(entry', intended', edits') /\ \A d \in Devices : DeviceFits(device'[d], entry', version', edits')
  BY <1>1, <1>7, <1>9, <1>10
<1>12. /\ track' \subseteq Tracks /\ favorite' \subseteq Tracks /\ edits' \in 0..MaxEdits /\ version' \in 0..edits' + 1
       /\ collided' = FALSE
       /\ \A d, other \in Devices : device'[d].phase = "locked" /\ device'[other].phase = "locked" => d = other
  BY <1>1, <1>2, <1>10, LibraryAssumption DEF LibInv
<1>13. RowsFit(entry, intended, edits)' /\ \A d \in Devices : DeviceFits(device[d], entry, version, edits)'
  BY <1>11
<1> QED
  BY <1>10, <1>12, <1>13 DEF LibInv

LEMMA HistoryStep ==
    ASSUME HistoryInv, NEW event \in Events, Library!RecordPlayback(event)
    PROVE  HistoryInv'
<1>1. /\ heard' = heard \union {event}
      /\ history' = IF history.at <= event.at
                    THEN [at |-> event.at, session |-> event.session, kind |-> event.kind,
                          count |-> history.count +
                              IF event.kind = "STARTED" /\ history.session # event.session THEN 1 ELSE 0]
                    ELSE history
  BY DEF Library!RecordPlayback, Library!UpsertPlayback, Library!NotOlder
<1>2. /\ heard \subseteq Events /\ event.at \in Nat /\ history.at \in Nat /\ history.count \in Nat
      /\ \A e \in heard : e.at \in Nat /\ e.at <= history.at
  BY LibraryAssumption DEF HistoryInv
<1>3. CASE history.at <= event.at
  <2>1. history'.at = event.at /\ history'.kind = event.kind /\ history'.count \in Nat
    BY <1>1, <1>2, <1>3
  <2>2. \A e \in heard' : e.at <= history'.at
    BY <1>1, <1>2, <1>3, <2>1
  <2>3. event \in heard' /\ heard' \subseteq Events
    BY <1>1, <1>2
  <2> QED
    BY <1>2, <2>1, <2>2, <2>3 DEF HistoryInv
<1>4. CASE ~(history.at <= event.at)
  <2>1. history' = history /\ event.at <= history.at /\ history.at # 0
    BY <1>1, <1>2, <1>4
  <2>2. PICK latest \in heard : latest.at = history.at /\ latest.kind = history.kind
    BY <2>1 DEF HistoryInv
  <2>3. \A e \in heard' : e.at <= history'.at
    BY <1>1, <1>2, <2>1
  <2> QED
    BY <1>1, <1>2, <2>1, <2>2, <2>3 DEF HistoryInv
<1> QED
  BY <1>3, <1>4

LEMMA EditStep ==
    ASSUME LibInv, NEW d \in Devices, Library!Edit(d)
    PROVE  LibInv'
<1>1. CASE \E e \in Entries, f \in Tracks, after \in Entries \union {None} : Library!AddTrack(d, e, f, after)
  BY <1>1, AddStep
<1>2. CASE \E e \in Entries : Library!RemoveTrack(d, e)
  BY <1>2, RemoveStep
<1>3. CASE \E order \in Library!SetToSeqs(Library!Listed) : Library!Reorder(d, order)
  BY <1>3, ReorderStep
<1>4. CASE Library!RollBack(d)
  BY <1>4, BackToIdle DEF Library!RollBack, Library!Aborts
<1>5. CASE Library!CommitAdd(d) \/ Library!CommitRemove(d) \/ Library!CommitReorder(d)
  BY <1>5, CommitAddStep, CommitRemoveStep, CommitReorderStep
<1>6. CASE Library!Get(d) \/ Library!Update(d) \/ Library!DeletePlaylist(d)
  BY <1>6, GetStep, VersionStep
<1> QED
  BY <1>1, <1>2, <1>3, <1>4, <1>5, <1>6 DEF Library!Edit

LEMMA EditKeepsHistory ==
    ASSUME NEW d \in Devices, Library!Edit(d)
    PROVE  UNCHANGED <<history, heard>>
<1>1. CASE \E e \in Entries, f \in Tracks, after \in Entries \union {None} : Library!AddTrack(d, e, f, after)
  BY <1>1 DEF Library!AddTrack, Library!Others
<1>2. CASE \E e \in Entries : Library!RemoveTrack(d, e)
  BY <1>2 DEF Library!RemoveTrack, Library!Others
<1>3. CASE \E order \in Library!SetToSeqs(Library!Listed) : Library!Reorder(d, order)
  BY <1>3 DEF Library!Reorder, Library!Others
<1>4. CASE Library!RollBack(d)
  BY <1>4 DEF Library!RollBack, Library!Aborts, Library!Others
<1>5. CASE Library!CommitAdd(d)
  BY <1>5, Zenon DEF Library!CommitAdd, Library!Ends, Library!Aborts, Library!Others
<1>6. CASE Library!CommitRemove(d)
  BY <1>6, Zenon DEF Library!CommitRemove, Library!Ends, Library!Others
<1>7. CASE Library!CommitReorder(d)
  BY <1>7, Zenon DEF Library!CommitReorder, Library!Ends, Library!Others
<1>8. CASE Library!Get(d) \/ Library!Update(d) \/ Library!DeletePlaylist(d)
  BY <1>8 DEF Library!Get, Library!Update, Library!UpdatePlaylist, Library!DeletePlaylist, Library!Others
<1> QED
  BY <1>1, <1>2, <1>3, <1>4, <1>5, <1>6, <1>7, <1>8 DEF Library!Edit

LEMMA LibraryStay ==
    ASSUME LibInv, HistoryInv, UNCHANGED libraryVars
    PROVE  LibInv' /\ HistoryInv'
<1>1. UNCHANGED <<track, entry, version, intended, device, collided, favorite, history, heard, edits>>
  BY DEF libraryVars
<1>2. RowsFit(entry, intended, edits)' /\ \A d \in Devices : DeviceFits(device[d], entry, version, edits)'
  BY <1>1 DEF LibInv
<1> QED
  BY <1>1, <1>2 DEF LibInv, HistoryInv

LEMMA LibraryStep ==
    ASSUME LibInv, HistoryInv, Library!Next
    PROVE  LibInv' /\ HistoryInv'
<1>1. CASE \E d \in Devices : Library!Edit(d)
  BY <1>1, EditStep, EditKeepsHistory DEF HistoryInv
<1>2. CASE \E f \in Tracks : Library!DeleteTrack(f)
  <2>1. PICK f \in Tracks : Library!DeleteTrack(f)
    BY <1>2
  <2>2. UNCHANGED <<history, heard>>
    BY <2>1 DEF Library!DeleteTrack
  <2> QED
    BY <2>1, <2>2, DeleteTrackStep DEF HistoryInv
<1>3. CASE \E d \in Devices : Library!FavoriteRead(d)
  <2>1. PICK d \in Devices : Library!FavoriteRead(d)
    BY <1>3
  <2>2. UNCHANGED <<history, heard>>
    BY <2>1 DEF Library!FavoriteRead, Library!Others
  <2>3. LibInv'
    BY <2>1, BackToIdle DEF Library!FavoriteRead
  <2> QED
    BY <2>2, <2>3 DEF HistoryInv
<1>4. CASE \E d \in Devices : \E f \in Tracks : Library!AddFavorite(d, f)
  <2>1. PICK d \in Devices, f \in Tracks : Library!AddFavorite(d, f)
    BY <1>4
  <2>2. UNCHANGED <<history, heard>>
    BY <2>1 DEF Library!AddFavorite
  <2> QED
    BY <2>1, <2>2, FavoriteStep DEF HistoryInv
<1>5. CASE \E f \in Tracks : Library!RemoveFavorite(f)
  <2>1. PICK f \in Tracks : Library!RemoveFavorite(f)
    BY <1>5
  <2>2. /\ UNCHANGED <<track, entry, version, intended, collided, device, history, heard, edits>>
        /\ favorite' = favorite \ {f}
    BY <2>1 DEF Library!RemoveFavorite, Library!Playlist
  <2>3. RowsFit(entry, intended, edits)' /\ \A d \in Devices : DeviceFits(device[d], entry, version, edits)'
    BY <2>2 DEF LibInv
  <2> QED
    BY <2>2, <2>3 DEF LibInv, HistoryInv
<1>6. CASE \E event \in Events : Library!RecordPlayback(event)
  <2>1. PICK event \in Events : Library!RecordPlayback(event)
    BY <1>6
  <2>2. UNCHANGED <<track, entry, version, intended, collided, device, favorite, edits>>
    BY <2>1 DEF Library!RecordPlayback, Library!UpsertPlayback, Library!Playlist
  <2>3. RowsFit(entry, intended, edits)' /\ \A d \in Devices : DeviceFits(device[d], entry, version, edits)'
    BY <2>2 DEF LibInv
  <2>4. LibInv'
    BY <2>2, <2>3 DEF LibInv
  <2> QED
    BY <2>1, <2>4, HistoryStep
<1>7. Library!Listening => \/ \E d \in Devices : Library!FavoriteRead(d)
                           \/ \E d \in Devices : \E f \in Tracks : Library!AddFavorite(d, f)
                           \/ \E f \in Tracks : Library!RemoveFavorite(f)
                           \/ \E event \in Events : Library!RecordPlayback(event)
  BY Zenon DEF Library!Listening
<1> QED
  BY <1>1, <1>2, <1>3, <1>4, <1>5, <1>6, <1>7 DEF Library!Next, Library!Editing

LEMMA LibraryInit == ASSUME Library!Init PROVE LibInv /\ HistoryInv
<1>1. /\ track = Tracks /\ favorite = {} /\ entry = [e \in Entries |-> Library!Absent] /\ version = 1
      /\ intended = <<>> /\ collided = FALSE /\ device = [d \in Devices |-> Library!Nothing]
      /\ history = Library!Unplayed /\ heard = {} /\ edits = 0
  BY DEF Library!Init
<1>2. entry \in [Entries -> EntryRows] /\ InList(entry) = {}
  BY <1>1 DEF Library!Absent, EntryRows, InList
<1>3. RowsFit(entry, intended, edits)
  BY <1>1, <1>2, NoneOrdered DEF RowsFit
<1>4. /\ device \in [Devices -> DeviceRecords]
      /\ \A d \in Devices : device[d].phase = "none" /\ DeviceFits(device[d], entry, version, edits)
  BY <1>1, IdleDevice
<1>5. edits \in 0..MaxEdits /\ version \in 0..edits + 1
  BY <1>1, LibraryAssumption
<1>6. LibInv
  BY <1>1, <1>3, <1>4, <1>5 DEF LibInv
<1>7. HistoryInv
  BY <1>1 DEF HistoryInv, Library!Unplayed
<1> QED
  BY <1>6, <1>7

LEMMA LibraryHolds ==
    ASSUME LibInv, HistoryInv
    PROVE  PlaylistAsIntended /\ LatestEventShown /\ Library!TypeOK
<1>1. collided = FALSE /\ RowsFit(entry, intended, edits)
  BY DEF LibInv
<1>2. PlaylistAsIntended
  BY <1>1, ListIsIntended DEF PlaylistAsIntended, Library!PlaylistAsIntended
<1>3. LatestEventShown
  BY DEF LatestEventShown, Library!LatestEventShown, HistoryInv
<1>4. intended \in Seq(Entries) /\ entry \in [Entries -> EntryRows]
  <2>1. entry \in [Entries -> EntryRows] /\ Ordered(intended, InList(entry), Places(entry))
    BY <1>1 DEF RowsFit
  <2>2. InList(entry) \subseteq Entries
    BY DEF InList
  <2> QED
    BY <2>1, <2>2 DEF Ordered
<1>5. /\ edits \in 0..MaxEdits /\ version \in 0..MaxEdits + 1
      /\ \A d \in Devices : /\ device[d].phase \in Library!Phases /\ device[d].op \in Library!Ops
                            /\ device[d].wanted \in Seq(Entries)
  BY LibraryAssumption DEF LibInv, DeviceRecords
<1>6. Library!TypeOK
  BY <1>1, <1>4, <1>5 DEF LibInv, HistoryInv, Library!TypeOK, EntryRows
<1> QED
  BY <1>2, <1>3, <1>6

-----------------------------------------------------------------------------
(* The parts, which share no state                                           *)

UsersInv == AccountsInv /\ SessionsInv /\ UploadsInv /\ LibInv /\ HistoryInv

usersVars == <<part, sessionVars, accountVars, uploadVars, libraryVars>>

LEMMA AccountsStay ==
    ASSUME AccountsInv, UNCHANGED accountVars PROVE AccountsInv'
BY DEF AccountsInv, accountVars
LEMMA SessionsStay ==
    ASSUME SessionsInv, UNCHANGED sessionVars PROVE SessionsInv'
BY DEF SessionsInv, SessionsTyped, sessionVars
LEMMA UploadsStay ==
    ASSUME UploadsInv, UNCHANGED uploadVars PROVE UploadsInv'
BY DEF UploadsInv, StorageTyped, uploadVars

LEMMA UsersStep ==
    ASSUME UsersInv, [MCNext]_usersVars PROVE UsersInv'
<1>1. AccountsInv /\ SessionsInv /\ UploadsInv /\ LibInv /\ HistoryInv
  BY DEF UsersInv
<1>2. CASE UNCHANGED <<sessionVars, accountVars, uploadVars, libraryVars>>
  BY <1>1, <1>2, AccountsStay, SessionsStay, UploadsStay, LibraryStay DEF UsersInv
<1>3. CASE SignIn!Next /\ UNCHANGED <<accountVars, uploadVars, libraryVars>>
  BY <1>1, <1>3, AccountsStay, SessionsStep, UploadsStay, LibraryStay DEF UsersInv
<1>4. CASE Admins!Next /\ UNCHANGED <<sessionVars, uploadVars, libraryVars>>
  BY <1>1, <1>4, AccountsStep, SessionsStay, UploadsStay, LibraryStay DEF UsersInv
<1>5. CASE Storage!Next /\ UNCHANGED <<sessionVars, accountVars, libraryVars>>
  BY <1>1, <1>5, AccountsStay, SessionsStay, StorageStep, LibraryStay DEF UsersInv
<1>6. CASE Library!Next /\ UNCHANGED <<sessionVars, accountVars, uploadVars>>
  BY <1>1, <1>6, AccountsStay, SessionsStay, UploadsStay, LibraryStep DEF UsersInv
<1> QED
  BY <1>2, <1>3, <1>4, <1>5, <1>6, Zenon DEF MCNext, UploadPictures, UploadAvatars, EditPlaylist, Listen, usersVars

LEMMA UsersHold == MCSpec => []UsersInv
<1>1. MCInit => UsersInv
  BY AccountsInit, SessionsInit, StorageInit, LibraryInit DEF MCInit, UsersInv
<1> QED
  BY <1>1, UsersStep, PTL DEF MCSpec, usersVars

(* A session has one refresh token that can be used, the last it was given,  *)
(* and a session that ended for reuse had a token presented twice or an      *)
(* answer that failed: however many requests of a user refresh, sign out,    *)
(* are repeated or crash at once.                                            *)
THEOREM RotationIsSafe == MCSpec => []RotationHolds
<1>1. UsersInv => RotationHolds
  BY SessionsInvShows DEF UsersInv, RotationHolds
<1> QED
  BY <1>1, UsersHold, PTL

(* A completed upload made one asset and no other upload any, what a target  *)
(* shows has a ready asset with its file in place, and no user has more      *)
(* uploads under way than the quota: however uploads, completions, the       *)
(* expiry and the cleaner meet, crash or lose an answer.                     *)
THEOREM UploadsAreWhole == MCSpec => []UploadsHold
<1>1. UsersInv => UploadsHold
  BY UploadsInvShows DEF UsersInv, UploadsHold
<1> QED
  BY <1>1, UsersHold, PTL

(* The update of an account that takes an administrator's access away leaves *)
(* an active administrator, however many of them are updated at once.        *)
THEOREM RemovalsLeaveAdministrator == MCSpec => RemovalLeavesAdministrator
<1>1. UsersInv /\ [MCNext]_usersVars
      => [\A c \in Callers :
            (change[c].at = "write" /\ Admins!RemovesAdministratorAccess(change[c].user, change[c].to)
             /\ change'[c] = Admins!NoChange) => Admins!ActiveAdmins' # {}]_accountVars
  <2> SUFFICES ASSUME AccountsInv, [MCNext]_usersVars, ~UNCHANGED accountVars, NEW c \in Callers,
                      change[c].at = "write",
                      Admins!RemovesAdministratorAccess(change[c].user, change[c].to),
                      change'[c] = Admins!NoChange
               PROVE  Admins!ActiveAdmins' # {}
    BY DEF UsersInv
  <2>1. Admins!Next
    BY Zenon DEF MCNext, usersVars
  <2> QED
    BY <2>1, OneIsLeft
<1> QED
  BY <1>1, UsersHold, PTL
     DEF MCSpec, usersVars, RemovalLeavesAdministrator, Admins!RemovalLeavesAdministrator,
         Admins!accountVars, accountVars

(* The playlist is in the order its owner's edits meant, each of them        *)
(* applied to the list its device had seen, and no statement can run into    *)
(* the unique index on positions: however edits of several devices and       *)
(* permanent deletions of tracks meet, with gaps in the positions or without.*)
THEOREM PlaylistKeepsItsOrder == MCSpec => []PlaylistAsIntended
<1>1. UsersInv => PlaylistAsIntended
  BY LibraryHolds DEF UsersInv
<1> QED
  BY <1>1, UsersHold, PTL

(* The history shows the latest of the playback events, in whatever order    *)
(* and however often they arrived.                                           *)
THEOREM HistoryShowsLatest == MCSpec => []LatestEventShown
<1>1. UsersInv => LatestEventShown
  BY LibraryHolds DEF UsersInv
<1> QED
  BY <1>1, UsersHold, PTL

-----------------------------------------------------------------------------
(* What is counted stays within its bounds.                                  *)

Writing == {"count", "write"}
\* A request counts once, and changes the version it saw at most once.
VersionsIn(rows, calls, n) ==
    /\ n \in 0..MaxChanges /\ \A u \in Users : rows[u].version \in 1..n + 1
    /\ \A c \in Callers : calls[c].version \in 0..n
    /\ \A c \in Callers : calls[c].at \in Writing => rows[calls[c].user].version = calls[c].version

LEMMA VersionsOf ==
    ASSUME VersionsIn(user, change, changes), change \in [Callers -> ChangeRecords], NEW c \in Callers,
           NEW ch, change' = [change EXCEPT ![c] = ch], changes' \in changes..MaxChanges, changes \in Nat,
           ch.version \in 0..changes', \A u \in Users : user'[u].version \in 1..changes' + 1,
           ch.at \in Writing => user'[ch.user].version = ch.version,
           \A d \in Callers \ {c} : change[d].at \in Writing =>
              user'[change[d].user].version = user[change[d].user].version
    PROVE  VersionsIn(user, change, changes)'
<1>1. change'[c] = ch /\ \A d \in Callers \ {c} : change'[d] = change[d]
  OBVIOUS
<1>2. ASSUME NEW d \in Callers
      PROVE  /\ change'[d].version \in 0..changes'
             /\ change'[d].at \in Writing => user'[change'[d].user].version = change'[d].version
  <2>1. CASE d = c
    BY <1>1, <2>1
  <2>2. CASE d # c
    BY <1>1, <2>2, AccountsAssumption DEF VersionsIn
  <2> QED
    BY <2>1, <2>2
<1> QED
  BY <1>2, AccountsAssumption DEF VersionsIn

LEMMA VersionsEnd ==
    ASSUME AccountsInv, VersionsIn(user, change, changes), NEW c \in Callers, Admins!Ends(c),
           changes' = changes,
           \/ user' = user
           \/ \E u \in Users : \E to :
                /\ user' = [user EXCEPT ![u] = Admins!Changed(u, to)]
                /\ user[u].version = change[c].version
                /\ \A d \in Callers \ {c} : u \notin change[d].held
    PROVE  VersionsIn(user, change, changes)'
<1>1. /\ change \in [Callers -> ChangeRecords] /\ user \in [Users -> AccountRecords] /\ changes \in Nat
      /\ change' = [change EXCEPT ![c] = Admins!NoChange]
      /\ changes' \in changes..MaxChanges /\ change[c].version \in 0..changes
      /\ \A u \in Users : user[u].version \in 1..changes + 1
  BY AccountsAssumption DEF AccountsInv, Admins!Ends, VersionsIn
<1>2. Admins!NoChange.version \in 0..changes /\ Admins!NoChange.at \notin Writing
  BY <1>1 DEF Admins!NoChange, Writing
<1>3. CASE user' = user
  BY <1>1, <1>2, <1>3, VersionsOf
<1>4. CASE user' # user
  <2>0. PICK u \in Users : \E to : /\ user' = [user EXCEPT ![u] = Admins!Changed(u, to)]
                                  /\ user[u].version = change[c].version
                                  /\ \A d \in Callers \ {c} : u \notin change[d].held
    BY <1>4
  <2>1. PICK to : /\ user' = [user EXCEPT ![u] = Admins!Changed(u, to)]
                  /\ user[u].version = change[c].version
                  /\ \A d \in Callers \ {c} : u \notin change[d].held
    BY <2>0
  <2>2. user'[u].version = user[u].version + 1 /\ \A v \in Users \ {u} : user'[v] = user[v]
    <3>1. user'[u] = Admins!Changed(u, to) /\ \A v \in Users \ {u} : user'[v] = user[v]
      BY <1>1, <2>1
    <3>2. user[u] \in AccountRecords
      BY <1>1
    <3> QED
      BY <3>1, <3>2 DEF Admins!Changed, AccountRecords
  <2>3. \A v \in Users : user'[v].version \in 1..changes' + 1
    BY <1>1, <2>1, <2>2
  <2>4. ASSUME NEW d \in Callers \ {c}, change[d].at \in Writing
        PROVE  user'[change[d].user].version = user[change[d].user].version
    <3>1. change[d].user \in change[d].held /\ change[d].user \in Users
      BY <2>4 DEF AccountsInv, ChangeFits, Writing
    <3> QED
      BY <2>1, <2>2, <3>1
  <2> QED
    BY <1>1, <1>2, <2>3, <2>4, VersionsOf
<1> QED
  BY <1>3, <1>4

LEMMA VersionsStep ==
    ASSUME AccountsInv, VersionsIn(user, change, changes), Admins!Next
    PROVE  VersionsIn(user, change, changes)'
<1>1. /\ change \in [Callers -> ChangeRecords] /\ user \in [Users -> AccountRecords] /\ changes \in Nat
      /\ MaxChanges \in Nat /\ \A u \in Users : user[u].version \in 1..changes + 1
      /\ \A c \in Callers : change[c].version \in 0..changes /\ ChangeFits(change[c], user)
      /\ changes <= MaxChanges
  BY AccountsAssumption DEF AccountsInv, VersionsIn
<1>2. ASSUME NEW c \in Callers, NEW u \in Users, NEW at \in {"lock", "set"}, NEW to, Admins!Begin(c, at, u, to)
      PROVE  VersionsIn(user, change, changes)'
  <2> DEFINE ch == [Admins!NoChange EXCEPT !.at = at, !.user = u, !.to = to, !.version = user[u].version]
  <2>1. change' = [change EXCEPT ![c] = ch] /\ changes' = changes + 1 /\ user' = user /\ changes < MaxChanges
    BY <1>2 DEF Admins!Begin
  <2>2. ch.at \notin Writing /\ ch.version = user[u].version
    BY DEF Admins!NoChange, Writing
  <2> HIDE DEF ch
  <2>3. /\ ch.version \in 0..changes' /\ \A v \in Users : user'[v].version \in 1..changes' + 1
        /\ changes' \in changes..MaxChanges
    BY <1>1, <2>1, <2>2
  <2> QED
    BY <1>1, <2>1, <2>2, <2>3, VersionsOf
<1>3. ASSUME NEW c \in Callers, NEW at \in Admins!Steps, NEW held \in SUBSET Users,
             Admins!Goes(c, at, held), UNCHANGED <<user, changes>>,
             user[change[c].user].version = change[c].version
      PROVE  VersionsIn(user, change, changes)'
  <2>1. PICK ch : ch = [change[c] EXCEPT !.at = at, !.held = held]
    OBVIOUS
  <2>2. change' = [change EXCEPT ![c] = ch]
    BY <1>3, <2>1 DEF Admins!Goes
  <2>3. ch.user = change[c].user /\ ch.version = change[c].version
    BY <1>1, <2>1 DEF ChangeRecords
  <2>4. user' = user /\ changes' = changes /\ changes' \in changes..MaxChanges
    BY <1>1, <1>3
  <2>5. /\ ch.version \in 0..changes' /\ \A u \in Users : user'[u].version \in 1..changes' + 1
        /\ user'[ch.user].version = ch.version
    BY <1>1, <1>3, <2>3, <2>4
  <2>6. \A d \in Callers \ {c} : user'[change[d].user].version = user[change[d].user].version
    BY <2>4
  <2> QED
    BY ONLY VersionsIn(user, change, changes), <1>1, <2>2, <2>4, <2>5, <2>6, VersionsOf, c \in Callers
<1>4. ASSUME NEW c \in Callers, NEW admin \in Users, NEW u \in Users, NEW to \in Admins!Targets,
             \/ Admins!UpdateUser(c, admin, u, to) \/ Admins!UpdateUserStatus(c, admin, u, to)
             \/ Admins!ResetPassword(c, admin, u)
      PROVE  VersionsIn(user, change, changes)'
  BY <1>2, <1>4 DEF Admins!UpdateUser, Admins!UpdateUserStatus, Admins!ResetPassword
<1>5. ASSUME NEW c \in Callers, Admins!LockUser(c)
      PROVE  VersionsIn(user, change, changes)'
  <2>1. change[c].at = "lock" /\ UNCHANGED <<user, changes>>
    BY <1>5 DEF Admins!LockUser
  <2>2. CASE Admins!Ends(c)
    BY <2>1, <2>2, VersionsEnd
  <2>3. CASE ~Admins!Ends(c)
    <3>1. user[change[c].user].version = change[c].version
      BY <1>5, <2>3, Zenon DEF Admins!LockUser
    <3>2. PICK at \in Writing : Admins!Goes(c, at, {change[c].user})
      BY <1>5, <2>3 DEF Admins!LockUser, Writing
    <3>3. change[c].user \in Users
      BY <1>1, <2>1 DEF ChangeFits
    <3> QED
      BY <1>3, <2>1, <3>1, <3>2, <3>3 DEF Writing, Admins!Steps
  <2> QED
    BY <2>2, <2>3
<1>6. ASSUME NEW c \in Callers, Admins!CountAdministrators(c)
      PROVE  VersionsIn(user, change, changes)'
  <2>1. change[c].at = "count" /\ UNCHANGED <<user, changes>>
    BY <1>6 DEF Admins!CountAdministrators
  <2>2. CASE Admins!Ends(c)
    BY <2>1, <2>2, VersionsEnd
  <2>3. CASE ~Admins!Ends(c)
    <3>1. Admins!Goes(c, "write", Admins!ActiveAdmins \union {change[c].user})
      BY <1>6, <2>3 DEF Admins!CountAdministrators, Admins!RefuseOrWrite
    <3>2. change[c].user \in Users /\ user[change[c].user].version = change[c].version
      BY <1>1, <2>1 DEF ChangeFits, VersionsIn, Writing
    <3>3. Admins!ActiveAdmins \union {change[c].user} \in SUBSET Users
      BY <3>2 DEF Admins!ActiveAdmins
    <3> QED
      BY <1>3, <2>1, <3>1, <3>2, <3>3 DEF Admins!Steps
  <2> QED
    BY <2>2, <2>3
<1>7. ASSUME NEW c \in Callers, Admins!CommitUser(c) \/ Admins!CommitConditional(c)
      PROVE  VersionsIn(user, change, changes)'
  <2> DEFINE u == change[c].user
  <2>1. Admins!Ends(c) /\ changes' = changes /\ change[c].at \in {"write", "set"}
    BY <1>7 DEF Admins!CommitUser, Admins!CommitConditional
  <2>2. u \in Users
    BY <1>1, <2>1 DEF ChangeFits
  <2>3. CASE user' = user
    BY <2>1, <2>3, VersionsEnd
  <2>4. CASE user' # user
    <3>1. user' = [user EXCEPT ![u] = Admins!Changed(u, change[c].to)] /\ user[u].version = change[c].version
      BY <1>7, <2>4 DEF Admins!CommitUser, Admins!CommitConditional, VersionsIn, Writing
    <3>2. \A d \in Callers \ {c} : u \notin change[d].held
      <4>1. CASE Admins!CommitUser(c)
        BY <1>1, <4>1 DEF Admins!CommitUser, ChangeFits, AccountsInv
      <4>2. CASE Admins!CommitConditional(c)
        BY <4>2 DEF Admins!CommitConditional, Admins!HeldByOther
      <4> QED
        BY <1>7, <4>1, <4>2
    <3> QED
      BY <2>1, <2>2, <3>1, <3>2, VersionsEnd
  <2> QED
    BY <2>3, <2>4
<1>8. ASSUME NEW c \in Callers, NEW d \in Callers, Admins!Deadlock(c, d)
      PROVE  VersionsIn(user, change, changes)'
  BY <1>8, VersionsEnd DEF Admins!Deadlock
<1>9. ASSUME NEW u \in Users, NEW role, Admins!CreateUser(u, role)
      PROVE  VersionsIn(user, change, changes)'
  <2>1. /\ change' = change /\ changes' = changes + 1 /\ changes < MaxChanges
        /\ user' = [user EXCEPT ![u].status = "ACTIVE", ![u].role = role]
    BY <1>9 DEF Admins!CreateUser
  <2>2. \A v \in Users : user'[v].version = user[v].version
    <3>1. user[u] \in AccountRecords
      BY <1>1
    <3> QED
      BY <1>1, <2>1, <3>1 DEF AccountRecords
  <2>3. ASSUME NEW c \in Callers, change[c].at \in Writing
        PROVE  user'[change[c].user].version = change[c].version
    <3>1. change[c].user \in Users
      BY <1>1, <2>3 DEF ChangeFits, Writing
    <3> QED
      BY <2>2, <2>3, <3>1 DEF VersionsIn
  <2>4. changes' \in 0..MaxChanges /\ (\A v \in Users : user'[v].version \in 1..changes' + 1)
        /\ \A c \in Callers : change'[c].version \in 0..changes'
    BY <1>1, <2>1, <2>2
  <2> QED
    BY <2>1, <2>3, <2>4 DEF VersionsIn
<1> QED
  BY <1>4, <1>5, <1>6, <1>7, <1>8, <1>9 DEF Admins!Next, Admins!Register, Admins!CreateManagedUser

\* Requests that end all sessions of a user: each has been counted, and
\* changes the authorization when it commits.
EndingAll(calls, u) == {c \in Callers : calls[c].op = "logoutAll" /\ calls[c].user = u}
AuthsIn(rows, sessions, calls, n) ==
    /\ n \in 0..MaxRevisions
    /\ \A u \in Owners : IsFiniteSet(EndingAll(calls, u)) /\ rows[u].auth > 0
    /\ \A u \in Owners : rows[u].auth + Cardinality(EndingAll(calls, u)) <= n + 1
    /\ \A s \in SignIn!Sessions : sessions[s].access <= n + 1
    /\ \A c \in Callers : calls[c].auth <= n + 1

LEMMA AuthsOf ==
    ASSUME SessionsInv, AuthsIn(who, session, request, revisions), revisions' \in revisions..MaxRevisions,
           who' \in [Owners -> UserRows],
           \A u \in Owners : \/ EndingAll(request', u) \subseteq EndingAll(request, u) /\ who'[u].auth = who[u].auth
                             \/ /\ who'[u].auth = who[u].auth + 1 /\ revisions' = revisions + 1
                                /\ EndingAll(request', u) = EndingAll(request, u)
                             \/ /\ who'[u].auth = who[u].auth + 1
                                /\ \E c \in EndingAll(request, u) : EndingAll(request', u) = EndingAll(request, u) \ {c}
                             \/ /\ who'[u].auth = who[u].auth /\ revisions' = revisions + 1
                                /\ \E c \in Callers : EndingAll(request', u) = EndingAll(request, u) \union {c},
           \A s \in SignIn!Sessions : session'[s].access <= revisions' + 1,
           \A c \in Callers : request'[c].auth <= revisions' + 1
    PROVE  AuthsIn(who, session, request, revisions)'
<1>1. /\ revisions \in Nat /\ MaxRevisions \in Nat /\ revisions' \in 0..MaxRevisions /\ revisions' \in Nat
      /\ revisions <= revisions' /\ \A u \in Owners : who[u].auth \in Nat
  BY SessionsAssumption DEF AuthsIn, SessionsInv, SessionsTyped, UserRows
<1>2. ASSUME NEW u \in Owners
      PROVE  /\ IsFiniteSet(EndingAll(request', u)) /\ who'[u].auth > 0
             /\ who'[u].auth + Cardinality(EndingAll(request', u)) <= revisions' + 1
  <2> DEFINE E == EndingAll(request, u)
             F == EndingAll(request', u)
  <2>1. IsFiniteSet(E) /\ Cardinality(E) \in Nat /\ who[u].auth > 0 /\ who[u].auth \in Nat
        /\ who[u].auth + Cardinality(E) <= revisions + 1
    BY <1>1, FS_CardinalityType DEF AuthsIn
  <2> HIDE DEF E, F
  <2>2. CASE F \subseteq E /\ who'[u].auth = who[u].auth
    <3>1. IsFiniteSet(F) /\ Cardinality(F) \in Nat /\ Cardinality(F) <= Cardinality(E)
      BY <2>1, <2>2, FS_Subset, FS_CardinalityType
    <3> QED
      BY <1>1, <2>1, <2>2, <3>1 DEF F
  <2>3. CASE F = E /\ who'[u].auth = who[u].auth + 1 /\ revisions' = revisions + 1
    BY <1>1, <2>1, <2>3 DEF F
  <2>4. CASE who'[u].auth = who[u].auth + 1 /\ \E c \in E : F = E \ {c}
    <3>1. IsFiniteSet(F) /\ Cardinality(F) = Cardinality(E) - 1
      BY <2>1, <2>4, FS_RemoveElement
    <3> QED
      BY <1>1, <2>1, <2>4, <3>1 DEF F
  <2>5. CASE who'[u].auth = who[u].auth /\ revisions' = revisions + 1 /\ \E c \in Callers : F = E \union {c}
    <3>1. PICK c \in Callers : F = E \union {c}
      BY <2>5
    <3>2. IsFiniteSet(F) /\ Cardinality(F) \in {Cardinality(E), Cardinality(E) + 1}
      BY <2>1, <3>1, FS_AddElement
    <3> QED
      BY <1>1, <2>1, <2>5, <3>2 DEF F
  <2> QED
    BY <2>2, <2>3, <2>4, <2>5 DEF E, F
<1> QED
  BY <1>1, <1>2 DEF AuthsIn

\* A request goes on otherwise than to end all sessions.
Calm(c, y) == y.op = "logoutAll" => y.op = request[c].op /\ y.user = request[c].user
LEMMA AuthsRequest ==
    ASSUME SessionsInv, AuthsIn(who, session, request, revisions), NEW c \in Callers, NEW y,
           request' = [request EXCEPT ![c] = y], y.auth <= revisions + 1, Calm(c, y),
           who' = who, revisions' = revisions,
           \A s \in SignIn!Sessions : session'[s].access <= revisions + 1
    PROVE  AuthsIn(who, session, request, revisions)'
<1>1. request \in [Callers -> RequestRecords] /\ who \in [Owners -> UserRows]
  BY DEF SessionsInv, SessionsTyped
<1>2. request'[c] = y /\ \A d \in Callers \ {c} : request'[d] = request[d]
  BY <1>1
<1>3. \A u \in Owners : EndingAll(request', u) \subseteq EndingAll(request, u) /\ who'[u].auth = who[u].auth
  BY <1>2 DEF EndingAll, Calm
<1>4. revisions' \in revisions..MaxRevisions
  BY SessionsAssumption DEF AuthsIn
<1>5. \A d \in Callers : request'[d].auth <= revisions' + 1
  BY <1>2 DEF AuthsIn
<1>6. \A s \in SignIn!Sessions : session'[s].access <= revisions' + 1
  OBVIOUS
<1> QED
  BY <1>1, <1>3, <1>4, <1>5, <1>6, AuthsOf

LEMMA AuthsStep ==
    ASSUME SessionsInv, AuthsIn(who, session, request, revisions), SignIn!Next
    PROVE  AuthsIn(who, session, request, revisions)'
<1>1. /\ request \in [Callers -> RequestRecords] /\ who \in [Owners -> UserRows]
      /\ session \in [SignIn!Sessions -> SessionRows] /\ revisions \in Nat /\ MaxRevisions \in Nat
      /\ revisions <= MaxRevisions
      /\ \A s \in SignIn!Sessions : session[s].access <= revisions + 1
      /\ \A c \in Callers : request[c].auth <= revisions + 1
  BY SessionsAssumption DEF SessionsInv, SessionsTyped, AuthsIn
<1>2. \A u \in Owners : who[u].auth <= revisions + 1
  <2> SUFFICES ASSUME NEW u \in Owners PROVE who[u].auth <= revisions + 1
    OBVIOUS
  <2>1. who[u].auth \in Nat /\ Cardinality(EndingAll(request, u)) \in Nat
    BY <1>1, FS_CardinalityType DEF AuthsIn, UserRows
  <2>2. who[u].auth + Cardinality(EndingAll(request, u)) <= revisions + 1
    BY DEF AuthsIn
  <2> QED
    BY <1>1, <2>1, <2>2
<1>3. SignIn!Ready.op = "none" /\ SignIn!Ready.auth <= revisions + 1
  BY <1>1 DEF SignIn!Ready
\* A revocation leaves the authorizations of the sessions.
<1>4. ASSUME NEW S, NEW T, SignIn!Revoked(S, T)
      PROVE  \A s \in SignIn!Sessions : session'[s].access <= revisions + 1
  BY <1>1, <1>4 DEF SignIn!Revoked, SessionRows
<1>5. ASSUME NEW c \in Callers, SignIn!Ends(c), who' = who, revisions' = revisions,
             \A s \in SignIn!Sessions : session'[s].access <= revisions + 1
      PROVE  AuthsIn(who, session, request, revisions)'
  <2>1. Calm(c, SignIn!Ready) /\ request' = [request EXCEPT ![c] = SignIn!Ready]
    BY <1>3, <1>5 DEF Calm, SignIn!Ends
  <2> QED
    BY <1>3, <1>5, <2>1, AuthsRequest
<1>6. ASSUME NEW c \in Callers, NEW at, SignIn!Goes(c, at), who' = who, revisions' = revisions,
             \A s \in SignIn!Sessions : session'[s].access <= revisions + 1
      PROVE  AuthsIn(who, session, request, revisions)'
  <2>1. PICK y : y = [request[c] EXCEPT !.at = at]
    OBVIOUS
  <2>2. Calm(c, y) /\ y.auth = request[c].auth
    BY <1>1, <2>1 DEF RequestRecords, Calm
  <2>3. request' = [request EXCEPT ![c] = y]
    BY <1>6, <2>1 DEF SignIn!Goes
  <2> QED
    BY <1>1, <1>6, <2>2, <2>3, AuthsRequest
<1>7. ASSUME NEW c \in Callers, SignIn!RefreshStep(c)
      PROVE  AuthsIn(who, session, request, revisions)'
  <2>1. CASE SignIn!Claim(c)
    BY <1>1, <1>5, <1>6, <2>1 DEF SignIn!Claim
  <2>2. CASE SignIn!ReadRefreshRecord(c)
    <3>1. request[c].op = "refresh" /\ UNCHANGED <<who, session, revisions>>
      BY <2>2 DEF SignIn!ReadRefreshRecord, SignIn!At
    <3>2. PICK at : \/ request' = [request EXCEPT ![c] = [request[c] EXCEPT !.at = at]]
                    \/ request' = [request EXCEPT ![c] = [request[c] EXCEPT !.at = at,
                                                                 !.auth = who[request[c].user].auth]]
      BY <2>2, Zenon DEF SignIn!ReadRefreshRecord
    <3>3. request[c].user \in Owners
      <4>1. RequestFits(request[c], token, session, presented)
        BY RequestIs
      <4>2. RefreshFits(request[c], token, session, presented)
        BY <3>1, <4>1 DEF RequestFits
      <4>3. request[c].token \in SignIn!Tokens /\ token[request[c].token].session # 0
            /\ request[c].user = session[token[request[c].token].session].user
        BY <4>2 DEF RefreshFits
      <4>4. session[token[request[c].token].session].user # None /\ request[c].user \in Owners \union {None}
        BY <1>1, <4>3 DEF SessionsInv, TokensFit, RequestRecords
      <4> QED
        BY <4>3, <4>4
    <3>4. PICK y : /\ request' = [request EXCEPT ![c] = y]
                   /\ \/ y = [request[c] EXCEPT !.at = at]
                      \/ y = [[request[c] EXCEPT !.at = at] EXCEPT !.auth = who[request[c].user].auth]
      BY <3>2
    <3>5. Calm(c, y) /\ y.auth \in {request[c].auth, who[request[c].user].auth}
      BY <1>1, <3>4 DEF RequestRecords, Calm
    <3> QED
      BY <1>1, <1>2, <3>1, <3>3, <3>4, <3>5, AuthsRequest
  <2>3. CASE SignIn!RotateRefreshToken(c)
    <3>1. UNCHANGED <<who, session, revisions>>
      BY <2>3 DEF SignIn!RotateRefreshToken
    <3>2. CASE SignIn!Goes(c, "reuse")
      BY <1>1, <1>6, <3>1, <3>2
    <3>3. CASE request' = [request EXCEPT ![c].at = "record", ![c].child = SignIn!FreeToken]
      <4>1. PICK y : y = [request[c] EXCEPT !.at = "record", !.child = SignIn!FreeToken]
        OBVIOUS
      <4>2. request' = [request EXCEPT ![c] = y]
        BY <1>1, <3>3, <4>1
      <4>3. Calm(c, y) /\ y.auth = request[c].auth
        BY <1>1, <4>1 DEF RequestRecords, Calm
      <4> QED
        BY <1>1, <3>1, <4>2, <4>3, AuthsRequest
    <3> QED
      BY <2>3, <3>2, <3>3, Zenon DEF SignIn!RotateRefreshToken
  <2>4. CASE SignIn!RevokeRefreshFamily(c)
    <3>1. /\ SignIn!Goes(c, "refused") /\ UNCHANGED <<who, revisions>>
          /\ session' = [session EXCEPT ![request[c].session].revoked = IF @ = "no" THEN "reuse" ELSE @]
      BY <2>4, Zenon DEF SignIn!RevokeRefreshFamily
    <3>2. \A s \in SignIn!Sessions : session'[s].access = session[s].access
      BY <1>1, <3>1 DEF SessionRows
    <3> QED
      BY <1>1, <1>6, <3>1, <3>2
  <2>5. CASE SignIn!Answer(c)
    <3>1. /\ SignIn!Ends(c) /\ UNCHANGED <<who, revisions>>
          /\ session' = [session EXCEPT ![request[c].session].access = request[c].auth]
      BY <2>5 DEF SignIn!Answer
    <3>2. \A s \in SignIn!Sessions : session'[s].access \in {session[s].access, request[c].auth}
      BY <1>1, <3>1 DEF SessionRows
    <3> QED
      BY <1>1, <1>5, <3>1, <3>2
  <2>6. CASE SignIn!Refused(c) \/ SignIn!Crash(c)
    BY <1>1, <1>5, <2>6 DEF SignIn!Refused, SignIn!Crash
  <2>7. CASE SignIn!AnswerFails(c)
    BY <1>1, <1>6, <2>7 DEF SignIn!AnswerFails
  <2> QED
    BY <1>7, <2>1, <2>2, <2>3, <2>4, <2>5, <2>6, <2>7 DEF SignIn!RefreshStep
<1>8. ASSUME NEW c \in Callers, SignIn!SessionStep(c)
      PROVE  AuthsIn(who, session, request, revisions)'
  <2>1. ASSUME NEW u \in Owners, NEW op \in {"login", "adminLogin"}, SignIn!Login(c, op, u)
        PROVE  AuthsIn(who, session, request, revisions)'
    <3>1. PICK y : y = [SignIn!Ready EXCEPT !.op = op, !.at = "create", !.user = u, !.auth = who[u].auth]
      OBVIOUS
    <3>2. request' = [request EXCEPT ![c] = y] /\ UNCHANGED <<who, session, revisions>>
      BY <2>1, <3>1 DEF SignIn!Login, SignIn!Begin
    <3>3. Calm(c, y) /\ y.auth = who[u].auth
      BY <3>1 DEF SignIn!Ready, Calm
    <3> QED
      BY <1>1, <1>2, <3>2, <3>3, AuthsRequest
  <2>2. CASE SignIn!CreateSession(c)
    <3> DEFINE s == SignIn!FreeSession
               y == IF request[c].op = "login" THEN SignIn!Ready
                    ELSE [request[c] EXCEPT !.at = "check", !.session = s]
    <3>1. /\ UNCHANGED <<who, revisions>> /\ request' = [request EXCEPT ![c] = y]
          /\ session' = [session EXCEPT ![s] = [user |-> request[c].user, revoked |-> "no",
                                                access |-> request[c].auth]]
      BY <2>2 DEF SignIn!CreateSession
    <3>2. \A r \in SignIn!Sessions : session'[r].access \in {session[r].access, request[c].auth}
      <4> HIDE DEF y, s
      <4> QED
        BY <1>1, <3>1
    <3>3. y.auth <= revisions + 1 /\ Calm(c, y)
      BY <1>1, <1>3 DEF RequestRecords, Calm
    <3> HIDE DEF y, s
    <3>4. \A r \in SignIn!Sessions : session'[r].access <= revisions + 1
      BY <1>1, <3>2
    <3> QED
      BY <3>1, <3>3, <3>4, AuthsRequest
  <2>3. CASE SignIn!AdminLogin(c)
    <3>1. UNCHANGED <<who, session, revisions>>
          /\ \E y : /\ request' = [request EXCEPT ![c] = y]
                    /\ y = SignIn!Ready \/ \E s, saw : y = [SignIn!Ready EXCEPT !.op = "logout", !.at = "commit",
                                                                      !.session = s, !.saw = saw]
      BY <2>3 DEF SignIn!AdminLogin
    <3>2. \E y : /\ request' = [request EXCEPT ![c] = y] /\ Calm(c, y) /\ y.auth = SignIn!Ready.auth
      BY <3>1 DEF SignIn!Ready, Calm
    <3> QED
      BY <1>1, <1>3, <3>1, <3>2, AuthsRequest
  <2>4. ASSUME NEW s \in SignIn!Sessions, SignIn!Logout(c, s)
        PROVE  AuthsIn(who, session, request, revisions)'
    <3>1. PICK y : y = [SignIn!Ready EXCEPT !.op = "logout", !.at = "commit", !.session = s,
                                            !.saw = SignIn!TokensOf({s})]
      OBVIOUS
    <3>2. request' = [request EXCEPT ![c] = y] /\ UNCHANGED <<who, session, revisions>>
      BY <2>4, <3>1 DEF SignIn!Logout, SignIn!Begin
    <3>3. Calm(c, y) /\ y.auth = SignIn!Ready.auth
      BY <3>1 DEF SignIn!Ready, Calm
    <3> QED
      BY <1>1, <1>3, <3>2, <3>3, AuthsRequest
  <2>5. ASSUME NEW t \in SignIn!Tokens, NEW k \in Keys, SignIn!Refresh(c, t, k)
        PROVE  AuthsIn(who, session, request, revisions)'
    <3>1. PICK y : y = [SignIn!Ready EXCEPT !.op = "refresh", !.at = "claim", !.user = SignIn!Owner(t),
                              !.session = token[t].session, !.token = t, !.key = k]
      OBVIOUS
    <3>2. request' = [request EXCEPT ![c] = y] /\ UNCHANGED <<who, session, revisions>>
      BY <2>5, <3>1 DEF SignIn!Refresh, SignIn!Begin
    <3>3. Calm(c, y) /\ y.auth = SignIn!Ready.auth
      BY <3>1 DEF SignIn!Ready, Calm
    <3> QED
      BY <1>1, <1>3, <3>2, <3>3, AuthsRequest
  <2>6. ASSUME NEW s \in SignIn!Sessions, SignIn!LogoutAll(c, s)
        PROVE  AuthsIn(who, session, request, revisions)'
    <3>1. PICK y : y = [SignIn!Ready EXCEPT !.op = "logoutAll", !.at = "commit", !.user = session[s].user,
                              !.saw = SignIn!TokensOf(SignIn!SessionsOf(session[s].user))]
      OBVIOUS
    <3>2. /\ request' = [request EXCEPT ![c] = y] /\ UNCHANGED <<who, session>> /\ request[c] = SignIn!Ready
          /\ revisions < MaxRevisions /\ revisions' = revisions + 1
      BY <2>6, <3>1 DEF SignIn!LogoutAll, SignIn!Begin, SignIn!MayChange
    <3>3. y.op = "logoutAll" /\ y.auth = SignIn!Ready.auth
      BY <3>1 DEF SignIn!Ready
    <3>4. request'[c] = y /\ \A d \in Callers \ {c} : request'[d] = request[d]
      BY <1>1, <3>2
    <3>5. ASSUME NEW u \in Owners
          PROVE  \/ EndingAll(request', u) \subseteq EndingAll(request, u) /\ who'[u].auth = who[u].auth
                 \/ /\ who'[u].auth = who[u].auth /\ revisions' = revisions + 1
                    /\ \E d \in Callers : EndingAll(request', u) = EndingAll(request, u) \union {d}
      <4>1. CASE y.user = u
        <5>1. EndingAll(request', u) = EndingAll(request, u) \union {c}
          BY <3>3, <3>4, <4>1 DEF EndingAll
        <5> QED
          BY <3>2, <5>1
      <4>2. CASE y.user # u
        <5>1. EndingAll(request', u) \subseteq EndingAll(request, u)
          BY <3>4, <4>2 DEF EndingAll
        <5> QED
          BY <3>2, <5>1
      <4> QED
        BY <4>1, <4>2
    <3>6. /\ revisions' \in revisions..MaxRevisions /\ who' \in [Owners -> UserRows]
          /\ \A r \in SignIn!Sessions : session'[r].access <= revisions' + 1
      <4>1. \A r \in SignIn!Sessions : session[r].access \in Nat
        BY <1>1 DEF SessionRows
      <4> QED
        BY <1>1, <3>2, <4>1
    <3>7. \A d \in Callers : request'[d].auth <= revisions' + 1
      <4>1. \A d \in Callers : request[d].auth \in Nat
        BY <1>1 DEF RequestRecords
      <4> QED
        BY <1>1, <3>2, <3>3, <3>4, <4>1
    <3> QED
      BY <3>5, <3>6, <3>7, AuthsOf
  <2>7. CASE SignIn!RevokeSession(c)
    <3>1. SignIn!Revoked({request[c].session}, request[c].saw) /\ SignIn!Ends(c) /\ UNCHANGED <<who, revisions>>
      BY <2>7 DEF SignIn!RevokeSession
    <3> QED
      BY <1>4, <1>5, <3>1
  <2>8. CASE SignIn!RevokeAllSessions(c)
    <3> DEFINE v == request[c].user
    <3>1. /\ request[c].op = "logoutAll" /\ SignIn!Revoked(SignIn!SessionsOf(v), request[c].saw)
          /\ request' = [request EXCEPT ![c] = SignIn!Ready] /\ revisions' = revisions
          /\ who' = [who EXCEPT ![v].auth = @ + 1]
      BY <2>8 DEF SignIn!RevokeAllSessions, SignIn!At, SignIn!Ends
    <3>2. v \in Owners
      BY <3>1, RequestIs DEF RequestFits
    <3>3. /\ who' \in [Owners -> UserRows] /\ who'[v].auth = who[v].auth + 1
          /\ \A u \in Owners \ {v} : who'[u] = who[u]
      BY <1>1, <3>1, <3>2 DEF UserRows
    <3>4. request'[c].op = "none" /\ \A d \in Callers \ {c} : request'[d] = request[d]
      BY <1>1, <1>3, <3>1
    <3>5. EndingAll(request', v) = EndingAll(request, v) \ {c} /\ c \in EndingAll(request, v)
      BY <3>1, <3>4 DEF EndingAll
    <3>6. \A u \in Owners : EndingAll(request', u) \subseteq EndingAll(request, u)
      BY <3>4 DEF EndingAll
    <3>7. /\ revisions' \in revisions..MaxRevisions /\ \A s \in SignIn!Sessions : session'[s].access <= revisions' + 1
          /\ \A d \in Callers : request'[d].auth <= revisions' + 1
      <4>1. \A s \in SignIn!Sessions : session'[s].access <= revisions + 1
        BY <1>4, <3>1
      <4>2. \A d \in Callers : request'[d] = request[d] \/ request'[d] = SignIn!Ready
        BY <1>1, <3>1
      <4> QED
        BY <1>1, <1>3, <3>1, <4>1, <4>2
    <3>8. ASSUME NEW u \in Owners
          PROVE  \/ EndingAll(request', u) \subseteq EndingAll(request, u) /\ who'[u].auth = who[u].auth
                 \/ /\ who'[u].auth = who[u].auth + 1
                    /\ \E d \in EndingAll(request, u) : EndingAll(request', u) = EndingAll(request, u) \ {d}
      BY <3>3, <3>5, <3>6
    <3> HIDE DEF v
    <3> QED
      BY <3>3, <3>7, <3>8, AuthsOf
  <2> QED
    BY <1>8, <2>1, <2>2, <2>3, <2>4, <2>5, <2>6, <2>7, <2>8 DEF SignIn!SessionStep
\* Changes by administrators, and records that expire.
<1>9. ASSUME request' = request, who' \in [Owners -> UserRows], revisions' \in {revisions, revisions + 1},
             revisions' <= MaxRevisions,
             \A u \in Owners : \/ who'[u].auth = who[u].auth
                               \/ who'[u].auth = who[u].auth + 1 /\ revisions' = revisions + 1,
             \A s \in SignIn!Sessions : session'[s].access <= revisions + 1
      PROVE  AuthsIn(who, session, request, revisions)'
  <2>1. revisions' \in revisions..MaxRevisions /\ revisions <= revisions' /\ revisions' \in Nat
    BY <1>1, <1>9
  <2>2. /\ \A s \in SignIn!Sessions : session'[s].access <= revisions' + 1
        /\ \A c \in Callers : request'[c].auth <= revisions' + 1
    <3>1. /\ \A c \in Callers : request[c].auth \in Nat
          /\ \A s \in SignIn!Sessions : session'[s].access \in Nat
      <4>1. SessionsInv'
        BY SessionsStep
      <4>2. session' \in [SignIn!Sessions -> SessionRows]
        BY <4>1 DEF SessionsInv, SessionsTyped
      <4> QED
        BY <1>1, <4>2 DEF RequestRecords, SessionRows
    <3> QED
      BY <1>1, <1>9, <2>1, <3>1
  <2>3. \A u \in Owners : EndingAll(request', u) = EndingAll(request, u)
    BY <1>9
  <2> QED
    BY <1>9, <2>1, <2>2, <2>3, AuthsOf
<1>10. ASSUME NEW u \in Owners, NEW ends \in BOOLEAN, SignIn!ChangeAccount(u, ends)
       PROVE  AuthsIn(who, session, request, revisions)'
  <2>1. /\ revisions < MaxRevisions /\ revisions' = revisions + 1 /\ request' = request
        /\ \E active \in BOOLEAN : who' = [who EXCEPT ![u] = [active |-> active, auth |-> @.auth + 1]]
    BY <1>10 DEF SignIn!ChangeAccount, SignIn!MayChange
  <2>2. /\ who' \in [Owners -> UserRows] /\ who'[u].auth = who[u].auth + 1
        /\ \A v \in Owners \ {u} : who'[v] = who[v]
    BY <1>1, <2>1 DEF UserRows
  <2>3. \A s \in SignIn!Sessions : session'[s].access <= revisions + 1
    BY <1>1, <1>4, <1>10 DEF SignIn!ChangeAccount
  <2> QED
    BY <1>1, <1>9, <2>1, <2>2, <2>3
<1>11. ASSUME NEW s \in SignIn!Sessions, SignIn!RevokeUserSession(s)
       PROVE  AuthsIn(who, session, request, revisions)'
  <2>1. /\ revisions < MaxRevisions /\ revisions' = revisions + 1 /\ UNCHANGED <<request, who>>
        /\ SignIn!Revoked({s}, SignIn!TokensOf({s}))
    BY <1>11 DEF SignIn!RevokeUserSession
  <2> QED
    BY <1>1, <1>4, <1>9, <2>1
<1>12. ASSUME NEW u \in Owners, NEW k \in Keys, SignIn!Expire(u, k)
       PROVE  AuthsIn(who, session, request, revisions)'
  <2>1. UNCHANGED <<request, who, session, revisions>>
    BY <1>12 DEF SignIn!Expire
  <2> QED
    BY <1>1, <1>9, <2>1
<1> QED
  BY <1>7, <1>8, <1>10, <1>11, <1>12 DEF SignIn!Next

\* The bounds of all parts.
UsersBounds ==
    /\ VersionsIn(user, change, changes) /\ AuthsIn(who, session, request, revisions)
    /\ faults \in 0..MaxFaults /\ failed \in 0..MaxFailures

LEMMA FaultsStep ==
    ASSUME faults \in 0..MaxFaults, SignIn!Next
    PROVE  faults' \in 0..MaxFaults
<1>1. faults' = faults \/ (faults < MaxFaults /\ faults' = faults + 1)
  <2>1. ASSUME NEW c \in Callers, SignIn!RefreshStep(c)
        PROVE  faults' = faults \/ (faults < MaxFaults /\ faults' = faults + 1)
    BY <2>1, Zenon DEF SignIn!RefreshStep, SignIn!Claim, SignIn!ReadRefreshRecord, SignIn!RotateRefreshToken,
          SignIn!RevokeRefreshFamily, SignIn!Answer, SignIn!Refused, SignIn!AnswerFails, SignIn!Crash
  <2>2. ASSUME NEW c \in Callers, SignIn!SessionStep(c)
        PROVE  faults' = faults
    BY <2>2, Zenon DEF SignIn!SessionStep, SignIn!Login, SignIn!CreateSession, SignIn!AdminLogin, SignIn!RevokeSession,
          SignIn!RevokeAllSessions, SignIn!Logout, SignIn!LogoutAll, SignIn!Refresh
  <2> QED
    BY <2>1, <2>2, Zenon DEF SignIn!Next, SignIn!ChangeAccount, SignIn!RevokeUserSession, SignIn!Expire
<1> QED
  BY <1>1, SessionsAssumption

LEMMA FailedStep ==
    ASSUME failed \in 0..MaxFailures, Storage!Next
    PROVE  failed' \in 0..MaxFailures
<1>1. failed' = failed \/ (failed < MaxFailures /\ failed' = failed + 1)
  <2>1. ASSUME NEW p \in Requests, Storage!Serve(p)
        PROVE  failed' = failed \/ (failed < MaxFailures /\ failed' = failed + 1)
    BY <2>1, Zenon
       DEF Storage!Serve, Storage!CreateAvatarUpload, Storage!Claim, Storage!AbandonFile, Storage!FindUpload,
           Storage!MeasureQuota, Storage!OpenTemp, Storage!WriteUploadStream, Storage!WaitForCompletion, Storage!Inspect,
           Storage!CommitUpload, Storage!FinalizeUpload, Storage!FinalizeRefused, Storage!FailUploadCompletion,
           Storage!AbandonUpload, Storage!Answer
  <2>2. ASSUME Storage!Background
        PROVE  failed' = failed \/ (failed < MaxFailures /\ failed' = failed + 1)
    BY <2>2, Zenon
       DEF Storage!Background, Storage!Lapse, Storage!DeleteUpload, Storage!CreateUpload, Storage!ExpireUploads,
           Storage!ListPending, Storage!Crash, Storage!DeleteFile, Storage!MarkDeleted, Storage!DeleteTarget
  <2> QED
    BY <2>1, <2>2 DEF Storage!Next
<1> QED
  BY <1>1, UploadsAssumption

LEMMA BoundsStep ==
    ASSUME UsersInv, UsersBounds, [MCNext]_usersVars
    PROVE  UsersBounds'
<1>1. /\ VersionsIn(user, change, changes) /\ AuthsIn(who, session, request, revisions)
      /\ faults \in 0..MaxFaults /\ failed \in 0..MaxFailures
  BY DEF UsersBounds
<1>2. AccountsInv /\ SessionsInv
  BY DEF UsersInv
<1>3. \/ Admins!Next \/ UNCHANGED accountVars
  BY Zenon DEF MCNext, usersVars
<1>4. \/ SignIn!Next \/ UNCHANGED sessionVars
  BY Zenon DEF MCNext, usersVars
<1>5. \/ Storage!Next \/ UNCHANGED uploadVars
  BY Zenon DEF MCNext, UploadPictures, UploadAvatars, usersVars
<1>6. VersionsIn(user, change, changes)'
  <2>1. CASE UNCHANGED accountVars
    BY <1>1, <2>1 DEF accountVars, VersionsIn
  <2> QED
    BY <1>1, <1>2, <1>3, <2>1, VersionsStep
<1>7. AuthsIn(who, session, request, revisions)' /\ faults' \in 0..MaxFaults
  <2>1. CASE UNCHANGED sessionVars
    BY <1>1, <2>1 DEF sessionVars, AuthsIn
  <2> QED
    BY <1>1, <1>2, <1>4, <2>1, AuthsStep, FaultsStep
<1>8. failed' \in 0..MaxFailures
  <2>1. CASE UNCHANGED uploadVars
    BY <1>1, <2>1 DEF uploadVars
  <2> QED
    BY <1>1, <1>5, <2>1, FailedStep
<1> QED
  BY <1>6, <1>7, <1>8 DEF UsersBounds

LEMMA BoundsInit ==
    ASSUME MCInit PROVE UsersBounds
<1>1. VersionsIn(user, change, changes)
  <2>1. changes = 0 /\ (\A u \in Users : user[u].version = 1)
        /\ \A c \in Callers : change[c].version = 0 /\ change[c].at = "none"
    BY DEF MCInit, Admins!Init, Admins!Nobody, Admins!NoChange
  <2> QED
    BY <2>1, AccountsAssumption DEF VersionsIn, Writing
<1>2. AuthsIn(who, session, request, revisions)
  <2>1. revisions = 0 /\ (\A u \in Owners : who[u].auth = 1)
        /\ (\A s \in SignIn!Sessions : session[s].access = 0)
        /\ \A c \in Callers : request[c].auth = 0 /\ request[c].op = "none"
    BY DEF MCInit, SignIn!Init, SignIn!NoSession, SignIn!Ready
  <2>2. \A u \in Owners : EndingAll(request, u) = {}
    BY <2>1 DEF EndingAll
  <2>3. \A u \in Owners : IsFiniteSet(EndingAll(request, u)) /\ Cardinality(EndingAll(request, u)) = 0
    BY <2>2, FS_EmptySet
  <2>4. 0 \in 0..MaxRevisions /\ 1 + 0 <= 0 + 1 /\ 1 > 0 /\ 0 <= 0 + 1
    BY SessionsAssumption
  <2>5. \A u \in Owners : who[u].auth > 0 /\ who[u].auth + Cardinality(EndingAll(request, u)) <= revisions + 1
    BY <2>1, <2>3, <2>4
  <2> QED
    BY <2>1, <2>3, <2>4, <2>5 DEF AuthsIn
<1>3. faults = 0 /\ failed = 0
  BY DEF MCInit, SignIn!Init, Storage!Init
<1> QED
  BY <1>1, <1>2, <1>3, SessionsAssumption, UploadsAssumption DEF UsersBounds

LEMMA BoundsShow ==
    ASSUME UsersInv, UsersBounds PROVE TypesOK
<1>1. AccountsInv /\ SessionsTyped /\ StorageTyped /\ Library!TypeOK
  BY LibraryHolds DEF UsersInv, SessionsInv, UploadsInv
<1>2. Admins!TypeOK
  <2>1. /\ user \in [Users -> AccountRecords] /\ change \in [Callers -> ChangeRecords] /\ changes \in 0..MaxChanges
        /\ \A u \in Users : user[u].version \in 1..changes + 1
        /\ \A c \in Callers : change[c].version \in 0..changes
    BY <1>1 DEF AccountsInv, UsersBounds, VersionsIn
  <2>2. MaxChanges \in Nat
    BY AccountsAssumption
  <2>3. \A u \in Users : user[u].version \in 1..MaxChanges + 1
    BY <2>1, <2>2
  <2>4. \A c \in Callers : change[c].version \in 0..MaxChanges + 1
    BY <2>1, <2>2
  <2> QED
    BY <2>1, <2>3, <2>4 DEF Admins!TypeOK, AccountRecords, ChangeRecords
<1>3. SignIn!TypeOK
  <2>1. /\ who \in [Owners -> UserRows] /\ session \in [SignIn!Sessions -> SessionRows]
        /\ revisions \in 0..MaxRevisions /\ MaxRevisions \in Nat /\ faults \in 0..MaxFaults
        /\ \A s \in SignIn!Sessions : session[s].access <= revisions + 1
        /\ \A u \in Owners : who[u].auth > 0 /\ IsFiniteSet(EndingAll(request, u))
        /\ \A u \in Owners : who[u].auth + Cardinality(EndingAll(request, u)) <= revisions + 1
    BY <1>1, SessionsAssumption DEF SessionsTyped, UsersBounds, AuthsIn
  <2>2. ASSUME NEW u \in Owners PROVE who[u].auth \in 1..MaxRevisions + 1
    <3>1. who[u].auth \in Nat /\ Cardinality(EndingAll(request, u)) \in Nat
      BY <2>1, FS_CardinalityType DEF UserRows
    <3> QED
      BY <2>1, <3>1
  <2>3. ASSUME NEW s \in SignIn!Sessions PROVE session[s].access \in 0..MaxRevisions + 1
    <3>1. session[s].access \in Nat
      BY <2>1 DEF SessionRows
    <3> QED
      BY <2>1, <3>1
  <2>4. who \in [Owners -> [active : BOOLEAN, auth : 1..MaxRevisions + 1]]
    BY <2>1, <2>2 DEF UserRows
  <2>5. session \in [SignIn!Sessions -> [user : Owners \union {None}, revoked : {"no", "asked", "reuse"},
                                         access : 0..MaxRevisions + 1]]
    BY <2>1, <2>3 DEF SessionRows
  <2> QED
    BY <1>1, <2>1, <2>4, <2>5 DEF SignIn!TypeOK, SessionsTyped, TokenRows, KeyRecords
<1>4. Storage!TypeOK
  BY <1>1 DEF Storage!TypeOK, StorageTyped, UploadRows, AssetRows, CallRows, FileNames, UsersBounds
<1> QED
  BY <1>1, <1>2, <1>3, <1>4 DEF TypesOK

(* Every row is of its kind, and no counter passes its bound: an account     *)
(* changes at most once for every request counted, and so does what a user   *)
(* is authorized to.                                                         *)
THEOREM UsersTyped == MCSpec => []TypesOK
<1>1. UsersInv /\ UsersBounds => TypesOK
  BY BoundsShow
<1> QED
  BY <1>1, UsersHold, BoundsInit, BoundsStep, PTL DEF MCSpec, usersVars
=============================================================================
