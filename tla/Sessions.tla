------------------------------ MODULE Sessions ------------------------------
(* Sessions and refresh tokens (modules/identity, adminauth), with the       *)
(* idempotency records that guard a refresh (platform/idempotency).  Every   *)
(* step is one statement or transaction.                                     *)
EXTENDS Integers, FiniteSets

CONSTANTS Users, Admins,
          Callers,      \* requests in flight at once
          Keys,         \* Idempotency-Keys the devices choose
          None,
          MaxSessions, MaxTokens,  \* bounds: sessions and refresh tokens ever made
          MaxChanges,   \* bound: changes of accounts, each a new version
          MaxFaults     \* bound: crashes, failed statements, expired records

Sessions == 1..MaxSessions
Tokens == 1..MaxTokens

VARIABLES user, session, token, record, call,
          presented,  \* keys under which each token was presented
          broken,     \* tokens exchanged without a lasting answer
          faults, changes

sessionVars == <<user, session, token, record, call, presented, broken, faults, changes>>

NoSession == [user |-> None, revoked |-> "no", access |-> 0]
NoToken == [session |-> 0, parent |-> 0, used |-> FALSE, revoked |-> FALSE]
NoRecord == [token |-> 0, owner |-> None, answer |-> 0]
Ready == [op |-> "none", at |-> "none", user |-> None, session |-> 0, token |-> 0, key |-> None,
          auth |-> 0, child |-> 0, saw |-> {}]

TypeOK ==
    /\ user \in [Users -> [active : BOOLEAN, auth : 1..MaxChanges + 1]]
    /\ session \in [Sessions -> [user : Users \union {None}, revoked : {"no", "asked", "reuse"},
                                 access : 0..MaxChanges + 1]]
    /\ token \in [Tokens -> [session : 0..MaxSessions, parent : 0..MaxTokens,
                             used : BOOLEAN, revoked : BOOLEAN]]
    /\ record \in [Users \X Keys -> [token : 0..MaxTokens, owner : Callers \union {None},
                                     answer : 0..MaxTokens]]
    /\ presented \in [Tokens -> SUBSET Keys]
    /\ broken \subseteq Tokens /\ faults \in 0..MaxFaults /\ changes \in 0..MaxChanges

Init ==
    /\ user = [u \in Users |-> [active |-> TRUE, auth |-> 1]]
    /\ session = [s \in Sessions |-> NoSession]
    /\ token = [t \in Tokens |-> NoToken]
    /\ record = [i \in Users \X Keys |-> NoRecord]
    /\ call = [c \in Callers |-> Ready]
    /\ presented = [t \in Tokens |-> {}] /\ broken = {} /\ faults = 0 /\ changes = 0

---------------------------------------------------------------------------
(* What rows say *)

Made(s) == session[s].user # None
Issued(t) == token[t].session # 0
Owner(t) == session[token[t].session].user
TokensOf(S) == {t \in Tokens : token[t].session \in S}
SessionsOf(u) == {s \in Sessions : session[s].user = u}
FreeSession == CHOOSE s \in Sessions : ~Made(s) /\ \A r \in Sessions : r < s => Made(r)
FreeToken == CHOOSE t \in Tokens : ~Issued(t) /\ \A r \in Tokens : r < t => Issued(r)
RoomForSession == \E s \in Sessions : ~Made(s)
RoomForToken == \E t \in Tokens : ~Issued(t)
Live(t) == Issued(t) /\ ~token[t].used /\ ~token[t].revoked

\* An access token is taken while its session is not revoked, its user is
\* active and nothing has changed the user's authorization since it was made.
Authenticate(s) ==
    /\ Made(s) /\ session[s].revoked = "no"
    /\ user[session[s].user].active
    /\ user[session[s].user].auth = session[s].access
RequireAdmin(s) == Authenticate(s) /\ session[s].user \in Admins

MayChange == changes < MaxChanges /\ changes' = changes + 1

Begin(c, request) == call[c] = Ready /\ call' = [call EXCEPT ![c] = request]
Goes(c, at) == call' = [call EXCEPT ![c].at = at]
Ends(c) == call' = [call EXCEPT ![c] = Ready]
At(c, op, at) == call[c].op = op /\ call[c].at = at

---------------------------------------------------------------------------
(* Opening sessions and accounts *)

\* The account is read and its password verified; the session comes later.
Login(c, op, u) ==
    /\ user[u].active /\ op \in {"login", "adminLogin"}
    /\ Begin(c, [Ready EXCEPT !.op = op, !.at = "create", !.user = u, !.auth = user[u].auth])
    /\ UNCHANGED <<user, session, token, record, presented, broken, faults, changes>>

\* The session and its first refresh token.  An administrator's login goes on
\* to authenticate with the new token.
CreateSession(c) ==
    /\ call[c].at = "create" /\ RoomForSession /\ RoomForToken
    /\ LET s == FreeSession
       IN  /\ session' = [session EXCEPT ![s] = [user |-> call[c].user, revoked |-> "no",
                                                 access |-> call[c].auth]]
           /\ token' = [token EXCEPT ![FreeToken] = [NoToken EXCEPT !.session = s]]
           /\ call' = [call EXCEPT ![c] = IF @.op = "login" THEN Ready
                                          ELSE [@ EXCEPT !.at = "check", !.session = s]]
    /\ UNCHANGED <<user, record, presented, broken, faults, changes>>

AdminLogin(c) ==
    /\ At(c, "adminLogin", "check")
    /\ LET s == call[c].session
       IN  call' = [call EXCEPT ![c] =
               IF Authenticate(s) /\ ~RequireAdmin(s)
               THEN [Ready EXCEPT !.op = "logout", !.at = "commit", !.session = s,
                                  !.saw = TokensOf({s})]
               ELSE Ready]
    /\ UNCHANGED <<user, session, token, record, presented, broken, faults, changes>>

---------------------------------------------------------------------------
(* A refresh: find the token, claim the key, rotate, record the answer.       *)

Slot(c) == <<call[c].user, call[c].key>>

\* Any device that ever received the token may present it, under any key.
Refresh(c, t, k) ==
    /\ Issued(t)
    /\ Begin(c, [Ready EXCEPT !.op = "refresh", !.at = "claim", !.user = Owner(t),
                              !.session = token[t].session, !.token = t, !.key = k])
    /\ presented' = [presented EXCEPT ![t] = @ \union {k}]
    /\ UNCHANGED <<user, session, token, record, broken, faults, changes>>

\* Whoever claims the key runs; every other request with it is answered from
\* the record: still being processed, used for another token, or the answer.
ClaimAlways(c) ==
    /\ At(c, "refresh", "claim")
    /\ record' = [record EXCEPT ![Slot(c)] = [token |-> call[c].token, owner |-> c, answer |-> 0]]
    /\ Goes(c, "read")
    /\ UNCHANGED <<user, session, token, presented, broken, faults, changes>>
Claim(c) ==
    /\ At(c, "refresh", "claim")
    /\ IF record[Slot(c)] = NoRecord
       THEN /\ record' = [record EXCEPT ![Slot(c)] =
                              [token |-> call[c].token, owner |-> c, answer |-> 0]]
            /\ Goes(c, "read")
       ELSE Ends(c) /\ UNCHANGED record
    /\ UNCHANGED <<user, session, token, presented, broken, faults, changes>>

ReadRefreshRecord(c) ==
    /\ At(c, "refresh", "read")
    /\ LET t == call[c].token
       IN  call' = [call EXCEPT ![c] =
             IF ~Live(t) THEN [@ EXCEPT !.at = "reuse"]
             ELSE IF session[@.session].revoked # "no" \/ ~user[@.user].active
                  THEN [@ EXCEPT !.at = "refused"]
                  ELSE [@ EXCEPT !.at = "rotate", !.auth = user[call[c].user].auth]]
    /\ UNCHANGED <<user, session, token, record, presented, broken, faults, changes>>

\* One conditional update decides which of two rotations consumes the token.
ConsumableIfRead(t) == Issued(t)
Consumable(t) == Live(t)
RotateRefreshToken(c) ==
    /\ At(c, "refresh", "rotate")
    /\ LET t == call[c].token
       IN  IF Consumable(t)
           THEN /\ RoomForToken
                /\ token' = [token EXCEPT ![t].used = TRUE,
                                 ![FreeToken] = [NoToken EXCEPT !.session = call[c].session,
                                                                !.parent = t]]
                /\ call' = [call EXCEPT ![c].at = "record", ![c].child = FreeToken]
           ELSE Goes(c, "reuse") /\ UNCHANGED token
    /\ UNCHANGED <<user, session, record, presented, broken, faults, changes>>

RevokeRefreshFamily(c) ==
    /\ At(c, "refresh", "reuse")
    /\ LET s == call[c].session
       IN  /\ token' = [t \in Tokens |-> IF t \in TokensOf({s})
                                         THEN [token[t] EXCEPT !.revoked = TRUE] ELSE token[t]]
           /\ session' = [session EXCEPT ![s].revoked = IF @ = "no" THEN "reuse" ELSE @]
    /\ Goes(c, "refused")
    /\ UNCHANGED <<user, record, presented, broken, faults, changes>>

\* The answer is stored with the claim, unless the claim is no longer there;
\* the access token carries the authorization read before the rotation.
Answer(c) ==
    /\ At(c, "refresh", "record")
    /\ record[Slot(c)].owner = c /\ record[Slot(c)].answer = 0
    /\ record' = [record EXCEPT ![Slot(c)].answer = call[c].child, ![Slot(c)].owner = None]
    /\ session' = [session EXCEPT ![call[c].session].access = call[c].auth]
    /\ Ends(c)
    /\ UNCHANGED <<user, token, presented, broken, faults, changes>>

\* A refused refresh gives its key back.
ReleaseClaim(c) ==
    record' = [record EXCEPT ![Slot(c)] = IF @.owner = c THEN NoRecord ELSE @]
Refused(c) ==
    /\ At(c, "refresh", "refused")
    /\ ReleaseClaim(c) /\ Ends(c)
    /\ UNCHANGED <<user, session, token, presented, broken, faults, changes>>

\* After the rotation the profile cannot be read: the new token is lost and
\* the key is free again.
AnswerFails(c) ==
    /\ At(c, "refresh", "record") /\ faults < MaxFaults
    /\ faults' = faults + 1 /\ broken' = broken \union {call[c].token}
    /\ Goes(c, "refused")
    /\ UNCHANGED <<user, session, token, record, presented, changes>>

\* The server dies under a request, or its client hangs up before the answer is
\* stored: the claim stays, unanswered.
Crash(c) ==
    /\ call[c].op = "refresh" /\ faults < MaxFaults
    /\ faults' = faults + 1
    /\ broken' = IF call[c].at = "record" THEN broken \union {call[c].token} ELSE broken
    /\ record' = [i \in DOMAIN record |->
                     IF record[i].owner = c THEN [record[i] EXCEPT !.owner = None] ELSE record[i]]
    /\ Ends(c)
    /\ UNCHANGED <<user, session, token, presented, changes>>

\* A day after its request, a record no longer answers.
Expire(u, k) ==
    /\ record[<<u, k>>] # NoRecord /\ record[<<u, k>>].owner = None /\ faults < MaxFaults
    /\ faults' = faults + 1
    /\ broken' = broken \union {record[<<u, k>>].token}
    /\ record' = [record EXCEPT ![<<u, k>>] = NoRecord]
    /\ UNCHANGED <<user, session, token, call, presented, changes>>

---------------------------------------------------------------------------
(* Ending sessions: the rows a statement saw when it began are revoked when   *)
(* the transaction commits.                                                   *)

Logout(c, s) ==
    /\ Authenticate(s)
    /\ Begin(c, [Ready EXCEPT !.op = "logout", !.at = "commit", !.session = s,
                              !.saw = TokensOf({s})])
    /\ UNCHANGED <<user, session, token, record, presented, broken, faults, changes>>

LogoutAll(c, s) ==
    /\ Authenticate(s) /\ MayChange
    /\ LET u == session[s].user
       IN  Begin(c, [Ready EXCEPT !.op = "logoutAll", !.at = "commit", !.user = u,
                                  !.saw = TokensOf(SessionsOf(u))])
    /\ UNCHANGED <<user, session, token, record, presented, broken, faults>>

Revoked(S, T) ==
    /\ session' = [s \in Sessions |-> IF s \in S /\ session[s].revoked = "no"
                                      THEN [session[s] EXCEPT !.revoked = "asked"] ELSE session[s]]
    /\ token' = [t \in Tokens |-> IF t \in T THEN [token[t] EXCEPT !.revoked = TRUE] ELSE token[t]]

RevokeSession(c) ==
    /\ At(c, "logout", "commit")
    /\ Revoked({call[c].session}, call[c].saw)
    /\ Ends(c)
    /\ UNCHANGED <<user, record, presented, broken, faults, changes>>

RevokeAllSessions(c) ==
    /\ At(c, "logoutAll", "commit")
    /\ Revoked(SessionsOf(call[c].user), call[c].saw)
    /\ user' = [user EXCEPT ![call[c].user].auth = @ + 1]
    /\ Ends(c)
    /\ UNCHANGED <<record, presented, broken, faults, changes>>

\* An administrator ends a session of a user.
RevokeUserSession(s) ==
    /\ Made(s) /\ changes < MaxChanges /\ changes' = changes + 1
    /\ Revoked({s}, TokensOf({s}))
    /\ UNCHANGED <<user, record, call, presented, broken, faults>>

\* An administrator suspends or restores an account, changes its role or sets
\* its password (modelled in Accounts): what ends the account's sessions.
ChangeAccount(u, ends) ==
    /\ MayChange
    /\ \E active \in BOOLEAN : user' = [user EXCEPT ![u] = [active |-> active, auth |-> @.auth + 1]]
    /\ IF ends THEN Revoked(SessionsOf(u), TokensOf(SessionsOf(u))) ELSE UNCHANGED <<session, token>>
    /\ UNCHANGED <<record, call, presented, broken, faults>>

---------------------------------------------------------------------------

RefreshStep(c) ==
    \/ Claim(c) \/ ReadRefreshRecord(c) \/ RotateRefreshToken(c) \/ RevokeRefreshFamily(c)
    \/ Answer(c) \/ Refused(c) \/ AnswerFails(c) \/ Crash(c)
SessionStep(c) ==
    \/ \E u \in Users, op \in {"login", "adminLogin"} : Login(c, op, u)
    \/ CreateSession(c) \/ AdminLogin(c) \/ RevokeSession(c) \/ RevokeAllSessions(c)
    \/ \E s \in Sessions : Logout(c, s) \/ LogoutAll(c, s)
    \/ \E t \in Tokens, k \in Keys : Refresh(c, t, k)

Next ==
    \/ \E c \in Callers : RefreshStep(c) \/ SessionStep(c)
    \/ \E u \in Users, ends \in BOOLEAN : ChangeAccount(u, ends)
    \/ \E s \in Sessions : RevokeUserSession(s)
    \/ \E u \in Users, k \in Keys : Expire(u, k)

Spec == Init /\ [][Next]_sessionVars

---------------------------------------------------------------------------
(* Properties *)

\* The refresh tokens of a session form one line: each is exchanged at most
\* once, whatever requests race, and only the last one can still be used.
SingleLine ==
    /\ \A t, r \in Tokens : t # r /\ token[t].parent = token[r].parent => token[t].parent = 0
    /\ \A t, r \in Tokens : Live(t) /\ Live(r) /\ token[t].session = token[r].session => t = r

\* A session is ended for the reuse of a token only when one of its tokens was
\* really presented under two keys, or when the answer of the server to the one
\* key was lost: a device that repeats its request under the same key keeps its
\* session whatever else happens, revocations and other requests included.
ReuseIsReal ==
    \A s \in Sessions : session[s].revoked = "reuse" =>
        \E t \in TokensOf({s}) : t \in broken \/ Cardinality(presented[t]) > 1
=============================================================================
