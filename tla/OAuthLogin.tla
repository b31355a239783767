------------------------------- MODULE OAuthLogin -------------------------------
(***************************************************************************)
(* Login with Google: an identity, known by its subject, is linked to the  *)
(* user with its verified email, who is created if need be, and a one-time *)
(* code is exchanged for a session.  A step is a statement of the linking  *)
(* transaction; what it has written shows with its commit, and a statement *)
(* that must wait for a row or an index entry of another transaction is    *)
(* not enabled.  Nobody waits once it has inserted an account, so there is *)
(* no circle.  Users register, change their email and delete themselves    *)
(* meanwhile.                                                              *)
(***************************************************************************)
EXTENDS Integers, FiniteSets

CONSTANTS
    Subjects,      \* Google identities
    Emails,        \* verified emails; that of an identity may change
    Users,         \* user ids that can be given out: a bound
    Codes,         \* login codes that can be made: a bound
    Procs,         \* requests under way at one time
    None           \* no user, email, code or process

VARIABLES
    email,         \* users.email, None without a row
    gone,          \* users that were deleted: ids are not used again
    linked,        \* oauth_accounts: the user of a subject
    reported,      \* oauth_accounts.provider_email
    code,          \* oauth_login_codes: state, user, and the subject (ghost)
    codeLock,      \* who holds the row of a code
    userLock,      \* who holds the row of a user, or the new row
    sessions,      \* ghost: refresh tokens issued for a code
    op             \* what each process is doing

userVars == <<email, gone>>
linkVars == <<linked, reported>>
codeVars == <<code, codeLock, sessions>>
vars == <<userVars, linkVars, codeVars, userLock, op>>

ASSUME OAuthAssumption == None \notin Users \cup Emails \cup Procs \cup Subjects \cup Codes

Idle == [pc |-> "idle", subject |-> None, mail |-> None, user |-> None,
         fresh |-> FALSE, code |-> None]

Ops == [pc : {"idle", "email", "lock", "user", "recheck", "insert", "commit", "retry",
              "code", "exchange", "issue"},
        subject : Subjects \cup {None}, mail : Emails \cup {None},
        user : Users \cup {None}, fresh : BOOLEAN, code : Codes \cup {None}]

TypeOK ==
    /\ email \in [Users -> Emails \cup {None}]
    /\ gone \subseteq Users
    /\ linked \in [Subjects -> Users \cup {None}]
    /\ reported \in [Subjects -> Emails \cup {None}]
    /\ code \in [Codes -> [state : {"none", "open", "consumed", "deleted"},
                           user : Users \cup {None}, subject : Subjects \cup {None}]]
    /\ codeLock \in [Codes -> Procs \cup {None}]
    /\ userLock \in [Users -> Procs \cup {None}]
    /\ sessions \in [Codes -> Nat]
    /\ op \in [Procs -> Ops]
    /\ \A p \in Procs : op[p].pc \in {"email", "recheck", "insert", "commit", "code"}
                        => op[p].user # None

NoCode == [state |-> "none", user |-> None, subject |-> None]

Init ==
    /\ email = [u \in Users |-> None] /\ gone = {}
    /\ linked = [s \in Subjects |-> None] /\ reported = [s \in Subjects |-> None]
    /\ code = [c \in Codes |-> NoCode]
    /\ codeLock = [c \in Codes |-> None]
    /\ userLock = [u \in Users |-> None]
    /\ sessions = [c \in Codes |-> 0]
    /\ op = [p \in Procs |-> Idle]

Exists(u) == u # None /\ email[u] # None

\* A row that nobody has, nor is about to commit.
Unused(u) == email[u] = None /\ u \notin gone /\ userLock[u] = None

\* The unique index on lower(email): committed, or by a transaction under way.
Taken(e) ==
    \/ \E u \in Users : email[u] = e
    \/ \E p \in Procs : op[p].fresh /\ op[p].mail = e

Goto(p, pc) == op' = [op EXCEPT ![p].pc = pc]

Unlock(p) == userLock' = [u \in Users |-> IF userLock[u] = p THEN None ELSE userLock[u]]

\* The transaction ends and the login goes on with user u.
LoggedIn(p, u) ==
    /\ op' = [op EXCEPT ![p].pc = "code", ![p].user = u, ![p].fresh = FALSE]
    /\ Unlock(p)

\* The request ends; a transaction under way is rolled back.
Rollback(p) ==
    /\ op' = [op EXCEPT ![p] = Idle]
    /\ Unlock(p)
    /\ codeLock' = [c \in Codes |-> IF codeLock[c] = p THEN None ELSE codeLock[c]]

-----------------------------------------------------------------------------
\* Users.

RegisterUser(u, e) ==
    /\ Unused(u) /\ ~Taken(e)
    /\ email' = [email EXCEPT ![u] = e]
    /\ UNCHANGED <<gone, linkVars, codeVars, userLock, op>>

UpdateMe(u, e) ==
    /\ Exists(u) /\ userLock[u] = None /\ ~Taken(e)
    /\ email' = [email EXCEPT ![u] = e]
    /\ UNCHANGED <<gone, linkVars, codeVars, userLock, op>>

\* Accounts and codes go with the user.
DeleteMe(u) ==
    /\ Exists(u) /\ userLock[u] = None
    /\ \A c \in Codes : code[c].user = u => codeLock[c] = None
    /\ email' = [email EXCEPT ![u] = None]
    /\ gone' = gone \cup {u}
    /\ linked' = [s \in Subjects |-> IF linked[s] = u THEN None ELSE linked[s]]
    /\ reported' = [s \in Subjects |-> IF linked[s] = u THEN None ELSE reported[s]]
    /\ code' = [c \in Codes |->
                   IF code[c].user = u THEN [NoCode EXCEPT !.state = "deleted"] ELSE code[c]]
    /\ UNCHANGED <<codeLock, sessions, userLock, op>>

-----------------------------------------------------------------------------
\* AuthenticateGoogle

\* The first lookup, outside any transaction.
AuthenticateGoogle(p, s, e) ==
    /\ op[p] = Idle
    /\ op' = [op EXCEPT ![p] =
                 [Idle EXCEPT !.subject = s, !.mail = e, !.user = linked[s],
                              !.pc = IF linked[s] = None THEN "lock"
                                     ELSE IF reported[s] # e THEN "email" ELSE "code"]]
    /\ UNCHANGED <<userVars, linkVars, codeVars, userLock>>

\* UpdateOAuthAccountEmail of an account found before; it may be gone.
UpdateOAuthAccountEmail(p) ==
    LET s == op[p].subject
    IN  /\ op[p].pc = "email" /\ linked[s] = op[p].user
        /\ reported' = [reported EXCEPT ![s] = op[p].mail]
        /\ Goto(p, "code")
        /\ UNCHANGED <<userVars, linked, codeVars, userLock>>

AccountGone(p) ==
    /\ op[p].pc = "email" /\ linked[op[p].subject] # op[p].user
    /\ Rollback(p)
    /\ UNCHANGED <<userVars, linkVars, code, sessions>>

\* The transaction finds that someone has linked the identity: it takes that
\* link, and commits whatever else it has done.
FinishExistingLink(p) ==
    LET s == op[p].subject
        u == linked[s]
    IN  /\ op[p].pc \in {"lock", "recheck"} /\ u # None
        /\ reported' = [reported EXCEPT ![s] = op[p].mail]
        /\ IF op[p].fresh
           THEN email' = [email EXCEPT ![op[p].user] = op[p].mail]
           ELSE UNCHANGED email
        /\ LoggedIn(p, u)
        /\ UNCHANGED <<gone, linked, codeVars>>

NotLinkedYet(p) ==
    /\ op[p].pc \in {"lock", "recheck"} /\ linked[op[p].subject] = None
    /\ Goto(p, IF op[p].pc = "lock" THEN "user" ELSE "insert")
    /\ UNCHANGED <<userVars, linkVars, codeVars, userLock>>

\* GetOrCreateOAuthUser: the row of the user is locked, by its no-op update ...
GetOAuthUser(p) ==
    /\ op[p].pc = "user"
    /\ \E u \in Users :
          /\ email[u] = op[p].mail /\ userLock[u] = None
          /\ userLock' = [userLock EXCEPT ![u] = p]
          /\ op' = [op EXCEPT ![p].pc = "recheck", ![p].user = u]
    /\ UNCHANGED <<userVars, linkVars, codeVars>>

\* ... or made.
CreateOAuthUser(p) ==
    /\ op[p].pc = "user" /\ ~Taken(op[p].mail)
    /\ \E u \in Users :
          /\ Unused(u)
          /\ userLock' = [userLock EXCEPT ![u] = p]
          /\ op' = [op EXCEPT ![p].pc = "recheck", ![p].user = u, ![p].fresh = TRUE]
    /\ UNCHANGED <<userVars, linkVars, codeVars>>

\* An insert waits for another one of the same subject to commit or not.
SubjectPending(p) ==
    \E q \in Procs \ {p} : op[q].pc = "commit" /\ op[q].subject = op[p].subject

\* Mutant of CreateOAuthAccount: an existing link is overwritten.
UpsertOAuthAccount(p) ==
    /\ op[p].pc = "insert" /\ ~SubjectPending(p)
    /\ Goto(p, "commit")
    /\ UNCHANGED <<userVars, linkVars, codeVars, userLock>>

CreateOAuthAccount(p) ==
    /\ op[p].pc = "insert" /\ ~SubjectPending(p) /\ linked[op[p].subject] = None
    /\ \A s \in Subjects : linked[s] # op[p].user
    /\ Goto(p, "commit")
    /\ UNCHANGED <<userVars, linkVars, codeVars, userLock>>

\* UNIQUE (provider, provider_user_id): a concurrent login was faster.
ConcurrentlyLinked(p) ==
    /\ op[p].pc = "insert" /\ linked[op[p].subject] # None
    /\ op' = [op EXCEPT ![p].pc = "retry", ![p].user = None, ![p].fresh = FALSE]
    /\ Unlock(p)
    /\ UNCHANGED <<userVars, linkVars, codeVars>>

\* Mutant of OAuthAccountConflict: the user logs in all the same.
LogInAnyway(p) ==
    /\ op[p].pc = "insert" /\ ~SubjectPending(p) /\ linked[op[p].subject] = None
    /\ \E s \in Subjects : linked[s] = op[p].user
    /\ LoggedIn(p, op[p].user)
    /\ UNCHANGED <<userVars, linkVars, codeVars>>

\* UNIQUE (user_id, provider): the user has another identity.
OAuthAccountConflict(p) ==
    /\ op[p].pc = "insert" /\ ~SubjectPending(p) /\ linked[op[p].subject] = None
    /\ \E s \in Subjects : linked[s] = op[p].user
    /\ Rollback(p)
    /\ UNCHANGED <<userVars, linkVars, code, sessions>>

CommitLink(p) ==
    LET s == op[p].subject
        u == op[p].user
    IN  /\ op[p].pc = "commit"
        /\ linked' = [linked EXCEPT ![s] = u]
        /\ reported' = [reported EXCEPT ![s] = op[p].mail]
        /\ email' = IF op[p].fresh THEN [email EXCEPT ![u] = op[p].mail] ELSE email
        /\ LoggedIn(p, u)
        /\ UNCHANGED <<gone, codeVars>>

LoginExistingGoogleIdentity(p) ==
    LET s == op[p].subject
    IN  /\ op[p].pc = "retry" /\ linked[s] # None
        /\ reported' = [reported EXCEPT ![s] = op[p].mail]
        /\ LoggedIn(p, linked[s])
        /\ UNCHANGED <<userVars, linked, codeVars>>

LinkLost(p) ==
    /\ op[p].pc = "retry" /\ linked[op[p].subject] = None
    /\ Rollback(p)
    /\ UNCHANGED <<userVars, linkVars, code, sessions>>

-----------------------------------------------------------------------------
\* Login codes.

\* CreateOAuthLoginCode; the foreign key refuses a user who is gone.
CreateGoogleLoginCode(p) ==
    /\ op[p].pc = "code"
    /\ IF Exists(op[p].user)
       THEN \E c \in Codes :
               /\ code[c] = NoCode
               /\ code' = [code EXCEPT ![c] = [state |-> "open", user |-> op[p].user,
                                               subject |-> op[p].subject]]
       ELSE UNCHANGED code
    /\ op' = [op EXCEPT ![p] = Idle]
    /\ UNCHANGED <<userVars, linkVars, codeLock, sessions, userLock>>

ExchangeLoginCode(p, c) ==
    /\ op[p] = Idle /\ code[c].state \in {"open", "consumed"}
    /\ op' = [op EXCEPT ![p] = [Idle EXCEPT !.pc = "exchange", !.code = c]]
    /\ UNCHANGED <<userVars, linkVars, codeVars, userLock>>

GetOAuthLoginCodeForUpdate(p) ==
    LET c == op[p].code
    IN  /\ op[p].pc = "exchange" /\ codeLock[c] = None /\ code[c].state = "open"
        /\ codeLock' = [codeLock EXCEPT ![c] = p]
        /\ Goto(p, "issue")
        /\ UNCHANGED <<userVars, linkVars, code, sessions, userLock>>

\* Consumed, expired or deleted meanwhile; expiry may come at any time.
ExchangeRefused(p) ==
    /\ op[p].pc = "exchange" /\ codeLock[op[p].code] = None
    /\ Rollback(p)
    /\ UNCHANGED <<userVars, linkVars, code, sessions>>

\* Mutant of ConsumeOAuthLoginCode: IssueTokenPair, which does not take part
\* in the transaction, and an error after it.
IssueOutsideTransaction(p) ==
    LET c == op[p].code
    IN  /\ op[p].pc = "issue"
        /\ sessions' = [sessions EXCEPT ![c] = @ + 1]
        /\ code' \in {code, [code EXCEPT ![c].state = "consumed"]}
        /\ Rollback(p)
        /\ UNCHANGED <<userVars, linkVars>>

\* IssueTokenPairInTx, ConsumeOAuthLoginCode and the commit; a code that is
\* consumed already rolls the session back.
ConsumeOAuthLoginCode(p) ==
    LET c == op[p].code
    IN  /\ op[p].pc = "issue"
        /\ IF code[c].state = "open"
           THEN /\ sessions' = [sessions EXCEPT ![c] = @ + 1]
                /\ code' = [code EXCEPT ![c].state = "consumed"]
           ELSE UNCHANGED <<sessions, code>>
        /\ Rollback(p)
        /\ UNCHANGED <<userVars, linkVars>>

\* The cleanup worker, once a code has expired.
DeleteExpiredOAuthLoginCodes(c) ==
    /\ code[c].state \in {"open", "consumed"} /\ codeLock[c] = None
    /\ code' = [code EXCEPT ![c] = [NoCode EXCEPT !.state = "deleted"]]
    /\ UNCHANGED <<userVars, linkVars, codeLock, sessions, userLock, op>>

\* The request or its connection is gone.
Abort(p) ==
    /\ op[p] # Idle
    /\ Rollback(p)
    /\ UNCHANGED <<userVars, linkVars, code, sessions>>

LinkStep(p) ==
    \/ UpdateOAuthAccountEmail(p) \/ AccountGone(p)
    \/ FinishExistingLink(p) \/ NotLinkedYet(p)
    \/ GetOAuthUser(p) \/ CreateOAuthUser(p)
    \/ CreateOAuthAccount(p) \/ ConcurrentlyLinked(p) \/ OAuthAccountConflict(p)
    \/ CommitLink(p) \/ LoginExistingGoogleIdentity(p) \/ LinkLost(p)

Next ==
    \/ \E u \in Users : \/ \E e \in Emails : RegisterUser(u, e) \/ UpdateMe(u, e)
                        \/ DeleteMe(u)
    \/ \E p \in Procs :
          \/ \E s \in Subjects, e \in Emails : AuthenticateGoogle(p, s, e)
          \/ LinkStep(p) \/ CreateGoogleLoginCode(p)
          \/ \E c \in Codes : ExchangeLoginCode(p, c)
          \/ GetOAuthLoginCodeForUpdate(p) \/ ExchangeRefused(p) \/ ConsumeOAuthLoginCode(p)
          \/ Abort(p)
    \/ \E c \in Codes : DeleteExpiredOAuthLoginCodes(c)

Spec == Init /\ [][Next]_vars

-----------------------------------------------------------------------------

\* Whatever races to link an identity, a login ends with the user it is
\* linked to in the end: a code that can be exchanged belongs to that user.
CodesFollowLinks ==
    \A c \in Codes : code[c].state = "open" => linked[code[c].subject] = code[c].user

\* A code makes one session at most, however often and however concurrently
\* it is exchanged and whatever is rolled back, and is consumed if it did.
OneSessionPerCode ==
    \A c \in Codes : /\ sessions[c] <= 1
                     /\ code[c].state = "open" => sessions[c] = 0

\* An identity never changes hands: it leaves its user only with the user.
LinksAreKept ==
    [][\A s \in Subjects :
          linked[s] # None /\ linked'[s] # linked[s] => linked[s] \in gone']_vars

=============================================================================
