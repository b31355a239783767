-------------------------------- MODULE Sessions --------------------------------
(***************************************************************************)
(* The sessions of one account: refresh tokens, their rotation and their   *)
(* revocation, as PostgreSQL transactions under READ COMMITTED.  A step is *)
(* a statement; a statement that must wait for a row is not enabled, and a *)
(* transaction that waits in a circle is rolled back.  What a transaction  *)
(* has written shows with its commit.                                      *)
(*                                                                         *)
(* The row of the user is locked FOR UPDATE by a password reset, and FOR   *)
(* KEY SHARE by the foreign key of every new refresh token: the two wait   *)
(* for each other.                                                         *)
(***************************************************************************)
EXTENDS Integers, FiniteSets

CONSTANTS
    Tokens,        \* refresh tokens that can be made: a bound
    Requests,      \* numbers of password reset requests: a bound
    Procs,         \* requests under way at one time
    NoOne,         \* not a process
    NoToken        \* not a token

VARIABLES
    token,         \* a row of refresh_tokens: live until revoked_at is set
    succ,          \* refresh_tokens.replaced_by_token_id
    expired,       \* tokens whose expires_at is past
    password,      \* the number of resets that users.password_hash has seen
    op,            \* what each process is doing
    userLock,      \* who holds the row of the user FOR UPDATE
    keyShare,      \* who holds it FOR KEY SHARE
    rowLock,       \* who holds the row of a token
    family,        \* ghost: the login that a token descends from
    born           \* ghost: the password when that login made its token

lockVars == <<userLock, keyShare, rowLock>>
sessionVars == <<token, succ, expired, password, op, lockVars, family, born>>

ASSUME SessionsAssumption ==
    /\ NoOne \notin Procs /\ NoToken \notin Tokens
    /\ Requests \subseteq Nat /\ 0 \notin Requests

Idle == [kind |-> "idle", pc |-> "done", tok |-> NoToken, new |-> NoToken,
         found |-> {}, todo |-> {}, hit |-> {}, req |-> 0]

Ops == [kind : {"idle", "login", "rotate", "logout", "confirm"},
        pc : {"done", "lock", "insert", "mark", "revokeAll", "revoking"},
        tok : Tokens \cup {NoToken}, new : Tokens \cup {NoToken},
        found : SUBSET Tokens, todo : SUBSET Tokens, hit : SUBSET Tokens,
        req : Requests \cup {0}]

SessionTypeOK ==
    /\ token \in [Tokens -> {"none", "uncommitted", "live", "revoked", "replaced", "deleted"}]
    /\ succ \in [Tokens -> Tokens \cup {NoToken}]
    /\ expired \subseteq Tokens
    /\ password \in Nat
    /\ op \in [Procs -> Ops]
    /\ userLock \in Procs \cup {NoOne}
    /\ keyShare \subseteq Procs
    /\ rowLock \in [Tokens -> Procs \cup {NoOne}]
    /\ family \in [Tokens -> Tokens]
    /\ born \in [Tokens -> Nat]

SessionInit ==
    /\ token = [t \in Tokens |-> "none"]
    /\ succ = [t \in Tokens |-> NoToken]
    /\ expired = {} /\ password = 0
    /\ op = [p \in Procs |-> Idle]
    /\ userLock = NoOne /\ keyShare = {}
    /\ rowLock = [t \in Tokens |-> NoOne]
    /\ family = [t \in Tokens |-> t]
    /\ born = [t \in Tokens |-> 0]

Goto(p, pc) == op' = [op EXCEPT ![p].pc = pc]

\* Commit or rollback: the locks go, whatever was written.
Release(p) ==
    /\ userLock' = IF userLock = p THEN NoOne ELSE userLock
    /\ keyShare' = keyShare \ {p}
    /\ rowLock' = [t \in Tokens |-> IF rowLock[t] = p THEN NoOne ELSE rowLock[t]]

Finish(p) == op' = [op EXCEPT ![p] = Idle] /\ Release(p)

Free(t, p) == rowLock[t] \in {NoOne, p}

Exists(t) == token[t] \in {"live", "revoked", "replaced"}

-----------------------------------------------------------------------------
\* Login: two statements without a transaction around them.

\* Bound: who begins what makes a token finds one that nobody else needs.
Unmade ==
    Cardinality({n \in Tokens : token[n] = "none"}) >
        Cardinality({p \in Procs : op[p].kind \in {"login", "rotate"} /\ op[p].new = NoToken})

\* LoginUser: the password is right when it is read.
LoginUser(p) ==
    /\ op[p] = Idle /\ Unmade
    /\ op' = [op EXCEPT ![p] = [Idle EXCEPT !.kind = "login", !.pc = "insert"]]
    /\ UNCHANGED <<token, succ, expired, password, lockVars, family, born>>

\* Mutant of UserSharable: no foreign key.
UserIgnored(p) == TRUE

\* The foreign key of a new token wants the user's row FOR KEY SHARE.
UserSharable(p) == userLock \in {NoOne, p}

IssueTokenPair(p) ==
    /\ op[p].kind = "login" /\ op[p].pc = "insert"
    /\ UserSharable(p)
    /\ \E n \in Tokens :
          /\ token[n] = "none"
          /\ token' = [token EXCEPT ![n] = "live"]
          /\ born' = [born EXCEPT ![n] = password]
    /\ Finish(p)
    /\ UNCHANGED <<succ, expired, password, family>>

-----------------------------------------------------------------------------
\* Rotation and logout: transactions on the row of the token presented.

Present(p, kind, t) ==
    /\ op[p] = Idle /\ Exists(t)
    /\ kind = "rotate" /\ token[t] = "live" => Unmade
    /\ op' = [op EXCEPT ![p] = [Idle EXCEPT !.kind = kind, !.pc = "lock", !.tok = t]]
    /\ UNCHANGED <<token, succ, expired, password, lockVars, family, born>>

Lock(t, p) == rowLock' = [rowLock EXCEPT ![t] = p] /\ UNCHANGED <<userLock, keyShare>>

GetRefreshTokenForUpdate(p) == Free(op[p].tok, p) /\ Lock(op[p].tok, p)

\* A token that was replaced is used again: the sessions of the account that
\* the next statement finds are revoked.
RotateReused(p) ==
    /\ op[p].kind = "rotate" /\ op[p].pc = "lock" /\ token[op[p].tok] = "replaced"
    /\ GetRefreshTokenForUpdate(p)
    /\ Goto(p, "revokeAll")
    /\ UNCHANGED <<token, succ, expired, password, family, born>>

\* Mutant of RotateRefused: an early return forgets the rollback.
RotateLeftOpen(p) ==
    /\ op[p].kind = "rotate" /\ op[p].pc = "lock"
    /\ ~Exists(op[p].tok) \/ token[op[p].tok] = "revoked" \/ op[p].tok \in expired
    /\ token[op[p].tok] # "replaced"
    /\ GetRefreshTokenForUpdate(p)
    /\ op' = [op EXCEPT ![p] = Idle]
    /\ UNCHANGED <<token, succ, expired, password, family, born>>

\* The token is gone, revoked or expired; the lock is given back at once.
RotateRefused(p) ==
    /\ op[p].kind = "rotate" /\ op[p].pc = "lock"
    /\ ~Exists(op[p].tok) \/ token[op[p].tok] = "revoked" \/ op[p].tok \in expired
    /\ token[op[p].tok] # "replaced"
    /\ Free(op[p].tok, p)
    /\ Finish(p)
    /\ UNCHANGED <<token, succ, expired, password, family, born>>

RotateAccepted(p) ==
    /\ op[p].kind = "rotate" /\ op[p].pc = "lock"
    /\ token[op[p].tok] = "live" /\ op[p].tok \notin expired
    /\ GetRefreshTokenForUpdate(p)
    /\ Goto(p, "insert")
    /\ UNCHANGED <<token, succ, expired, password, family, born>>

\* CreateRefreshToken within the rotation.
RotateInsert(p) ==
    /\ op[p].kind = "rotate" /\ op[p].pc = "insert"
    /\ UserSharable(p)
    /\ keyShare' = keyShare \cup {p}
    /\ \E n \in Tokens :
          /\ token[n] = "none"
          /\ token' = [token EXCEPT ![n] = "uncommitted"]
          /\ op' = [op EXCEPT ![p].pc = "mark", ![p].new = n]
    /\ UNCHANGED <<succ, expired, password, userLock, rowLock, family, born>>

\* Mutant of MarkRefreshTokenReplaced: revoked_at is not set.
MarkWithoutRevoking(p) ==
    LET t == op[p].tok  n == op[p].new
    IN  /\ op[p].kind = "rotate" /\ op[p].pc = "mark" /\ token[t] = "live"
        /\ token' = [token EXCEPT ![n] = "live"]
        /\ succ' = [succ EXCEPT ![t] = n]
        /\ family' = [family EXCEPT ![n] = family[t]]
        /\ born' = [born EXCEPT ![n] = born[t]]
        /\ Finish(p)
        /\ UNCHANGED <<expired, password>>

\* MarkRefreshTokenReplaced and the commit.
MarkRefreshTokenReplaced(p) ==
    LET t == op[p].tok  n == op[p].new
    IN  /\ op[p].kind = "rotate" /\ op[p].pc = "mark" /\ token[t] = "live"
        /\ token' = [token EXCEPT ![t] = "replaced", ![n] = "live"]
        /\ succ' = [succ EXCEPT ![t] = n]
        /\ family' = [family EXCEPT ![n] = family[t]]
        /\ born' = [born EXCEPT ![n] = born[t]]
        /\ Finish(p)
        /\ UNCHANGED <<expired, password>>

\* RevokeRefreshToken, when the token was replaced: that of its successors too.
LogoutReplaced(p) ==
    /\ op[p].kind = "logout" /\ op[p].pc = "lock" /\ token[op[p].tok] = "replaced"
    /\ GetRefreshTokenForUpdate(p)
    /\ Goto(p, "revokeAll")
    /\ UNCHANGED <<token, succ, expired, password, family, born>>

\* RevokeRefreshToken otherwise; a token that is not live is left as it is.
Logout(p) ==
    /\ op[p].kind = "logout" /\ op[p].pc = "lock" /\ token[op[p].tok] # "replaced"
    /\ Free(op[p].tok, p)
    /\ token' = [token EXCEPT ![op[p].tok] = IF @ = "live" THEN "revoked" ELSE @]
    /\ Finish(p)
    /\ UNCHANGED <<succ, expired, password, family, born>>

-----------------------------------------------------------------------------
\* RevokeAllUserRefreshTokens: the rows that its snapshot shows, each of them
\* locked, waiting if need be, and looked at again.  The user's row is locked
\* for a reset only: after a reuse or a logout, a rotation or a login under
\* way may commit a token that the snapshot did not show.

RevokeAllStart(p) ==
    LET live == {t \in Tokens : token[t] = "live"}
    IN  /\ op[p].pc = "revokeAll"
        /\ op' = [op EXCEPT ![p].pc = "revoking", ![p].found = live, ![p].todo = live]
        /\ UNCHANGED <<token, succ, expired, password, lockVars, family, born>>

\* Mutant of RevokeNext: SKIP LOCKED.
RevokeSkipLocked(p) ==
    /\ op[p].pc = "revoking"
    /\ \E t \in op[p].todo :
          /\ IF Free(t, p) THEN Lock(t, p) ELSE UNCHANGED lockVars
          /\ op' = [op EXCEPT ![p].todo = @ \ {t},
                              ![p].hit = IF Free(t, p) THEN @ \cup {t} ELSE @]
    /\ UNCHANGED <<token, succ, expired, password, family, born>>

RevokeNext(p) ==
    /\ op[p].pc = "revoking"
    /\ \E t \in op[p].todo :
          /\ Free(t, p)
          /\ Lock(t, p)
          /\ op' = [op EXCEPT ![p].todo = @ \ {t},
                              ![p].hit = IF token[t] = "live" THEN @ \cup {t} ELSE @]
    /\ UNCHANGED <<token, succ, expired, password, family, born>>

Revoked(p) == [t \in Tokens |-> IF t \in op[p].hit THEN "revoked" ELSE token[t]]

RevokeCommit(p) ==
    /\ op[p].kind \in {"rotate", "logout"} /\ op[p].pc = "revoking" /\ op[p].todo = {}
    /\ token' = Revoked(p)
    /\ Finish(p)
    /\ UNCHANGED <<succ, expired, password, family, born>>

-----------------------------------------------------------------------------

\* Whom p's next statement has to wait for.
Blockers(p) ==
    CASE op[p].pc = "lock" /\ op[p].kind # "confirm" -> {rowLock[op[p].tok]} \ {NoOne, p}
      [] op[p].pc = "lock" /\ op[p].kind = "confirm" ->
            (keyShare \cup {userLock}) \ {NoOne, p}
      [] op[p].pc = "insert" -> {userLock} \ {NoOne, p}
      [] op[p].pc = "revoking" /\ (\A t \in op[p].todo : ~Free(t, p)) ->
            {rowLock[t] : t \in op[p].todo}
      [] OTHER -> {}

\* p waits in a circle.
Deadlocked(p) ==
    \E S \in SUBSET Procs :
        /\ p \in S
        /\ \A q \in S : /\ \E r \in S : r \in Blockers(q)
                        /\ \E r \in S : q \in Blockers(r)

\* The transaction is rolled back: as the victim of a deadlock, or because
\* its request or its connection is gone.
Abort(p) ==
    /\ op[p] # Idle
    /\ token' = [t \in Tokens |-> IF t = op[p].new THEN "none" ELSE token[t]]
    /\ Finish(p)
    /\ UNCHANGED <<succ, expired, password, family, born>>

\* A successor expires after the token it replaced.
Expire(t) ==
    /\ Exists(t) /\ t \notin expired
    /\ \A u \in Tokens : succ[u] = t => u \in expired
    /\ expired' = expired \cup {t}
    /\ UNCHANGED <<token, succ, password, op, lockVars, family, born>>

\* The cleanup worker deletes what has expired, once the rows are free; who
\* was replaced by a deleted token is no longer known to be replaced.
DeleteExpiredRefreshTokens ==
    LET D == {t \in expired : Exists(t)}
    IN  /\ D # {} /\ \A t \in D : rowLock[t] = NoOne
        /\ token' = [t \in Tokens |->
                        IF t \in D THEN "deleted"
                        ELSE IF token[t] = "replaced" /\ succ[t] \in D THEN "revoked"
                        ELSE token[t]]
        /\ succ' = [t \in Tokens |-> IF t \in D \/ succ[t] \in D THEN NoToken ELSE succ[t]]
        /\ expired' = expired \ D
        /\ UNCHANGED <<password, op, lockVars, family, born>>

\* A step of the transaction or the statements p has begun.
SessionStep(p) ==
    \/ IssueTokenPair(p)
    \/ RotateReused(p) \/ RotateRefused(p) \/ RotateAccepted(p)
    \/ RotateInsert(p) \/ MarkRefreshTokenReplaced(p)
    \/ LogoutReplaced(p) \/ Logout(p)
    \/ RevokeAllStart(p) \/ RevokeNext(p) \/ RevokeCommit(p)

SessionNext ==
    \/ \E p \in Procs :
          \/ LoginUser(p)
          \/ \E t \in Tokens : Present(p, "rotate", t) \/ Present(p, "logout", t)
          \/ SessionStep(p)
          \/ Abort(p)
    \/ \E t \in Tokens : Expire(t)
    \/ DeleteExpiredRefreshTokens

-----------------------------------------------------------------------------

\* However often and however concurrently a token is used, a login has one
\* session at most: it never splits into two that go on side by side.
OneSessionPerLogin ==
    \A t, u \in Tokens :
        token[t] = "live" /\ token[u] = "live" /\ family[t] = family[u] => t = u

\* ConfirmPasswordReset ends every session: what is live descends from a
\* login whose token was made under the present password, in whatever order
\* rotations, logins and the reset took their locks.
ResetEndsSessions == \A t \in Tokens : token[t] = "live" => born[t] = password

\* A replaced token that is used again, to rotate it or to log out, ends
\* every session there was when the revocation began, also one whose row a
\* rotation has locked and may give back, and with them the replacement of
\* that very token.  (What a rotation or a login under way commits later may
\* stay: the user's row is not locked.)
ReuseEndsSessions ==
    [][\A p \in Procs : RevokeCommit(p) =>
          \A t \in Tokens : token'[t] = "live" =>
              t \notin op[p].found /\ t # succ[op[p].tok]]_sessionVars

=============================================================================
