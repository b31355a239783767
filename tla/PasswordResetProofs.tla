-------------------------- MODULE PasswordResetProofs --------------------------
(***************************************************************************)
(* Sessions and password resets of one account, for any number of tokens,  *)
(* requests, processes and attempts.                                       *)
(***************************************************************************)
EXTENDS PasswordReset, TLAPS

Committed(t) == token[t] \notin {"none", "uncommitted"}

\* What each process is doing fits what it has written and locked.
Shapes ==
    /\ \A p \in Procs :
          /\ op[p].kind \in {"rotate", "logout"} => op[p].tok \in Tokens
          /\ op[p].kind = "confirm" => /\ op[p].req \in Requests
                                       /\ op[p].pc \in {"lock", "revokeAll", "revoking"}
          /\ op[p].new # NoToken <=> op[p].pc = "mark"
          /\ op[p].pc = "mark" => p \in keyShare /\ token[op[p].new] = "uncommitted"
          /\ \A t \in op[p].todo \cup op[p].hit : Committed(t)
    /\ \A p, q \in Procs :
          op[p].pc = "mark" /\ op[q].pc = "mark" /\ op[p].new = op[q].new => p = q

\* A login is known by its first token.
Families ==
    \A t \in Tokens : IF Committed(t) THEN Committed(family[t]) ELSE family[t] = t

Confirming(p) == op[p].kind = "confirm" /\ op[p].pc \in {"revokeAll", "revoking"}

\* A confirmation has the user's row to itself and its request is still the
\* one it found; a session that it does not know of cannot appear.
Holding ==
    \A p \in Procs : Confirming(p) =>
        /\ userLock = p /\ keyShare \subseteq {p}
        /\ request[op[p].req] = "verified"
        /\ op[p].pc = "revoking" =>
              \A t \in Tokens : token[t] = "live" => t \in op[p].todo \cup op[p].hit

Active(r) == request[r] \in {"open", "verified"}

\* Requests are made in order, and the one under way is the newest.
Requested ==
    /\ \A r \in Requests : Active(r) => \A s \in Requests : request[s] # "none" => s <= r
    /\ \A r, s \in Requests : request[r] # "none" /\ s < r => request[s] # "none"
    /\ \A r \in Requests : used[r] # 0 => request[r] \in {"consumed", "deleted"}

Safe == OneSessionPerLogin /\ ResetEndsSessions /\ OneResetPerRequest

ResetInv == TypeOK /\ Shapes /\ Families /\ Holding /\ Requested /\ Safe

LEMMA InitReset == Init => ResetInv
<1> SUFFICES ASSUME Init PROVE ResetInv
  OBVIOUS
<1> USE SessionsAssumption, PasswordResetAssumption DEF Init, SessionInit
<1>1. TypeOK
  BY DEF TypeOK, SessionTypeOK, Idle, Ops
<1>2. Shapes /\ Families /\ Holding
  BY DEF Shapes, Families, Holding, Committed, Confirming, Idle
<1>3. Requested /\ Safe
  BY DEF Requested, Safe, Active, OneSessionPerLogin, ResetEndsSessions, OneResetPerRequest
<1> QED
  BY <1>1, <1>2, <1>3 DEF ResetInv

-----------------------------------------------------------------------------
\* Types

Statuses == {"none", "uncommitted", "live", "revoked", "replaced", "deleted"}
PCs == {"done", "lock", "insert", "mark", "revokeAll", "revoking"}

OpsTyped == op \in [Procs -> Ops]

LocksTyped ==
    /\ userLock \in Procs \cup {NoOne}
    /\ keyShare \subseteq Procs
    /\ rowLock \in [Tokens -> Procs \cup {NoOne}]

LEMMA OpTyped ==
    ASSUME OpsTyped, NEW p \in Procs, NEW r \in Ops, op' = [op EXCEPT ![p] = r]
    PROVE  OpsTyped'
BY DEF OpsTyped

LEMMA GotoTyped ==
    ASSUME OpsTyped, NEW p \in Procs, NEW pc \in PCs, Goto(p, pc)
    PROVE  OpsTyped'
<1>1. op[p] \in Ops /\ op' = [op EXCEPT ![p] = [op[p] EXCEPT !.pc = pc]]
  BY DEF Goto, OpsTyped
<1>2. [op[p] EXCEPT !.pc = pc] \in Ops
  BY <1>1 DEF Ops, PCs
<1> QED
  BY <1>1, <1>2, OpTyped

LEMMA FinishTyped ==
    ASSUME OpsTyped, LocksTyped, NEW p \in Procs, Finish(p)
    PROVE  OpsTyped' /\ LocksTyped'
<1>1. Idle \in Ops
  BY DEF Idle, Ops
<1>2. OpsTyped'
  BY <1>1, OpTyped DEF Finish
<1> QED
  BY <1>2 DEF Finish, Release, LocksTyped

LEMMA LockTyped ==
    ASSUME LocksTyped, NEW p \in Procs, NEW t, Lock(t, p)
    PROVE  LocksTyped'
BY DEF LocksTyped, Lock

\* The rows of refresh_tokens.
TokensTyped ==
    /\ token \in [Tokens -> Statuses]
    /\ succ \in [Tokens -> Tokens \cup {NoToken}]
    /\ expired \subseteq Tokens
    /\ family \in [Tokens -> Tokens]
    /\ born \in [Tokens -> Nat]

LEMMA SessionTypeStep ==
    ASSUME TokensTyped, OpsTyped, LocksTyped, Shapes, password \in Nat, SessionNext
    PROVE  TokensTyped' /\ OpsTyped' /\ LocksTyped' /\ password' \in Nat
<1> DEFINE Good == TokensTyped' /\ OpsTyped' /\ LocksTyped' /\ password' \in Nat
<1>1. ASSUME NEW p \in Procs, LoginUser(p)
      PROVE  Good
  <2>1. [Idle EXCEPT !.kind = "login", !.pc = "insert"] \in Ops
    BY DEF Idle, Ops
  <2>2. OpsTyped'
    BY <1>1, <2>1, OpTyped DEF LoginUser
  <2> QED
    BY <1>1, <2>2 DEF LoginUser, lockVars, TokensTyped, LocksTyped
<1>2. ASSUME NEW p \in Procs, NEW t \in Tokens, NEW k \in {"rotate", "logout"},
             Present(p, k, t)
      PROVE  Good
  <2>1. [Idle EXCEPT !.kind = k, !.pc = "lock", !.tok = t] \in Ops
    BY DEF Idle, Ops
  <2>2. OpsTyped'
    BY <1>2, <2>1, OpTyped DEF Present
  <2> QED
    BY <1>2, <2>2 DEF Present, lockVars, TokensTyped, LocksTyped
<1>3. ASSUME NEW p \in Procs, IssueTokenPair(p)
      PROVE  Good
  BY <1>3, FinishTyped DEF IssueTokenPair, TokensTyped, Statuses
<1>4. ASSUME NEW p \in Procs,
             RotateReused(p) \/ RotateAccepted(p) \/ LogoutReplaced(p)
      PROVE  Good
  <2>1. OpsTyped'
    BY <1>4, GotoTyped DEF RotateReused, RotateAccepted, LogoutReplaced, PCs
  <2>2. LocksTyped'
    BY <1>4, LockTyped DEF RotateReused, RotateAccepted, LogoutReplaced,
                           GetRefreshTokenForUpdate
  <2> QED
    BY <1>4, <2>1, <2>2 DEF RotateReused, RotateAccepted, LogoutReplaced, TokensTyped
<1>5. ASSUME NEW p \in Procs, RotateRefused(p)
      PROVE  Good
  BY <1>5, FinishTyped DEF RotateRefused, TokensTyped
<1>6. ASSUME NEW p \in Procs, RotateInsert(p)
      PROVE  Good
  <2>1. PICK n \in Tokens :
           /\ token' = [token EXCEPT ![n] = "uncommitted"]
           /\ op' = [op EXCEPT ![p] = [op[p] EXCEPT !.pc = "mark", !.new = n]]
    BY ZenonT(40), <1>6 DEF RotateInsert
  <2>2. [op[p] EXCEPT !.pc = "mark", !.new = n] \in Ops
    BY DEF OpsTyped, Ops
  <2>3. OpsTyped'
    BY <2>1, <2>2, OpTyped
  <2> QED
    BY <1>6, <2>1, <2>3 DEF RotateInsert, TokensTyped, Statuses, LocksTyped
<1>7. ASSUME NEW p \in Procs, MarkRefreshTokenReplaced(p)
      PROVE  Good
  <2>1. op[p].tok \in Tokens /\ op[p].new \in Tokens
    BY <1>7 DEF MarkRefreshTokenReplaced, Shapes, OpsTyped, Ops
  <2> QED
    BY <1>7, <2>1, FinishTyped DEF MarkRefreshTokenReplaced, TokensTyped, Statuses
<1>8. ASSUME NEW p \in Procs, Logout(p)
      PROVE  Good
  BY <1>8, FinishTyped DEF Logout, TokensTyped, Statuses
<1>9. ASSUME NEW p \in Procs, RevokeAllStart(p)
      PROVE  Good
  <2> DEFINE live == {t \in Tokens : token[t] = "live"}
  <2>1. [op[p] EXCEPT !.pc = "revoking", !.found = live, !.todo = live] \in Ops
    BY DEF OpsTyped, Ops
  <2>2. OpsTyped'
    <3>1. op' = [op EXCEPT ![p] = [op[p] EXCEPT !.pc = "revoking", !.found = live,
                                                !.todo = live]]
      BY <1>9 DEF RevokeAllStart
    <3> QED
      BY <2>1, <3>1, OpTyped
  <2> QED
    BY <1>9, <2>2 DEF RevokeAllStart, lockVars, TokensTyped, LocksTyped
<1>10. ASSUME NEW p \in Procs, RevokeNext(p)
       PROVE  Good
  <2>1. PICK t \in op[p].todo :
           /\ Lock(t, p)
           /\ op' = [op EXCEPT ![p].todo = @ \ {t},
                               ![p].hit = IF token[t] = "live" THEN @ \cup {t} ELSE @]
    BY <1>10 DEF RevokeNext
  <2> DEFINE hit == IF token[t] = "live" THEN op[p].hit \cup {t} ELSE op[p].hit
             r == [op[p] EXCEPT !.todo = op[p].todo \ {t}, !.hit = hit]
  <2>2. r \in Ops
    <3>1. op[p] \in Ops /\ op[p].todo \subseteq Tokens /\ op[p].hit \subseteq Tokens
      BY DEF OpsTyped, Ops
    <3>2. hit \in SUBSET Tokens /\ op[p].todo \ {t} \in SUBSET Tokens
      BY <3>1
    <3> HIDE DEF hit
    <3> QED
      BY <3>1, <3>2 DEF Ops
  <2>3. op' = [op EXCEPT ![p] = r]
    BY <2>1
  <2>4. OpsTyped'
    BY <2>2, <2>3, OpTyped
  <2>5. LocksTyped'
    BY <2>1, LockTyped
  <2> QED
    BY <1>10, <2>4, <2>5 DEF RevokeNext, TokensTyped
<1>11. ASSUME NEW p \in Procs, RevokeCommit(p)
       PROVE  Good
  BY <1>11, FinishTyped DEF RevokeCommit, Revoked, TokensTyped, Statuses
<1>12. ASSUME NEW p \in Procs, Abort(p)
       PROVE  Good
  BY <1>12, FinishTyped DEF Abort, TokensTyped, Statuses
<1>13. ASSUME NEW t \in Tokens, Expire(t)
       PROVE  Good
  BY <1>13 DEF Expire, lockVars, TokensTyped, OpsTyped, LocksTyped
<1>14. ASSUME DeleteExpiredRefreshTokens
       PROVE  Good
  BY <1>14 DEF DeleteExpiredRefreshTokens, lockVars, TokensTyped, Statuses, OpsTyped, LocksTyped
<1> QED
  BY <1>1, <1>2, <1>3, <1>4, <1>5, <1>6, <1>7, <1>8, <1>9, <1>10, <1>11, <1>12, <1>13, <1>14
  DEF SessionNext, SessionStep

RequestsTyped ==
    /\ request \in [Requests -> {"none", "open", "verified", "consumed", "deleted"}]
    /\ tries \in [Requests -> 0..MaxAttempts]
    /\ mailed \subseteq Requests
    /\ over \subseteq Requests
    /\ cooled \subseteq Requests
    /\ used \in [Requests -> Nat]

LEMMA TypeStep ==
    ASSUME TypeOK, Shapes, Step
    PROVE  TypeOK'
<1> USE PasswordResetAssumption
<1> DEFINE Parts == TokensTyped /\ OpsTyped /\ LocksTyped /\ password \in Nat /\ RequestsTyped
<1>a. Parts
  BY DEF TypeOK, SessionTypeOK, TokensTyped, Statuses, OpsTyped, LocksTyped, RequestsTyped
<1>b. SUFFICES Parts'
  BY DEF TypeOK, SessionTypeOK, TokensTyped, Statuses, OpsTyped, LocksTyped, RequestsTyped
<1>1. CASE SessionNext /\ UNCHANGED resetVars
  BY <1>a, <1>1, SessionTypeStep DEF resetVars, RequestsTyped
<1>2. ASSUME NEW p \in Procs, RequestPasswordReset(p)
      PROVE  Parts'
  BY <1>a, <1>2 DEF RequestPasswordReset, ConsumeActive, sessionVars, lockVars, TokensTyped,
                    OpsTyped, LocksTyped, RequestsTyped
<1>3. ASSUME NEW p \in Procs, NEW r \in Requests,
             VerifyWrongOTP(p, r) \/ VerifyPasswordResetOTP(p, r)
      PROVE  Parts'
  BY <1>a, <1>3 DEF VerifyWrongOTP, VerifyPasswordResetOTP, Verifiable, sessionVars, lockVars,
                    TokensTyped, OpsTyped, LocksTyped, RequestsTyped
<1>4. ASSUME NEW p \in Procs, NEW r \in Requests, ConfirmBegin(p, r)
      PROVE  Parts'
  <2>1. [Idle EXCEPT !.kind = "confirm", !.pc = "lock", !.req = r] \in Ops
    BY DEF Idle, Ops
  <2>2. OpsTyped'
    BY <1>a, <1>4, <2>1, OpTyped DEF ConfirmBegin
  <2> QED
    BY <1>a, <1>4, <2>2 DEF ConfirmBegin, lockVars, resetVars, TokensTyped, LocksTyped,
                            RequestsTyped
<1>5. ASSUME NEW p \in Procs, ConfirmAccepted(p)
      PROVE  Parts'
  <2>1. OpsTyped'
    BY <1>a, <1>5, GotoTyped DEF ConfirmAccepted, PCs
  <2> QED
    BY <1>a, <1>5, <2>1 DEF ConfirmAccepted, resetVars, TokensTyped, LocksTyped, RequestsTyped
<1>6. ASSUME NEW p \in Procs, ConfirmRefused(p)
      PROVE  Parts'
  BY <1>a, <1>6, FinishTyped DEF ConfirmRefused, resetVars, TokensTyped, RequestsTyped
<1>7. ASSUME NEW p \in Procs, ConfirmPasswordReset(p)
      PROVE  Parts'
  <2>1. OpsTyped' /\ LocksTyped'
    BY <1>a, <1>7, FinishTyped DEF ConfirmPasswordReset
  <2>2. op[p].req \in Requests
    BY <1>7 DEF ConfirmPasswordReset, Shapes
  <2> QED
    BY <1>a, <1>7, <2>1, <2>2 DEF ConfirmPasswordReset, Consumed, Revoked, TokensTyped, Statuses,
                                  RequestsTyped
<1>8. ASSUME NEW r \in Requests, RequestExpires(r) \/ CooldownEnds(r)
      PROVE  Parts'
  BY <1>a, <1>8 DEF RequestExpires, CooldownEnds, sessionVars, lockVars, TokensTyped, OpsTyped,
                    LocksTyped, RequestsTyped
<1>9. CASE DeleteExpiredPasswordResetRequests
  BY <1>a, <1>9 DEF DeleteExpiredPasswordResetRequests, sessionVars, lockVars, TokensTyped,
                    OpsTyped, LocksTyped, RequestsTyped
<1> QED
  BY <1>1, <1>2, <1>3, <1>4, <1>5, <1>6, <1>7, <1>8, <1>9 DEF Step, ResetStep


-----------------------------------------------------------------------------
\* What each step keeps

Rules == Shapes /\ Families /\ Holding /\ Requested /\ Safe

Others(p) == \A q \in Procs \ {p} : op'[q] = op[q]

\* p has no transaction under way that has written anything.
Harmless(p) ==
    /\ op[p].kind \in {"rotate", "logout"} => op[p].tok \in Tokens
    /\ op[p].kind = "confirm" => op[p].req \in Requests /\ op[p].pc = "lock"
    /\ op[p].new = NoToken /\ op[p].pc # "mark"
    /\ \A t \in op[p].todo \cup op[p].hit : Committed(t)

\* No session appears and none is forgotten.
FewerSessions ==
    \A t \in Tokens : /\ token'[t] = "live" => token[t] = "live"
                      /\ token[t] = "uncommitted" => token'[t] = "uncommitted"
                      /\ Committed(t)' <=> Committed(t)

\* Those in P go on, or end, and sessions do at most end.
LEMMA QuietSteps ==
    ASSUME ResetInv, NEW P \in SUBSET Procs, \A q \in Procs \ P : op'[q] = op[q],
           FewerSessions, UNCHANGED <<family, born, password, request, used>>,
           keyShare' \subseteq keyShare, \A q \in Procs \ P : q \in keyShare => q \in keyShare',
           \A q \in Procs \ P : userLock = q => userLock' = q,
           \A q \in P : Harmless(q)'
    PROVE  Rules'
<1> USE DEF ResetInv, TypeOK, SessionTypeOK
<1>1. Shapes'
  <2>1. ASSUME NEW q \in Procs \ P
        PROVE  /\ op[q].new # NoToken => op[q].new \in Tokens
               /\ op[q].todo \cup op[q].hit \subseteq Tokens
    BY DEF Ops
  <2>2. ASSUME NEW q \in Procs \ P, NEW t \in op'[q].todo \cup op'[q].hit
        PROVE  Committed(t)'
    BY <2>1, <2>2 DEF FewerSessions, Shapes
  <2>3. ASSUME NEW q \in Procs \ P, op[q].pc = "mark"
        PROVE  token'[op[q].new] = "uncommitted"
    BY <2>1, <2>3 DEF FewerSessions, Shapes
  <2> QED
    BY <2>2, <2>3 DEF Shapes, Harmless
<1>2. Holding'
  BY DEF Holding, Confirming, Harmless, FewerSessions
<1>3. Families'
  BY DEF Families, FewerSessions
<1>4. Requested' /\ Safe'
  BY DEF Requested, Active, Safe, OneSessionPerLogin, ResetEndsSessions, OneResetPerRequest,
         FewerSessions
<1> QED
  BY <1>1, <1>2, <1>3, <1>4 DEF Rules

\* p goes on, or ends, and sessions do at most end.
LEMMA QuietStep ==
    ASSUME ResetInv, NEW p \in Procs, Others(p), FewerSessions,
           UNCHANGED <<family, born, password, request, used>>,
           keyShare' \subseteq keyShare, \A q \in Procs \ {p} : q \in keyShare => q \in keyShare',
           \A q \in Procs \ {p} : userLock = q => userLock' = q,
           Harmless(p)'
    PROVE  Rules'
BY QuietSteps DEF Others

\* What p's release of its locks leaves to the others.
LEMMA Releases ==
    ASSUME ResetInv, NEW p \in Procs, Finish(p)
    PROVE  /\ Others(p) /\ op'[p] = Idle /\ Harmless(p)'
           /\ keyShare' \subseteq keyShare
           /\ \A q \in Procs \ {p} : q \in keyShare => q \in keyShare'
           /\ \A q \in Procs \ {p} : userLock = q => userLock' = q
<1>1. op'[p] = Idle /\ Others(p)
  BY DEF ResetInv, TypeOK, SessionTypeOK, Finish, Others
<1>2. Harmless(p)'
  BY <1>1 DEF Harmless, Idle
<1> QED
  BY <1>1, <1>2 DEF Finish, Release

\* Nothing is written by what begins, looks up, locks or refuses.
LEMMA LookupStep ==
    ASSUME ResetInv, NEW p \in Procs,
           \/ LoginUser(p)
           \/ \E t \in Tokens : Present(p, "rotate", t) \/ Present(p, "logout", t)
           \/ RotateReused(p) \/ RotateRefused(p) \/ RotateAccepted(p) \/ LogoutReplaced(p),
           UNCHANGED resetVars
    PROVE  Rules'
<1> USE DEF ResetInv, TypeOK, SessionTypeOK
<1>1. CASE LoginUser(p)
  <2>1. Others(p) /\ Harmless(p)'
    BY <1>1 DEF LoginUser, Others, Harmless, Idle
  <2> QED
    BY <1>1, <2>1, QuietStep DEF LoginUser, lockVars, resetVars, FewerSessions, Committed
<1>2. ASSUME NEW t \in Tokens, NEW k \in {"rotate", "logout"}, Present(p, k, t)
      PROVE  Rules'
  <2>1. Others(p) /\ Harmless(p)'
    <3>1. /\ Others(p) /\ op'[p].kind = k /\ op'[p].pc = "lock" /\ op'[p].tok = t
          /\ op'[p].new = NoToken /\ op'[p].todo = {} /\ op'[p].hit = {}
      BY <1>2 DEF Present, Others, Idle
    <3> QED
      BY <3>1 DEF Harmless
  <2> QED
    BY <1>2, <2>1, QuietStep DEF Present, lockVars, resetVars, FewerSessions, Committed
<1>3. CASE RotateReused(p) \/ RotateAccepted(p) \/ LogoutReplaced(p)
  <2>1. Others(p) /\ Harmless(p)'
    <3>1. /\ Others(p) /\ op[p].pc = "lock" /\ op'[p].pc \in {"revokeAll", "insert"}
          /\ op[p].kind \in {"rotate", "logout"} /\ op'[p].kind = op[p].kind
          /\ op'[p].tok = op[p].tok /\ op'[p].new = op[p].new
          /\ op'[p].todo = op[p].todo /\ op'[p].hit = op[p].hit
      <4>1. PICK pc \in {"revokeAll", "insert"} : Goto(p, pc)
        BY <1>3 DEF RotateReused, RotateAccepted, LogoutReplaced
      <4>2. Others(p) /\ op'[p] = [op[p] EXCEPT !.pc = pc]
        BY <4>1 DEF Goto, Others
      <4>3. op[p].pc = "lock" /\ op[p].kind \in {"rotate", "logout"}
        BY <1>3 DEF RotateReused, RotateAccepted, LogoutReplaced
      <4> QED
        BY <4>2, <4>3 DEF Ops
    <3>2. UNCHANGED token
      BY <1>3 DEF RotateReused, RotateAccepted, LogoutReplaced
    <3> QED
      BY <3>1, <3>2 DEF Harmless, Shapes, Committed
  <2>2. UNCHANGED <<token, family, born, password, keyShare, userLock>>
    BY <1>3 DEF RotateReused, RotateAccepted, LogoutReplaced, GetRefreshTokenForUpdate, Lock
  <2> QED
    BY <2>1, <2>2, QuietStep DEF resetVars, FewerSessions, Committed
<1>4. CASE RotateRefused(p)
  BY <1>4, Releases, QuietStep DEF RotateRefused, resetVars, FewerSessions, Committed
<1> QED
  BY <1>1, <1>2, <1>3, <1>4

\* RevokeAllUserRefreshTokens
LEMMA RevokeStep ==
    ASSUME ResetInv, NEW p \in Procs, RevokeAllStart(p) \/ RevokeNext(p), UNCHANGED resetVars
    PROVE  Rules'
<1> USE DEF ResetInv, TypeOK, SessionTypeOK
<1> DEFINE Goes ==
       /\ Others(p)
       /\ UNCHANGED <<token, family, born, password, keyShare, userLock>>
       /\ op'[p].kind = op[p].kind /\ op'[p].tok = op[p].tok /\ op'[p].req = op[p].req
       /\ op'[p].new = op[p].new /\ op[p].pc \in {"revokeAll", "revoking"}
       /\ op'[p].pc = "revoking"
       /\ \A t \in op'[p].todo \cup op'[p].hit : Committed(t)
       /\ Confirming(p) => \A t \in Tokens : token[t] = "live" => t \in op'[p].todo \cup op'[p].hit
<1>1. Goes
  <2>1. CASE RevokeAllStart(p)
    <3>1. /\ Others(p)
          /\ op'[p] = [op[p] EXCEPT !.pc = "revoking",
                                    !.found = {t \in Tokens : token[t] = "live"},
                                    !.todo = {t \in Tokens : token[t] = "live"}]
      BY <2>1 DEF RevokeAllStart, Others
    <3>2. /\ op'[p].kind = op[p].kind /\ op'[p].tok = op[p].tok /\ op'[p].req = op[p].req
          /\ op'[p].new = op[p].new /\ op'[p].pc = "revoking"
          /\ op'[p].todo = {t \in Tokens : token[t] = "live"} /\ op'[p].hit = op[p].hit
      BY <3>1 DEF Ops
    <3>3. \A t \in op'[p].todo \cup op'[p].hit : Committed(t)
      BY <3>2 DEF Shapes, Committed
    <3> QED
      BY <2>1, <3>1, <3>2, <3>3 DEF RevokeAllStart, lockVars
  <2>2. CASE RevokeNext(p)
    <3>1. PICK u \in op[p].todo :
             /\ Lock(u, p)
             /\ op' = [op EXCEPT ![p].todo = @ \ {u},
                                 ![p].hit = IF token[u] = "live" THEN @ \cup {u} ELSE @]
      BY <2>2 DEF RevokeNext
    <3>2. /\ Others(p)
          /\ op'[p].kind = op[p].kind /\ op'[p].tok = op[p].tok /\ op'[p].req = op[p].req
          /\ op'[p].new = op[p].new /\ op'[p].pc = op[p].pc
          /\ op'[p].todo = op[p].todo \ {u}
          /\ op'[p].hit = IF token[u] = "live" THEN op[p].hit \cup {u} ELSE op[p].hit
      BY <3>1 DEF Ops, Others
    <3>3. op[p].pc = "revoking" /\ UNCHANGED <<token, family, born, password, keyShare, userLock>>
      BY <2>2, <3>1 DEF RevokeNext, Lock
    <3>4. \A t \in op'[p].todo \cup op'[p].hit : Committed(t)
      BY <3>2 DEF Shapes
    <3>5. Confirming(p) => \A t \in Tokens : token[t] = "live" => t \in op'[p].todo \cup op'[p].hit
      BY <3>2, <3>3 DEF Holding
    <3> QED
      BY <3>2, <3>3, <3>4, <3>5
  <2> QED
    BY <2>1, <2>2
<1>4. Shapes'
  BY <1>1 DEF Shapes, Others, Committed
<1>5. Holding'
  BY <1>1 DEF Holding, Confirming, Others, resetVars
<1>6. Families' /\ Requested' /\ Safe'
  BY <1>1 DEF Families, Committed, Requested, Active, Safe, OneSessionPerLogin,
              ResetEndsSessions, OneResetPerRequest, resetVars
<1> QED
  BY <1>4, <1>5, <1>6 DEF Rules


\* A session ends, or several do, and with it the transaction.
LEMMA EndStep ==
    ASSUME ResetInv, NEW p \in Procs, Logout(p) \/ RevokeCommit(p), UNCHANGED resetVars
    PROVE  Rules'
<1> USE DEF ResetInv, TypeOK, SessionTypeOK
<1>1. Finish(p) /\ UNCHANGED <<family, born, password>>
  BY DEF Logout, RevokeCommit
<1>2. FewerSessions
  <2>1. CASE Logout(p)
    BY <2>1 DEF Logout, FewerSessions, Committed
  <2>2. CASE RevokeCommit(p)
    BY <2>2 DEF RevokeCommit, Revoked, FewerSessions, Shapes, Committed
  <2> QED
    BY <2>1, <2>2
<1> QED
  BY <1>1, <1>2, Releases, QuietStep DEF resetVars

\* Tokens expire and are deleted.
LEMMA ExpireStep ==
    ASSUME ResetInv, DeleteExpiredRefreshTokens \/ \E t \in Tokens : Expire(t),
           UNCHANGED resetVars
    PROVE  Rules'
<1> USE DEF ResetInv, TypeOK, SessionTypeOK
<1>1. UNCHANGED <<op, lockVars, family, born, password>>
  BY DEF DeleteExpiredRefreshTokens, Expire
<1>2. FewerSessions
  BY DEF DeleteExpiredRefreshTokens, Expire, Exists, FewerSessions, Committed
<1> QED
  BY <1>1, <1>2, QuietSteps, {} \in SUBSET Procs DEF resetVars, lockVars

\* Nobody confirms while p has a share of the user's row.
LEMMA NobodyConfirms ==
    ASSUME ResetInv, NEW p \in Procs, ~Confirming(p), userLock \in {NoOne, p}
    PROVE  \A q \in Procs : ~Confirming(q)
BY SessionsAssumption DEF ResetInv, Holding

\* A login or a rotation that inserts its token.
LEMMA InsertStep ==
    ASSUME ResetInv, NEW p \in Procs, IssueTokenPair(p) \/ RotateInsert(p), UNCHANGED resetVars
    PROVE  Rules'
<1> USE DEF ResetInv, TypeOK, SessionTypeOK
<1>1. \A q \in Procs : ~Confirming(q)
  BY NobodyConfirms DEF IssueTokenPair, RotateInsert, UserSharable, Confirming
<1>2. CASE IssueTokenPair(p)
  <2>1. PICK n \in Tokens : /\ token[n] = "none"
                            /\ token' = [token EXCEPT ![n] = "live"]
                            /\ born' = [born EXCEPT ![n] = password]
    BY <1>2 DEF IssueTokenPair
  <2>2. /\ Finish(p) /\ Others(p) /\ op'[p] = Idle /\ Harmless(p)'
        /\ \A q \in Procs \ {p} : q \in keyShare => q \in keyShare'
        /\ UNCHANGED <<family, password>>
    BY <1>2, Releases DEF IssueTokenPair
  <2>3. \A t : Committed(t) => Committed(t)'
    BY <2>1 DEF Committed
  <2>4. Shapes'
    BY <2>1, <2>2, <2>3 DEF Shapes, Harmless, Others
  <2>5. Holding'
    BY <1>1, <2>2 DEF Holding, Confirming, Others, Harmless
  <2>6. Families'
    BY <2>1, <2>2, <2>3 DEF Families, Committed
  <2>7. OneSessionPerLogin' /\ ResetEndsSessions'
    BY <2>1, <2>2 DEF Safe, OneSessionPerLogin, ResetEndsSessions, Families, Committed
  <2>8. Requested' /\ OneResetPerRequest'
    BY DEF resetVars, Requested, Active, Safe, OneResetPerRequest
  <2> QED
    BY <2>4, <2>5, <2>6, <2>7, <2>8 DEF Rules, Safe
<1>3. CASE RotateInsert(p)
  <2>1. PICK n \in Tokens :
           /\ token[n] = "none"
           /\ token' = [token EXCEPT ![n] = "uncommitted"]
           /\ op' = [op EXCEPT ![p].pc = "mark", ![p].new = n]
    BY <1>3 DEF RotateInsert
  <2>2. /\ Others(p) /\ op'[p] = [op[p] EXCEPT !.pc = "mark", !.new = n]
        /\ keyShare' = keyShare \cup {p} /\ op[p].kind = "rotate"
        /\ UNCHANGED <<family, born, password>>
    BY <1>3, <2>1 DEF RotateInsert, Others
  <2>3. /\ op'[p].kind = "rotate" /\ op'[p].tok = op[p].tok /\ op'[p].pc = "mark"
        /\ op'[p].new = n /\ n # NoToken /\ op'[p].todo = op[p].todo /\ op'[p].hit = op[p].hit
    BY <2>2, SessionsAssumption DEF Ops
  <2>4. \A t : Committed(t) <=> Committed(t)'
    BY <2>1 DEF Committed
  <2>5. Shapes'
    BY <2>1, <2>2, <2>3, <2>4 DEF Shapes, Others
  <2>6. Holding'
    BY <1>1, <2>2, <2>3 DEF Holding, Confirming, Others
  <2>7. Families'
    BY <2>2, <2>4 DEF Families
  <2>8. OneSessionPerLogin' /\ ResetEndsSessions'
    BY <2>1, <2>2 DEF Safe, OneSessionPerLogin, ResetEndsSessions
  <2>9. Requested' /\ OneResetPerRequest'
    BY DEF resetVars, Requested, Active, Safe, OneResetPerRequest
  <2> QED
    BY <2>5, <2>6, <2>7, <2>8, <2>9 DEF Rules, Safe
<1> QED
  BY <1>2, <1>3

\* A rotation commits: its login has the new session instead of the old one.
LEMMA RotateStep ==
    ASSUME ResetInv, NEW p \in Procs, MarkRefreshTokenReplaced(p), UNCHANGED resetVars
    PROVE  Rules'
<1> USE DEF ResetInv, TypeOK, SessionTypeOK
<1> DEFINE t == op[p].tok
           n == op[p].new
<1>1. /\ token[t] = "live" /\ token[n] = "uncommitted" /\ t \in Tokens /\ n \in Tokens
      /\ op[p].pc = "mark" /\ op[p].kind = "rotate" /\ p \in keyShare
      /\ token' = [token EXCEPT ![t] = "replaced", ![n] = "live"]
      /\ family' = [family EXCEPT ![n] = family[t]]
      /\ born' = [born EXCEPT ![n] = born[t]]
      /\ UNCHANGED password
  BY DEF MarkRefreshTokenReplaced, Shapes, Ops
<1>2. /\ Others(p) /\ op'[p] = Idle /\ Harmless(p)'
      /\ \A q \in Procs \ {p} : q \in keyShare => q \in keyShare'
  BY Releases DEF MarkRefreshTokenReplaced
<1>3. \A q \in Procs : ~Confirming(q)
  BY <1>1 DEF Holding, Confirming
<1>4. \A u \in Tokens : Committed(u) => Committed(u)'
  BY <1>1 DEF Committed
<1>5. Shapes'
  <2>1. ASSUME NEW q \in Procs \ {p}
        PROVE  /\ \A u \in op[q].todo \cup op[q].hit : Committed(u)'
               /\ op[q].pc = "mark" => token'[op[q].new] = "uncommitted"
    <3>1. op[q].todo \cup op[q].hit \subseteq Tokens
      BY DEF Ops
    <3>2. op[q].pc = "mark" => op[q].new # n /\ op[q].new # t
      BY <1>1 DEF Shapes
    <3>3. op[q].pc = "mark" => op[q].new \in Tokens
      BY DEF Shapes, Ops
    <3> HIDE DEF t, n
    <3> QED
      BY <1>1, <1>4, <3>1, <3>2, <3>3 DEF Shapes
  <2> HIDE DEF t, n
  <2> QED
    BY <1>2, <2>1 DEF Shapes, Harmless, Others
<1>6. Holding'
  BY <1>2, <1>3 DEF Holding, Confirming, Others, Harmless
<1>7. Families'
  BY <1>1, <1>4 DEF Families, Committed
<1>8. OneSessionPerLogin' /\ ResetEndsSessions'
  BY <1>1 DEF Safe, OneSessionPerLogin, ResetEndsSessions
<1>9. Requested' /\ OneResetPerRequest'
  BY DEF resetVars, Requested, Active, Safe, OneResetPerRequest
<1> QED
  BY <1>5, <1>6, <1>7, <1>8, <1>9 DEF Rules, Safe

\* A rollback takes back the token that was inserted.
LEMMA AbortStep ==
    ASSUME ResetInv, NEW p \in Procs, Abort(p), UNCHANGED resetVars
    PROVE  Rules'
<1> USE DEF ResetInv, TypeOK, SessionTypeOK
<1>1. /\ token' = [t \in Tokens |-> IF t = op[p].new THEN "none" ELSE token[t]]
      /\ Finish(p) /\ UNCHANGED <<family, born, password>>
  BY DEF Abort
<1>2. /\ Others(p) /\ op'[p] = Idle /\ Harmless(p)'
      /\ keyShare' \subseteq keyShare
      /\ \A q \in Procs \ {p} : q \in keyShare => q \in keyShare'
      /\ \A q \in Procs \ {p} : userLock = q => userLock' = q
  BY <1>1, Releases
<1>3. \A t \in Tokens : /\ Committed(t) <=> Committed(t)'
                        /\ token'[t] = "live" => token[t] = "live"
                        /\ token'[t] # token[t] => t = op[p].new
  BY <1>1, SessionsAssumption DEF Shapes, Committed
<1>4. Shapes'
  <2>1. ASSUME NEW q \in Procs \ {p}
        PROVE  /\ \A t \in op[q].todo \cup op[q].hit : Committed(t)'
               /\ op[q].pc = "mark" => token'[op[q].new] = "uncommitted"
    BY <1>1, <1>3, SessionsAssumption DEF Shapes, Ops
  <2> QED
    BY <1>2, <2>1 DEF Shapes, Harmless, Others
<1>5. Holding'
  BY <1>2, <1>3 DEF Holding, Confirming, Others, Harmless, resetVars
<1>6. Families'
  BY <1>1, <1>3 DEF Families
<1>7. OneSessionPerLogin' /\ ResetEndsSessions'
  BY <1>1, <1>3 DEF Safe, OneSessionPerLogin, ResetEndsSessions
<1>8. Requested' /\ OneResetPerRequest'
  BY DEF resetVars, Requested, Active, Safe, OneResetPerRequest
<1> QED
  BY <1>4, <1>5, <1>6, <1>7, <1>8 DEF Rules, Safe


-----------------------------------------------------------------------------
\* Requests and their confirmation

\* A confirmation begins, or gets the user's row, or is refused.
LEMMA ConfirmStep ==
    ASSUME ResetInv, NEW p \in Procs,
           \/ \E r \in Requests : ConfirmBegin(p, r)
           \/ ConfirmAccepted(p) \/ ConfirmRefused(p)
    PROVE  Rules'
<1> USE DEF ResetInv, TypeOK, SessionTypeOK
<1>1. UNCHANGED <<token, family, born, password, resetVars>>
  BY DEF ConfirmBegin, ConfirmAccepted, ConfirmRefused
<1>2. FewerSessions
  BY <1>1 DEF FewerSessions, Committed
<1>3. ASSUME NEW r \in Requests, ConfirmBegin(p, r)
      PROVE  Rules'
  <2>1. /\ Others(p) /\ op'[p] = [Idle EXCEPT !.kind = "confirm", !.pc = "lock", !.req = r]
        /\ UNCHANGED lockVars
    BY <1>3 DEF ConfirmBegin, Others
  <2>2. Harmless(p)'
    BY <2>1 DEF Harmless, Idle
  <2> QED
    BY <1>1, <1>2, <2>1, <2>2, QuietStep DEF lockVars, resetVars
<1>4. CASE ConfirmRefused(p)
  BY <1>1, <1>2, <1>4, Releases, QuietStep DEF ConfirmRefused, resetVars
<1>5. CASE ConfirmAccepted(p)
  <2>1. /\ Others(p) /\ op'[p] = [op[p] EXCEPT !.pc = "revokeAll"]
        /\ op[p].kind = "confirm" /\ op[p].pc = "lock"
        /\ userLock' = p /\ userLock \in {NoOne, p} /\ keyShare \subseteq {p}
        /\ keyShare' = keyShare /\ request[op[p].req] = "verified"
    BY <1>5 DEF ConfirmAccepted, Goto, Others, UserLockable, StillConfirmable
  <2>2. /\ op'[p].kind = "confirm" /\ op'[p].pc = "revokeAll" /\ op'[p].req = op[p].req
        /\ op'[p].new = op[p].new /\ op'[p].todo = op[p].todo /\ op'[p].hit = op[p].hit
    BY <2>1 DEF Ops
  <2>3. \A q \in Procs : ~Confirming(q)
    BY <2>1, NobodyConfirms DEF Confirming
  <2>4. Shapes'
    <3>1. UNCHANGED <<token, keyShare>>
      BY <1>1, <2>1
    <3>2. \A q \in Procs : op'[q].pc = "mark" => op'[q] = op[q]
      BY <2>1, <2>2 DEF Others
    <3>3. op[p].new = NoToken
      BY <2>1 DEF Shapes
    <3>4. \A q \in Procs : op'[q].todo = op[q].todo /\ op'[q].hit = op[q].hit
      BY <2>1, <2>2 DEF Others
    <3>5. ASSUME NEW q \in Procs
          PROVE  /\ op'[q].kind \in {"rotate", "logout"} => op'[q].tok \in Tokens
                 /\ op'[q].kind = "confirm" => /\ op'[q].req \in Requests
                                              /\ op'[q].pc \in {"lock", "revokeAll", "revoking"}
                 /\ op'[q].new # NoToken <=> op'[q].pc = "mark"
      BY ZenonT(40), <2>1, <2>2, <3>3 DEF Shapes, Others
    <3> QED
      BY <3>1, <3>2, <3>4, <3>5 DEF Shapes, Committed
  <2>5. Holding'
    <3>1. \A q \in Procs : Confirming(q)' => q = p
      BY <2>1, <2>3 DEF Confirming, Others
    <3>2. UNCHANGED request /\ op'[p].pc # "revoking"
      BY <1>1, <2>2 DEF resetVars
    <3>3. /\ userLock' = p /\ keyShare' \subseteq {p}
          /\ request'[op'[p].req] = "verified" /\ op'[p].pc # "revoking"
      BY <2>1, <2>2, <3>2
    <3> HIDE DEF ResetInv
    <3> QED
      BY <3>1, <3>3 DEF Holding
  <2>6. Families' /\ Requested' /\ Safe'
    BY <1>1 DEF Families, Committed, Requested, Active, Safe, OneSessionPerLogin,
                ResetEndsSessions, OneResetPerRequest, resetVars
  <2> QED
    BY <2>4, <2>5, <2>6 DEF Rules
<1> QED
  BY <1>3, <1>4, <1>5

\* The password changes: every session there was is one that was found, and
\* the request is used up.
LEMMA ResetPasswordStep ==
    ASSUME ResetInv, NEW p \in Procs, ConfirmPasswordReset(p)
    PROVE  Rules'
<1> USE DEF ResetInv, TypeOK, SessionTypeOK
<1> DEFINE r == op[p].req
<1>1. /\ token' = Revoked(p) /\ op[p].todo = {} /\ r \in Requests
      /\ request' = [request EXCEPT ![r] = "consumed"]
      /\ used' = [used EXCEPT ![r] = @ + 1]
      /\ UNCHANGED family
      /\ Confirming(p) /\ op[p].pc = "revoking"
  BY DEF ConfirmPasswordReset, Consumed, Confirming, Shapes
<1>2. /\ Others(p) /\ op'[p] = Idle /\ Harmless(p)'
      /\ keyShare' \subseteq keyShare
      /\ \A q \in Procs \ {p} : q \in keyShare => q \in keyShare'
  BY Releases DEF ConfirmPasswordReset
<1>3. \A t \in Tokens : token'[t] # "live"
  BY <1>1 DEF Holding, Revoked
<1>4. FewerSessions
  BY <1>1 DEF FewerSessions, Revoked, Shapes, Committed
<1>5. Shapes'
  <2>1. ASSUME NEW q \in Procs \ {p}
        PROVE  /\ \A t \in op[q].todo \cup op[q].hit : Committed(t)'
               /\ op[q].pc = "mark" => token'[op[q].new] = "uncommitted"
    <3>1. op[q].todo \cup op[q].hit \subseteq Tokens /\ (op[q].pc = "mark" => op[q].new \in Tokens)
      BY DEF Shapes, Ops
    <3> QED
      BY <1>4, <3>1 DEF Shapes, FewerSessions
  <2> QED
    BY <1>2, <2>1 DEF Shapes, Harmless, Others
<1>6. Holding'
  BY <1>1, <1>2, SessionsAssumption DEF Holding, Confirming, Others, Harmless
<1>7. Families'
  BY <1>1, <1>4 DEF Families, FewerSessions
<1>8. request[r] = "verified" /\ used[r] = 0
  BY <1>1 DEF Holding, Requested
<1>9. Requested' /\ OneResetPerRequest'
  BY <1>1, <1>8 DEF Requested, Active, Safe, OneResetPerRequest
<1>10. OneSessionPerLogin' /\ ResetEndsSessions'
  BY <1>3 DEF OneSessionPerLogin, ResetEndsSessions
<1> QED
  BY <1>5, <1>6, <1>7, <1>9, <1>10 DEF Rules, Safe

\* The steps that change requests and nothing else.
LEMMA RequestStep ==
    ASSUME ResetInv,
           \/ \E p \in Procs :
                 \/ RequestPasswordReset(p)
                 \/ \E r \in Requests : VerifyWrongOTP(p, r) \/ VerifyPasswordResetOTP(p, r)
           \/ \E r \in Requests : RequestExpires(r) \/ CooldownEnds(r)
           \/ DeleteExpiredPasswordResetRequests
    PROVE  Rules'
<1> USE SessionsAssumption DEF ResetInv, TypeOK, SessionTypeOK
<1>1. UNCHANGED sessionVars /\ UNCHANGED used
  BY DEF RequestPasswordReset, VerifyWrongOTP, VerifyPasswordResetOTP, RequestExpires,
         CooldownEnds, DeleteExpiredPasswordResetRequests
<1>2. Shapes' /\ Families' /\ OneSessionPerLogin' /\ ResetEndsSessions'
  BY <1>1 DEF sessionVars, lockVars, Shapes, Families, Committed, Safe, OneSessionPerLogin,
              ResetEndsSessions
<1>3. Holding' /\ Requested' /\ OneResetPerRequest'
  <2>1. ASSUME NEW p \in Procs, RequestPasswordReset(p)
        PROVE  Holding' /\ Requested' /\ OneResetPerRequest'
    <3>1. \A q \in Procs : ~Confirming(q)
      BY <2>1, NobodyConfirms DEF RequestPasswordReset, UserLockable, Confirming, Idle
    <3>2. Holding'
      BY <1>1, <3>1 DEF Holding, Confirming, sessionVars
    <3>3. PICK r \in Requests : /\ request[r] = "none"
                                /\ \A s \in Requests : s < r => request[s] # "none"
                                /\ request' = [ConsumeActive EXCEPT ![r] = "open"]
      BY <2>1 DEF RequestPasswordReset
    <3>4. /\ request'[r] = "open"
          /\ \A s \in Requests \ {r} : /\ ~Active(s)'
                                       /\ request'[s] = "none" <=> request[s] = "none"
                                       /\ request[s] \in {"consumed", "deleted"}
                                            => request'[s] = request[s]
      BY <3>3 DEF ConsumeActive, Active
    <3>5. \A s \in Requests : request[s] # "none" => s < r
      BY <3>3 DEF Requested
    <3> QED
      BY <1>1, <3>2, <3>3, <3>4, <3>5 DEF Requested, Active, Safe, OneResetPerRequest
  <2>2. ASSUME NEW p \in Procs, NEW r \in Requests,
               VerifyWrongOTP(p, r) \/ VerifyPasswordResetOTP(p, r)
        PROVE  Holding' /\ Requested' /\ OneResetPerRequest'
    <3>1. \A q \in Procs : ~Confirming(q)
      BY <2>2, NobodyConfirms
      DEF VerifyWrongOTP, VerifyPasswordResetOTP, UserLockable, Confirming, Idle
    <3>2. Holding'
      BY <1>1, <3>1 DEF Holding, Confirming, sessionVars
    <3>3. /\ request[r] = "open"
          /\ request' = request \/ request' = [request EXCEPT ![r] = "verified"]
      BY <2>2 DEF VerifyWrongOTP, VerifyPasswordResetOTP, Verifiable
    <3> QED
      BY <1>1, <3>2, <3>3 DEF Requested, Active, Safe, OneResetPerRequest
  <2>3. ASSUME NEW r \in Requests, RequestExpires(r) \/ CooldownEnds(r)
        PROVE  Holding' /\ Requested' /\ OneResetPerRequest'
    BY <1>1, <2>3 DEF RequestExpires, CooldownEnds, sessionVars, lockVars, Holding, Confirming,
                      Requested, Active, Safe, OneResetPerRequest
  <2>4. CASE DeleteExpiredPasswordResetRequests
    <3>1. Requested' /\ OneResetPerRequest'
      BY <1>1, <2>4 DEF DeleteExpiredPasswordResetRequests, Rows, Requested, Active, Safe,
                        OneResetPerRequest
    <3>2. Holding'
      BY <1>1, <2>4 DEF DeleteExpiredPasswordResetRequests, Rows, Holding, Confirming, Shapes,
                        sessionVars, lockVars
    <3> QED
      BY <3>1, <3>2
  <2> QED
    BY <2>1, <2>2, <2>3, <2>4
<1> QED
  BY <1>2, <1>3 DEF Rules, Safe

LEMMA ResetInvStep == ResetInv /\ [Next]_vars => ResetInv'
<1> SUFFICES ASSUME ResetInv, [Next]_vars PROVE ResetInv'
  OBVIOUS
<1>1. CASE UNCHANGED vars
  BY <1>1 DEF vars, sessionVars, resetVars, lockVars, ResetInv, TypeOK, SessionTypeOK, Shapes,
              Families, Committed, Holding, Confirming, Requested, Active, Safe,
              OneSessionPerLogin, ResetEndsSessions, OneResetPerRequest
<1>2. CASE Next
  <2>1. Step
    BY <1>2 DEF Next
  <2>2. TypeOK'
    BY <2>1, TypeStep DEF ResetInv
  <2>3. Rules'
    <3>1. CASE SessionNext /\ UNCHANGED resetVars
      BY <3>1, LookupStep, RevokeStep, EndStep, ExpireStep, InsertStep, RotateStep, AbortStep
      DEF SessionNext, SessionStep
    <3> QED
      BY <2>1, <3>1, ConfirmStep, ResetPasswordStep, RequestStep DEF Step, ResetStep
  <2> QED
    BY <2>2, <2>3 DEF ResetInv, Rules
<1> QED
  BY <1>1, <1>2

-----------------------------------------------------------------------------
\* What a reuse finds

\* A transaction that revokes because its token was replaced: what its
\* snapshot has shown, and the replacement, is over or still to be revoked.
Revokes(p) == op[p].kind \in {"rotate", "logout"} /\ op[p].pc \in {"revokeAll", "revoking"}

RevokesFound(p) ==
    /\ Committed(op[p].tok) /\ token[op[p].tok] # "live"
    /\ op[p].pc = "revoking" =>
          \A t \in Tokens : t \in op[p].found \/ t = succ[op[p].tok] =>
              Committed(t) /\ (token[t] = "live" => t \in op[p].todo \cup op[p].hit)

RevokeInv ==
    /\ \A t \in Tokens : succ[t] # NoToken => Committed(succ[t])
    /\ \A p \in Procs : Revokes(p) => RevokesFound(p)

\* No token comes back to life, and one that is over gets no successor.
TokensAge ==
    /\ \A t \in Tokens : Committed(t) => Committed(t)' /\ (token'[t] = "live" => token[t] = "live")
    /\ \A t \in Tokens :
          \/ succ'[t] \in {succ[t], NoToken}
          \/ /\ ~(Committed(t) /\ token[t] # "live")
             /\ token'[succ'[t]] \notin {"none", "uncommitted"}

LEMMA SessionsAge == ASSUME ResetInv, SessionNext PROVE TokensAge
<1> USE DEF ResetInv, TypeOK, SessionTypeOK
<1>1. CASE UNCHANGED <<token, succ>>
  BY <1>1 DEF TokensAge, Committed
<1>2. ASSUME NEW p \in Procs, IssueTokenPair(p) \/ RotateInsert(p) \/ Logout(p)
      PROVE  TokensAge
  BY <1>2 DEF IssueTokenPair, RotateInsert, Logout, TokensAge, Committed
<1>3. ASSUME NEW p \in Procs, MarkRefreshTokenReplaced(p)
      PROVE  TokensAge
  <2>1. /\ op[p].tok \in Tokens /\ op[p].new \in Tokens
        /\ token[op[p].tok] = "live" /\ token[op[p].new] = "uncommitted"
    BY <1>3 DEF MarkRefreshTokenReplaced, Shapes, Ops
  <2>2. PICK t \in Tokens, n \in Tokens :
           /\ token[t] = "live" /\ token[n] = "uncommitted"
           /\ token' = [token EXCEPT ![t] = "replaced", ![n] = "live"]
           /\ succ' = [succ EXCEPT ![t] = n]
    BY <1>3, <2>1 DEF MarkRefreshTokenReplaced
  <2>3. token'[n] = "live" /\ token'[t] = "replaced"
    BY <2>2
  <2> QED
    BY <2>2, <2>3 DEF TokensAge, Committed
<1>4. ASSUME NEW p \in Procs, RevokeCommit(p)
      PROVE  TokensAge
  BY <1>4 DEF RevokeCommit, Revoked, Shapes, TokensAge, Committed
<1>5. ASSUME NEW p \in Procs, Abort(p)
      PROVE  TokensAge
  BY <1>5, SessionsAssumption DEF Abort, Shapes, TokensAge, Committed
<1>6. CASE DeleteExpiredRefreshTokens
  BY <1>6 DEF DeleteExpiredRefreshTokens, Exists, TokensAge, Committed
<1> QED
  BY <1>1, <1>2, <1>3, <1>4, <1>5, <1>6
  DEF SessionNext, SessionStep, LoginUser, Present, RotateReused, RotateRefused, RotateAccepted,
      LogoutReplaced, RevokeAllStart, RevokeNext, Expire

\* Who does not move, or does not revoke after the move, is left as it was.
LEMMA RevokersKept ==
    ASSUME ResetInv, RevokeInv, TokensAge,
           \A q \in Procs : op'[q] = op[q] \/ ~Revokes(q)' \/ RevokesFound(q)'
    PROVE  RevokeInv'
<1> USE DEF ResetInv, TypeOK, SessionTypeOK
<1>1. (\A t \in Tokens : succ[t] # NoToken => Committed(succ[t]))'
  BY DEF RevokeInv, TokensAge, Committed
<1>2. ASSUME NEW q \in Procs, op'[q] = op[q], Revokes(q)'
      PROVE  RevokesFound(q)'
  <2>1. Revokes(q) /\ RevokesFound(q) /\ op[q].tok \in Tokens
    BY <1>2 DEF Revokes, RevokeInv, Shapes
  <2>2. succ'[op[q].tok] \in {succ[op[q].tok], NoToken}
    BY <2>1 DEF RevokesFound, TokensAge
  <2> QED
    BY <1>2, <2>1, <2>2, SessionsAssumption DEF RevokesFound, TokensAge, Committed
<1>3. (\A q \in Procs : Revokes(q) => RevokesFound(q))'
  BY <1>2
<1> QED
  BY <1>1, <1>3 DEF RevokeInv

LEMMA RevokeInvStep ==
    ASSUME ResetInv, RevokeInv, Step
    PROVE  RevokeInv'
<1> USE DEF ResetInv, TypeOK, SessionTypeOK
<1> DEFINE Kept == \A q \in Procs : op'[q] = op[q] \/ ~Revokes(q)' \/ RevokesFound(q)'
<1>1. TokensAge
  <2>1. CASE UNCHANGED <<token, succ>>
    BY <2>1 DEF TokensAge, Committed
  <2>2. ASSUME NEW p \in Procs, ConfirmPasswordReset(p)
        PROVE  TokensAge
    BY <2>2 DEF ConfirmPasswordReset, Revoked, Shapes, TokensAge, Committed
  <2> QED
    BY <2>1, <2>2, SessionsAge
    DEF Step, ResetStep, sessionVars, RequestPasswordReset, VerifyWrongOTP,
        VerifyPasswordResetOTP, ConfirmBegin, ConfirmAccepted, ConfirmRefused, RequestExpires,
        CooldownEnds, DeleteExpiredPasswordResetRequests
<1>2. ASSUME NEW p \in Procs, RotateReused(p) \/ LogoutReplaced(p)
      PROVE  Kept
  <2>1. /\ Goto(p, "revokeAll") /\ UNCHANGED token /\ token[op[p].tok] = "replaced"
    BY <1>2 DEF RotateReused, LogoutReplaced
  <2>2. Others(p) /\ op'[p].tok = op[p].tok /\ op'[p].pc = "revokeAll"
    BY <2>1 DEF Goto, Others, Ops
  <2> QED
    BY <2>1, <2>2 DEF Others, RevokesFound, Committed
<1>3. ASSUME NEW p \in Procs, RevokeAllStart(p)
      PROVE  Kept
  <2> DEFINE live == {t \in Tokens : token[t] = "live"}
  <2>1. /\ op' = [op EXCEPT ![p] = [op[p] EXCEPT !.pc = "revoking", !.found = live, !.todo = live]]
        /\ op[p].pc = "revokeAll" /\ UNCHANGED <<token, succ>>
    BY <1>3 DEF RevokeAllStart
  <2>2. /\ Others(p) /\ op'[p].tok = op[p].tok /\ op'[p].kind = op[p].kind
        /\ op'[p].found = live /\ op'[p].todo = live
    BY <2>1 DEF Others, Ops
  <2>3. ASSUME Revokes(p)'
        PROVE  RevokesFound(p)'
    <3>1. Revokes(p) /\ op[p].tok \in Tokens
      BY <2>1, <2>2, <2>3 DEF Revokes, Shapes
    <3>2. /\ Committed(op[p].tok) /\ token[op[p].tok] # "live"
          /\ succ[op[p].tok] # NoToken => Committed(succ[op[p].tok])
      BY <3>1 DEF RevokeInv, RevokesFound
    <3> QED
      BY <2>1, <2>2, <3>2, SessionsAssumption DEF RevokesFound, Committed
  <2> QED
    BY <2>2, <2>3 DEF Others
<1>4. ASSUME NEW p \in Procs, RevokeNext(p)
      PROVE  Kept
  <2>1. PICK u \in op[p].todo :
           op' = [op EXCEPT ![p].todo = @ \ {u},
                            ![p].hit = IF token[u] = "live" THEN @ \cup {u} ELSE @]
    BY <1>4 DEF RevokeNext
  <2>2. /\ Others(p) /\ op'[p].tok = op[p].tok /\ op'[p].kind = op[p].kind
        /\ op'[p].pc = op[p].pc /\ op'[p].found = op[p].found
        /\ op'[p].todo = op[p].todo \ {u}
        /\ op'[p].hit = IF token[u] = "live" THEN op[p].hit \cup {u} ELSE op[p].hit
    BY <2>1 DEF Others, Ops
  <2>3. UNCHANGED <<token, succ>>
    BY <1>4 DEF RevokeNext
  <2>4. ASSUME Revokes(p)'
        PROVE  RevokesFound(p)'
    <3>1. RevokesFound(p)
      BY <2>2, <2>4 DEF Revokes, RevokeInv
    <3> QED
      BY <2>2, <2>3, <3>1 DEF RevokesFound, Committed
  <2> QED
    BY <2>2, <2>4 DEF Others
<1>5. UNCHANGED op => Kept
  OBVIOUS
<1>6. ASSUME NEW p \in Procs, Others(p), op'[p].pc \notin {"revokeAll", "revoking"}
      PROVE  Kept
  BY <1>6 DEF Others, Revokes
<1>7. ASSUME NEW p \in Procs, Finish(p)
      PROVE  Kept
  <2>1. Others(p) /\ op'[p].pc = "done"
    BY <1>7 DEF Finish, Others, Idle
  <2> QED
    BY <1>6, <2>1
<1>8. ASSUME NEW p \in Procs,
             \/ LoginUser(p) \/ RotateAccepted(p) \/ RotateInsert(p)
             \/ \E t \in Tokens : Present(p, "rotate", t) \/ Present(p, "logout", t)
             \/ \E r \in Requests : ConfirmBegin(p, r)
      PROVE  Kept
  <2>1. CASE \/ LoginUser(p) \/ RotateAccepted(p)
             \/ \E t \in Tokens : Present(p, "rotate", t) \/ Present(p, "logout", t)
             \/ \E r \in Requests : ConfirmBegin(p, r)
    <3>1. CASE LoginUser(p)
      BY <1>6, <3>1 DEF LoginUser, Others, Idle
    <3>2. CASE RotateAccepted(p)
      BY <1>6, <3>2 DEF RotateAccepted, Goto, Others, Ops
    <3>3. ASSUME NEW t \in Tokens, NEW k \in {"rotate", "logout"}, Present(p, k, t)
          PROVE  Kept
      BY <1>6, <3>3 DEF Present, Others, Idle
    <3>4. ASSUME NEW r \in Requests, ConfirmBegin(p, r)
          PROVE  Kept
      BY <1>6, <3>4 DEF ConfirmBegin, Others, Idle
    <3> QED
      BY <2>1, <3>1, <3>2, <3>3, <3>4
  <2>2. CASE RotateInsert(p)
    <3>1. PICK n \in Tokens : op' = [op EXCEPT ![p] = [op[p] EXCEPT !.pc = "mark", !.new = n]]
      BY ZenonT(40), <2>2 DEF RotateInsert
    <3>2. Others(p) /\ op'[p].pc = "mark"
      BY <3>1 DEF Others, Ops
    <3> QED
      BY <1>6, <3>2
  <2> QED
    BY <1>8, <2>1, <2>2
<1>9. ASSUME NEW p \in Procs, ConfirmAccepted(p)
      PROVE  Kept
  <2>1. Others(p) /\ op'[p].kind = "confirm"
    BY <1>9 DEF ConfirmAccepted, Goto, Others, Ops
  <2> QED
    BY <2>1 DEF Others, Revokes
<1>10. Kept
  <2>1. CASE SessionNext /\ UNCHANGED resetVars
    BY <2>1, <1>2, <1>3, <1>4, <1>5, <1>7, <1>8
    DEF SessionNext, SessionStep, IssueTokenPair, RotateRefused, MarkRefreshTokenReplaced,
        Logout, RevokeCommit, Abort, Expire, DeleteExpiredRefreshTokens
  <2> QED
    BY <2>1, <1>5, <1>7, <1>8, <1>9
    DEF Step, ResetStep, sessionVars, RequestPasswordReset, VerifyWrongOTP,
        VerifyPasswordResetOTP, ConfirmRefused, ConfirmPasswordReset, RequestExpires,
        CooldownEnds, DeleteExpiredPasswordResetRequests
<1> HIDE DEF Kept
<1> QED
  BY <1>1, <1>10, RevokersKept DEF Kept

-----------------------------------------------------------------------------

\* Every reachable state is well typed.
THEOREM TypeCorrect == Spec => []TypeOK
<1>1. ResetInv => TypeOK
  BY DEF ResetInv
<1> QED
  BY InitReset, ResetInvStep, <1>1, PTL DEF Spec

\* A login has one session at most, however its token is used.
THEOREM LoginsDoNotSplit == Spec => []OneSessionPerLogin
<1>1. ResetInv => OneSessionPerLogin
  BY DEF ResetInv, Safe
<1> QED
  BY InitReset, ResetInvStep, <1>1, PTL DEF Spec

\* A password reset ends every session, also those being rotated.
THEOREM ResetsEndSessions == Spec => []ResetEndsSessions
<1>1. ResetInv => ResetEndsSessions
  BY DEF ResetInv, Safe
<1> QED
  BY InitReset, ResetInvStep, <1>1, PTL DEF Spec

\* One request is under way at a time and changes the password once.
THEOREM RequestsUsedOnce == Spec => []OneResetPerRequest
<1>1. ResetInv => OneResetPerRequest
  BY DEF ResetInv, Safe
<1> QED
  BY InitReset, ResetInvStep, <1>1, PTL DEF Spec

\* Only the newest request changes the password.
THEOREM NewestResets == Spec => NewestRequestResets
<1> DEFINE Newest == \A r \in Requests : used'[r] # used[r] =>
                        r = Latest({s \in Requests : request[s] # "none"})
<1>1. ResetInv /\ [Next]_vars => [Newest]_vars
  <2> SUFFICES ASSUME ResetInv, Next PROVE Newest
    OBVIOUS
  <2>1. ASSUME NEW p \in Procs, ConfirmPasswordReset(p)
        PROVE  Newest
    <3> DEFINE S == {s \in Requests : request[s] # "none"}
               r == op[p].req
    <3>1. r \in Requests /\ request[r] = "verified" /\ used' = [used EXCEPT ![r] = @ + 1]
      BY <2>1 DEF ConfirmPasswordReset, ResetInv, Shapes, Holding, Confirming
    <3>2. r \in S /\ \A s \in S : s <= r
      BY <3>1 DEF ResetInv, Requested, Active
    <3>3. ASSUME NEW m \in S, \A s \in S : s <= m
          PROVE  m = r
      <4>1. m \in Nat /\ r \in Nat
        BY <3>1, SessionsAssumption
      <4>2. r <= m /\ m <= r
        BY <3>2, <3>3
      <4> HIDE DEF r, S
      <4> QED
        BY <4>1, <4>2
    <3>4. Latest(S) = r
      BY <3>2, <3>3 DEF Latest
    <3> QED
      BY <3>1, <3>4 DEF ResetInv, TypeOK
  <2>2. CASE UNCHANGED used
    BY <2>2
  <2> QED
    BY <2>1, <2>2
    DEF Next, Step, ResetStep, resetVars, RequestPasswordReset, VerifyWrongOTP,
        VerifyPasswordResetOTP, ConfirmBegin, ConfirmAccepted, ConfirmRefused, RequestExpires,
        CooldownEnds, DeleteExpiredPasswordResetRequests
<1> QED
  BY InitReset, ResetInvStep, <1>1, PTL DEF Spec, NewestRequestResets

\* What a reuse finds when it begins to revoke is over when it commits, the
\* replacement of the token used again included.
THEOREM ReusesEndSessions == Spec => ReuseEndsSessions
<1> DEFINE Over == \A p \in Procs : RevokeCommit(p) =>
                      \A t \in Tokens : token'[t] = "live" =>
                          t \notin op[p].found /\ t # succ[op[p].tok]
           Inv == ResetInv /\ RevokeInv
<1>1. Init => Inv
  BY InitReset, SessionsAssumption DEF Init, SessionInit, RevokeInv, Revokes, Idle
<1>2. Inv /\ [Next]_vars => Inv'
  <2>1. ASSUME ResetInv, RevokeInv, UNCHANGED vars
        PROVE  RevokeInv'
    BY <2>1 DEF vars, sessionVars, RevokeInv, Revokes, RevokesFound, Committed
  <2> QED
    BY <2>1, ResetInvStep, RevokeInvStep DEF Next
<1>3. ASSUME Inv
      PROVE  Over
  <2> SUFFICES ASSUME NEW p \in Procs, RevokeCommit(p), NEW t \in Tokens, token'[t] = "live"
               PROVE  t \notin op[p].found /\ t # succ[op[p].tok]
    OBVIOUS
  <2>1. Revokes(p) /\ RevokesFound(p) /\ op[p].pc = "revoking" /\ op[p].todo = {}
    BY <1>3 DEF RevokeCommit, Revokes, RevokeInv
  <2>2. t \notin op[p].hit /\ token[t] = "live"
    BY DEF RevokeCommit, Revoked
  <2> QED
    BY <2>1, <2>2 DEF RevokesFound
<1>4. Inv /\ [Next]_vars => [Over]_sessionVars
  BY <1>3
<1> QED
  BY <1>1, <1>2, <1>4, PTL DEF Spec, ReuseEndsSessions

=============================================================================
