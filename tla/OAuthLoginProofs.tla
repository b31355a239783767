--------------------------- MODULE OAuthLoginProofs ---------------------------
(***************************************************************************)
(* Links, login codes and sessions of Google identities, for any number of *)
(* identities, users, codes and requests.                                  *)
(***************************************************************************)
EXTENDS OAuthLogin, TLAPS

\* A transaction that has inserted an account inserted the only one of its
\* identity; a request that has logged in knows the user of the identity, or
\* a user who has gone since.
Linking ==
    /\ \A p \in Procs : op[p].pc \notin {"idle", "exchange", "issue"} => op[p].subject \in Subjects
    /\ \A p \in Procs : op[p].pc = "commit" => linked[op[p].subject] = None
    /\ \A p, q \in Procs : /\ op[p].pc = "commit" /\ op[q].pc = "commit"
                           /\ op[p].subject = op[q].subject
                           => p = q
    /\ \A p \in Procs : op[p].pc = "code" =>
                           op[p].user \in gone \/ linked[op[p].subject] = op[p].user
    /\ \A c \in Codes : code[c].state = "open" =>
                          code[c].subject \in Subjects /\ code[c].user \in Users

\* Users who have gone do not come back, and the row of a new user is its
\* maker's until the commit.
Deleting ==
    /\ \A u \in gone : email[u] = None
    /\ \A p \in Procs : op[p].fresh => /\ op[p].user \in Users \ gone
                                       /\ email[op[p].user] = None
                                       /\ userLock[op[p].user] = p
                                       /\ op[p].pc \in {"recheck", "insert", "commit"}

\* Who may issue a session has the row of an open code.
Exchanging ==
    /\ \A p \in Procs : op[p].pc \in {"exchange", "issue"} => op[p].code \in Codes
    /\ \A p \in Procs : op[p].pc = "issue" => /\ codeLock[op[p].code] = p
                                              /\ code[op[p].code].state = "open"
    /\ \A c \in Codes : code[c].state \in {"none", "open"} => sessions[c] = 0

LoginInv == TypeOK /\ Linking /\ Deleting /\ Exchanging /\ CodesFollowLinks /\ OneSessionPerCode

LEMMA InitLogin == Init => LoginInv
BY OAuthAssumption
DEF Init, LoginInv, TypeOK, Linking, Deleting, Exchanging, CodesFollowLinks, OneSessionPerCode,
    Idle, Ops, NoCode

-----------------------------------------------------------------------------
\* Types

USE DEF userVars, linkVars, codeVars

PCs == {"idle", "email", "lock", "user", "recheck", "insert", "commit", "retry",
        "code", "exchange", "issue"}

\* The part of TypeOK that is about requests and locks.
OpsTyped ==
    /\ op \in [Procs -> Ops]
    /\ \A p \in Procs : op[p].pc \in {"email", "recheck", "insert", "commit", "code"}
                        => op[p].user # None
LocksTyped == codeLock \in [Codes -> Procs \cup {None}] /\ userLock \in [Users -> Procs \cup {None}]

LEMMA OpTyped ==
    ASSUME OpsTyped, NEW p \in Procs, NEW r \in Ops, op' = [op EXCEPT ![p] = r],
           r.pc \in {"email", "recheck", "insert", "commit", "code"} => r.user # None
    PROVE  OpsTyped'
BY DEF OpsTyped

LEMMA GotoTyped ==
    ASSUME OpsTyped, NEW p \in Procs, NEW pc \in PCs, Goto(p, pc),
           pc \in {"email", "recheck", "insert", "commit", "code"} => op[p].user # None
    PROVE  OpsTyped'
<1>1. op[p] \in Ops /\ op' = [op EXCEPT ![p] = [op[p] EXCEPT !.pc = pc]]
  BY DEF Goto, OpsTyped
<1>2. [op[p] EXCEPT !.pc = pc] \in Ops
  BY <1>1 DEF Ops, PCs
<1> QED
  BY <1>1, <1>2, OpTyped DEF Ops

LEMMA LoggedInTyped ==
    ASSUME OpsTyped, LocksTyped, NEW p \in Procs, NEW u \in Users, LoggedIn(p, u)
    PROVE  OpsTyped' /\ userLock' \in [Users -> Procs \cup {None}]
<1> DEFINE r == [op[p] EXCEPT !.pc = "code", !.user = u, !.fresh = FALSE]
<1>1. op[p] \in Ops /\ op' = [op EXCEPT ![p] = r]
  BY DEF LoggedIn, OpsTyped
<1>2. r \in Ops /\ r.user # None
  BY <1>1, OAuthAssumption DEF Ops
<1>3. OpsTyped'
  BY <1>1, <1>2, OpTyped
<1> QED
  BY <1>3 DEF LoggedIn, Unlock, LocksTyped

LEMMA RollbackTyped ==
    ASSUME OpsTyped, LocksTyped, NEW p \in Procs, Rollback(p)
    PROVE  OpsTyped' /\ LocksTyped'
<1>1. Idle \in Ops /\ Idle.pc = "idle"
  BY DEF Idle, Ops
<1>2. OpsTyped'
  BY <1>1, OpTyped DEF Rollback
<1> QED
  BY <1>2 DEF Rollback, Unlock, LocksTyped

LEMMA TypeStep ==
    ASSUME TypeOK, Linking, Exchanging, Next
    PROVE  TypeOK'
<1> DEFINE Rest ==
       /\ email \in [Users -> Emails \cup {None}]
       /\ gone \subseteq Users
       /\ linked \in [Subjects -> Users \cup {None}]
       /\ reported \in [Subjects -> Emails \cup {None}]
       /\ code \in [Codes -> [state : {"none", "open", "consumed", "deleted"},
                              user : Users \cup {None}, subject : Subjects \cup {None}]]
       /\ sessions \in [Codes -> Nat]
<1>a. Rest /\ OpsTyped /\ LocksTyped
  BY DEF TypeOK, OpsTyped, LocksTyped
<1>b. SUFFICES Rest' /\ OpsTyped' /\ LocksTyped'
  BY DEF TypeOK, OpsTyped, LocksTyped
<1>1. ASSUME NEW u \in Users, NEW e \in Emails, RegisterUser(u, e) \/ UpdateMe(u, e)
      PROVE  Rest' /\ OpsTyped' /\ LocksTyped'
  BY <1>a, <1>1 DEF RegisterUser, UpdateMe, OpsTyped, LocksTyped
<1>2. ASSUME NEW u \in Users, DeleteMe(u)
      PROVE  Rest' /\ OpsTyped' /\ LocksTyped'
  BY <1>a, <1>2 DEF DeleteMe, NoCode, OpsTyped, LocksTyped
<1>3. ASSUME NEW p \in Procs, NEW s \in Subjects, NEW e \in Emails, AuthenticateGoogle(p, s, e)
      PROVE  Rest' /\ OpsTyped' /\ LocksTyped'
  <2> DEFINE r == [Idle EXCEPT !.subject = s, !.mail = e, !.user = linked[s],
                               !.pc = IF linked[s] = None THEN "lock"
                                      ELSE IF reported[s] # e THEN "email" ELSE "code"]
  <2>1. r \in Ops /\ (linked[s] = None => r.pc = "lock") /\ r.user = linked[s]
    BY <1>a DEF Idle, Ops
  <2>2. OpsTyped'
    BY <1>a, <1>3, <2>1, OpTyped DEF AuthenticateGoogle
  <2> QED
    BY <1>a, <1>3, <2>2 DEF AuthenticateGoogle, LocksTyped
<1>4. ASSUME NEW p \in Procs, LinkStep(p)
      PROVE  Rest' /\ OpsTyped' /\ LocksTyped'
  <2>1. /\ op[p].pc \notin {"idle", "exchange", "issue"}
        /\ op[p].subject \in Subjects /\ op[p] \in Ops
    BY <1>a, <1>4 DEF LinkStep, UpdateOAuthAccountEmail, AccountGone, FinishExistingLink,
                NotLinkedYet, GetOAuthUser, CreateOAuthUser, CreateOAuthAccount,
                ConcurrentlyLinked, OAuthAccountConflict, CommitLink,
                LoginExistingGoogleIdentity, LinkLost, Linking, OpsTyped
  <2>m. op[p].mail \in Emails \cup {None} /\ op[p].user \in Users \cup {None}
    BY <2>1 DEF Ops
  <2>2. CASE UpdateOAuthAccountEmail(p)
    <3>1. OpsTyped'
      BY <1>a, <2>2, GotoTyped DEF UpdateOAuthAccountEmail, OpsTyped, PCs
    <3> QED
      BY <1>a, <2>1, <2>m, <2>2, <3>1 DEF UpdateOAuthAccountEmail, LocksTyped
  <2>3. CASE AccountGone(p) \/ OAuthAccountConflict(p) \/ LinkLost(p)
    BY <1>a, <2>3, RollbackTyped DEF AccountGone, OAuthAccountConflict, LinkLost
  <2>4. CASE FinishExistingLink(p)
    <3>1. linked[op[p].subject] \in Users /\ LoggedIn(p, linked[op[p].subject])
      BY <1>a, <2>1, <2>4 DEF FinishExistingLink
    <3>2. OpsTyped' /\ LocksTyped'
      BY <1>a, <2>4, <3>1, LoggedInTyped DEF FinishExistingLink, LocksTyped
    <3> QED
      BY <1>a, <2>1, <2>m, <2>4, <3>2 DEF FinishExistingLink
  <2>5. CASE NotLinkedYet(p)
    <3>1. OpsTyped'
      BY <1>a, <2>5, GotoTyped DEF NotLinkedYet, OpsTyped, PCs
    <3> QED
      BY <1>a, <2>5, <3>1 DEF NotLinkedYet, LocksTyped
  <2>6. CASE GetOAuthUser(p)
    <3>1. PICK u \in Users :
             /\ userLock' = [userLock EXCEPT ![u] = p]
             /\ op' = [op EXCEPT ![p] = [op[p] EXCEPT !.pc = "recheck", !.user = u]]
      BY ZenonT(40), <2>6 DEF GetOAuthUser
    <3> DEFINE r == [op[p] EXCEPT !.pc = "recheck", !.user = u]
    <3>2. r \in Ops /\ r.user # None
      BY <2>1, OAuthAssumption DEF Ops
    <3>3. OpsTyped'
      BY <1>a, <3>1, <3>2, OpTyped
    <3> QED
      BY <1>a, <2>6, <3>1, <3>3 DEF GetOAuthUser, LocksTyped
  <2>11. CASE CreateOAuthUser(p)
    <3>1. PICK u \in Users :
             /\ userLock' = [userLock EXCEPT ![u] = p]
             /\ op' = [op EXCEPT ![p] =
                          [op[p] EXCEPT !.pc = "recheck", !.user = u, !.fresh = TRUE]]
      BY ZenonT(40), <2>11 DEF CreateOAuthUser
    <3> DEFINE r == [op[p] EXCEPT !.pc = "recheck", !.user = u, !.fresh = TRUE]
    <3>2. r \in Ops /\ r.user # None
      BY <2>1, OAuthAssumption DEF Ops
    <3>3. OpsTyped'
      BY <1>a, <3>1, <3>2, OpTyped
    <3> QED
      BY <1>a, <2>11, <3>1, <3>3 DEF CreateOAuthUser, LocksTyped
  <2>7. CASE CreateOAuthAccount(p)
    <3>1. OpsTyped'
      BY <1>a, <2>7, GotoTyped DEF CreateOAuthAccount, OpsTyped, PCs
    <3> QED
      BY <1>a, <2>7, <3>1 DEF CreateOAuthAccount, LocksTyped
  <2>8. CASE ConcurrentlyLinked(p)
    <3> DEFINE r == [op[p] EXCEPT !.pc = "retry", !.user = None, !.fresh = FALSE]
    <3>1. r \in Ops /\ r.pc = "retry"
      BY <2>1 DEF Ops
    <3>2. OpsTyped'
      <4>1. op' = [op EXCEPT ![p] = r]
        BY <2>8 DEF ConcurrentlyLinked
      <4> QED
        BY <1>a, <3>1, <4>1, OpTyped
    <3> QED
      BY <1>a, <2>8, <3>2 DEF ConcurrentlyLinked, LocksTyped, Unlock
  <2>9. CASE CommitLink(p)
    <3>1. op[p].user \in Users /\ LoggedIn(p, op[p].user)
      BY <1>a, <2>m, <2>9 DEF CommitLink, OpsTyped
    <3>2. OpsTyped' /\ LocksTyped'
      BY <1>a, <2>9, <3>1, LoggedInTyped DEF CommitLink, LocksTyped
    <3> QED
      BY <1>a, <2>1, <2>m, <2>9, <3>2 DEF CommitLink
  <2>10. CASE LoginExistingGoogleIdentity(p)
    <3>1. linked[op[p].subject] \in Users /\ LoggedIn(p, linked[op[p].subject])
      BY <1>a, <2>1, <2>10 DEF LoginExistingGoogleIdentity
    <3>2. OpsTyped' /\ LocksTyped'
      BY <1>a, <2>10, <3>1, LoggedInTyped DEF LoginExistingGoogleIdentity, LocksTyped
    <3> QED
      BY <1>a, <2>1, <2>m, <2>10, <3>2 DEF LoginExistingGoogleIdentity
  <2> QED
    BY <1>4, <2>2, <2>3, <2>4, <2>5, <2>6, <2>7, <2>8, <2>9, <2>10, <2>11 DEF LinkStep
<1>5. ASSUME NEW p \in Procs, CreateGoogleLoginCode(p)
      PROVE  Rest' /\ OpsTyped' /\ LocksTyped'
  <2>1. Idle \in Ops /\ Idle.pc = "idle" /\ op[p] \in Ops
    BY <1>a DEF Idle, Ops, OpsTyped
  <2>2. OpsTyped'
    BY <1>a, <1>5, <2>1, OpTyped DEF CreateGoogleLoginCode
  <2>3. op[p].user \in Users \cup {None} /\ op[p].subject \in Subjects \cup {None}
    BY <2>1 DEF Ops
  <2> QED
    BY <1>a, <1>5, <2>2, <2>3 DEF CreateGoogleLoginCode, LocksTyped
<1>6. ASSUME NEW p \in Procs, NEW c \in Codes, ExchangeLoginCode(p, c)
      PROVE  Rest' /\ OpsTyped' /\ LocksTyped'
  <2> DEFINE r == [Idle EXCEPT !.pc = "exchange", !.code = c]
  <2>1. r \in Ops /\ r.pc = "exchange"
    BY DEF Idle, Ops
  <2>2. OpsTyped'
    BY <1>a, <1>6, <2>1, OpTyped DEF ExchangeLoginCode
  <2> QED
    BY <1>a, <1>6, <2>2 DEF ExchangeLoginCode, LocksTyped
<1>7. ASSUME NEW p \in Procs, GetOAuthLoginCodeForUpdate(p)
      PROVE  Rest' /\ OpsTyped' /\ LocksTyped'
  <2>1. OpsTyped'
    BY <1>a, <1>7, GotoTyped DEF GetOAuthLoginCodeForUpdate, PCs
  <2> QED
    BY <1>a, <1>7, <2>1 DEF GetOAuthLoginCodeForUpdate, LocksTyped
<1>8. ASSUME NEW p \in Procs, ExchangeRefused(p) \/ Abort(p)
      PROVE  Rest' /\ OpsTyped' /\ LocksTyped'
  BY <1>a, <1>8, RollbackTyped DEF ExchangeRefused, Abort
<1>9. ASSUME NEW p \in Procs, ConsumeOAuthLoginCode(p)
      PROVE  Rest' /\ OpsTyped' /\ LocksTyped'
  <2>1. OpsTyped' /\ LocksTyped'
    BY <1>a, <1>9, RollbackTyped DEF ConsumeOAuthLoginCode
  <2> QED
    BY SMTT(20), <1>a, <1>9, <2>1 DEF ConsumeOAuthLoginCode, Exchanging
<1>10. ASSUME NEW c \in Codes, DeleteExpiredOAuthLoginCodes(c)
      PROVE  Rest' /\ OpsTyped' /\ LocksTyped'
  BY <1>a, <1>10 DEF DeleteExpiredOAuthLoginCodes, NoCode, OpsTyped, LocksTyped
<1> QED
  BY <1>1, <1>2, <1>3, <1>4, <1>5, <1>6, <1>7, <1>8, <1>9, <1>10 DEF Next


-----------------------------------------------------------------------------
\* Links, deletions and exchanges

NextInv == Linking /\ Deleting /\ Exchanging /\ CodesFollowLinks /\ OneSessionPerCode

\* Users who register, change their email or go.
LEMMA UsersKeepLinks ==
    ASSUME LoginInv, NEW u \in Users,
           DeleteMe(u) \/ \E e \in Emails : RegisterUser(u, e) \/ UpdateMe(u, e)
    PROVE  NextInv'
<1> USE OAuthAssumption DEF LoginInv, TypeOK
<1>1. CASE DeleteMe(u)
  <2>1. Linking'
    BY <1>1 DEF DeleteMe, Linking, Exists, NoCode, Ops
  <2>2. Deleting'
    BY <1>1 DEF DeleteMe, Deleting, Exists
  <2>3. Exchanging'
    BY <1>1 DEF DeleteMe, Exchanging, NoCode
  <2>4. CodesFollowLinks'
    BY <1>1 DEF DeleteMe, CodesFollowLinks, Linking, NoCode
  <2>5. OneSessionPerCode'
    BY <1>1 DEF DeleteMe, OneSessionPerCode, NoCode
  <2> QED
    BY <2>1, <2>2, <2>3, <2>4, <2>5 DEF NextInv
<1>2. CASE \E e \in Emails : RegisterUser(u, e) \/ UpdateMe(u, e)
  <2>1. Deleting'
    BY <1>2 DEF RegisterUser, UpdateMe, Deleting, Unused, Exists
  <2>2. /\ UNCHANGED <<gone, linkVars, codeVars, op>>
    BY <1>2 DEF RegisterUser, UpdateMe
  <2>3. Linking' /\ Exchanging' /\ CodesFollowLinks' /\ OneSessionPerCode'
    BY <2>2 DEF Linking, Exchanging, CodesFollowLinks, OneSessionPerCode
  <2> QED
    BY <2>1, <2>3 DEF NextInv
<1> QED
  BY <1>1, <1>2

\* A request that gives up leaves nothing behind.
LEMMA RollbackKeepsLinks ==
    ASSUME LoginInv, NEW p \in Procs, Rollback(p),
           UNCHANGED <<userVars, linkVars, code, sessions>>
    PROVE  NextInv'
<1> USE OAuthAssumption DEF LoginInv, TypeOK
<1>1. /\ op' = [op EXCEPT ![p] = Idle] /\ Idle.pc = "idle" /\ Idle.fresh = FALSE
      /\ op'[p] = Idle /\ \A q \in Procs \ {p} : op'[q] = op[q]
  BY DEF Rollback, Idle
<1>2. Linking'
  BY <1>1 DEF Linking
<1>3. Deleting'
  BY <1>1 DEF Deleting, Rollback, Unlock
<1>4. Exchanging'
  BY <1>1 DEF Exchanging, Rollback
<1> QED
  BY <1>2, <1>3, <1>4 DEF NextInv, CodesFollowLinks, OneSessionPerCode

\* What p does to its own request when no other request is touched.
Others(p) == \A q \in Procs \ {p} : op'[q] = op[q]

\* A transaction ends and p has logged in.
LEMMA LoggedInOp ==
    ASSUME TypeOK, NEW p \in Procs, NEW u \in Users, LoggedIn(p, u)
    PROVE  /\ Others(p)
           /\ op'[p].pc = "code" /\ op'[p].user = u /\ op'[p].fresh = FALSE
           /\ op'[p].subject = op[p].subject
           /\ \A v \in Users : userLock'[v] = IF userLock[v] = p THEN None ELSE userLock[v]
BY DEF TypeOK, Ops, LoggedIn, Unlock, Others


\* The transaction of p commits: with the link it found, or with its own.
LEMMA LoginKeepsLinks ==
    ASSUME LoginInv, NEW p \in Procs,
           FinishExistingLink(p) \/ CommitLink(p) \/ LoginExistingGoogleIdentity(p)
    PROVE  NextInv'
<1> USE OAuthAssumption DEF LoginInv, TypeOK
<1>1. op[p].pc \notin {"idle", "exchange", "issue"} /\ op[p].subject \in Subjects
  BY DEF FinishExistingLink, CommitLink, LoginExistingGoogleIdentity, Linking
<1>2. PICK u \in Users : LoggedIn(p, u) /\ linked'[op[p].subject] = u
  <2>1. CASE CommitLink(p)
    BY <1>1, <2>1 DEF CommitLink, Ops
  <2>2. CASE ~CommitLink(p)
    BY <1>1, <2>2 DEF FinishExistingLink, LoginExistingGoogleIdentity
  <2> QED
    BY <2>1, <2>2
<1>3. /\ Others(p)
      /\ op'[p].pc = "code" /\ op'[p].user = u /\ op'[p].fresh = FALSE
      /\ op'[p].subject = op[p].subject
      /\ \A v \in Users : userLock'[v] = IF userLock[v] = p THEN None ELSE userLock[v]
  BY <1>2, LoggedInOp
<1>4. /\ UNCHANGED <<gone, codeVars>>
      /\ \A s \in Subjects : linked[s] # None => linked'[s] = linked[s]
      /\ \A s \in Subjects : linked'[s] # linked[s] => op[p].pc = "commit" /\ s = op[p].subject
      /\ \A v \in Users : email'[v] # email[v] => op[p].fresh /\ v = op[p].user
  BY <1>1 DEF FinishExistingLink, CommitLink, LoginExistingGoogleIdentity, Linking
<1>5. Linking'
  <2>1. \A q \in Procs : /\ op[q].pc = "commit" /\ q # p => linked'[op[q].subject] = None
                         /\ op[q].pc = "code" =>
                               op[q].user \in gone \/ linked'[op[q].subject] = op[q].user
    BY <1>1, <1>4 DEF Linking
  <2>2. \A q \in Procs : op'[q].pc = "commit" => q # p /\ op'[q] = op[q]
    BY <1>3 DEF Others
  <2>3. \A q \in Procs : op'[q].pc = "code" => q = p \/ op'[q] = op[q]
    BY <1>3 DEF Others
  <2>4. \A q \in Procs : op'[q].pc \notin {"idle", "exchange", "issue"}
                             => op'[q].subject \in Subjects
    BY <1>1, <1>3 DEF Others, Linking
  <2>5. \A q \in Procs : op'[q].pc = "code" =>
                             op'[q].user \in gone \/ linked'[op'[q].subject] = op'[q].user
    BY <1>2, <1>3, <2>1, <2>3
  <2>6. \A c \in Codes : code'[c].state = "open" =>
                             code'[c].subject \in Subjects /\ code'[c].user \in Users
    BY <1>4 DEF Linking
  <2> QED
    BY <1>4, <2>1, <2>2, <2>4, <2>5, <2>6 DEF Linking
<1>6. Deleting'
  BY <1>3, <1>4 DEF Deleting, Others
<1>7. Exchanging'
  BY <1>3, <1>4 DEF Exchanging, Others
<1>8. CodesFollowLinks' /\ OneSessionPerCode'
  BY <1>4 DEF CodesFollowLinks, OneSessionPerCode, Linking, Ops
<1> QED
  BY <1>5, <1>6, <1>7, <1>8 DEF NextInv

\* A request begins, or goes on within its transaction.
LEMMA RequestKeepsLinks ==
    ASSUME LoginInv, NEW p \in Procs,
           \/ \E s \in Subjects, e \in Emails : AuthenticateGoogle(p, s, e)
           \/ UpdateOAuthAccountEmail(p) \/ NotLinkedYet(p) \/ GetOAuthUser(p)
           \/ CreateOAuthUser(p) \/ CreateOAuthAccount(p) \/ ConcurrentlyLinked(p)
    PROVE  NextInv'
<1> USE OAuthAssumption DEF LoginInv, TypeOK
<1>1. UNCHANGED <<gone, email, linked, code, codeLock, sessions>> /\ Others(p)
  BY ZenonT(40) DEF AuthenticateGoogle, UpdateOAuthAccountEmail, NotLinkedYet, GetOAuthUser,
         CreateOAuthUser, CreateOAuthAccount, ConcurrentlyLinked, Goto, Others
<1> DEFINE Fine == /\ op'[p].pc \notin {"exchange", "issue"} /\ op'[p].subject \in Subjects
                   /\ op'[p].pc = "commit" => /\ linked[op'[p].subject] = None
                                              /\ op'[p].subject = op[p].subject
                                              /\ ~SubjectPending(p)
                   /\ op'[p].pc = "code" => linked[op'[p].subject] = op'[p].user
                   /\ op'[p].fresh => /\ op'[p].user \in Users \ gone
                                      /\ email[op'[p].user] = None
                                      /\ userLock'[op'[p].user] = p
                                      /\ op'[p].pc \in {"recheck", "insert", "commit"}
                   /\ \A q \in Procs \ {p} :
                         op[q].fresh => userLock'[op[q].user] = userLock[op[q].user]
<1>2. Fine
  <2>1. ASSUME NEW s \in Subjects, NEW e \in Emails, AuthenticateGoogle(p, s, e)
        PROVE  Fine
    BY <2>1 DEF AuthenticateGoogle, Idle
  <2>2. CASE UpdateOAuthAccountEmail(p)
    BY <2>2 DEF UpdateOAuthAccountEmail, Goto, Linking, Deleting
  <2>3. CASE NotLinkedYet(p)
    BY <2>3 DEF NotLinkedYet, Goto, Linking, Deleting
  <2>4. CASE GetOAuthUser(p)
    <3>1. PICK u \in Users : /\ email[u] = op[p].mail /\ userLock[u] = None
                             /\ userLock' = [userLock EXCEPT ![u] = p]
                             /\ op' = [op EXCEPT ![p].pc = "recheck", ![p].user = u]
      BY <2>4 DEF GetOAuthUser
    <3>2. op'[p].pc = "recheck" /\ op'[p].subject = op[p].subject /\ op'[p].fresh = op[p].fresh
      BY <3>1
    <3>3. ~op'[p].fresh /\ op[p].subject \in Subjects
      BY <2>4, <3>2 DEF GetOAuthUser, Linking, Deleting
    <3>4. ASSUME NEW q \in Procs \ {p}, op[q].fresh
          PROVE  userLock'[op[q].user] = userLock[op[q].user]
      BY <3>1, <3>4 DEF Deleting
    <3> QED
      BY <3>2, <3>3, <3>4
  <2>5. CASE CreateOAuthUser(p)
    <3>1. PICK u \in Users : /\ Unused(u)
                             /\ userLock' = [userLock EXCEPT ![u] = p]
                             /\ op' = [op EXCEPT ![p].pc = "recheck", ![p].user = u,
                                                 ![p].fresh = TRUE]
      BY <2>5 DEF CreateOAuthUser
    <3>2. op'[p].pc = "recheck" /\ op'[p].subject = op[p].subject /\ op'[p].user = u
      BY <3>1
    <3>3. u \notin gone /\ email[u] = None /\ userLock[u] = None /\ userLock'[u] = p
      BY <3>1 DEF Unused
    <3>4. op[p].subject \in Subjects
      BY <2>5 DEF CreateOAuthUser, Linking
    <3>5. ASSUME NEW q \in Procs \ {p}, op[q].fresh
          PROVE  userLock'[op[q].user] = userLock[op[q].user]
      BY <3>1, <3>3, <3>5 DEF Deleting
    <3> QED
      BY <3>2, <3>3, <3>4, <3>5
  <2>6. CASE CreateOAuthAccount(p)
    BY <2>6 DEF CreateOAuthAccount, Goto, Linking, Deleting
  <2>7. CASE ConcurrentlyLinked(p)
    <3>1. op'[p].pc = "retry" /\ op'[p].subject = op[p].subject /\ op'[p].fresh = FALSE
      BY <2>7 DEF ConcurrentlyLinked
    <3> QED
      BY <2>7, <3>1 DEF ConcurrentlyLinked, Linking, Deleting, Unlock
  <2> QED
    BY <2>1, <2>2, <2>3, <2>4, <2>5, <2>6, <2>7
<1>3. Linking'
  BY SMTT(20), <1>1, <1>2 DEF Linking, Others, SubjectPending
<1>4. Deleting'
  BY <1>1, <1>2 DEF Deleting, Others
<1>5. Exchanging'
  BY <1>1, <1>2 DEF Exchanging, Others
<1> QED
  BY <1>1, <1>3, <1>4, <1>5 DEF NextInv, CodesFollowLinks, OneSessionPerCode

\* Login codes are made, exchanged and cleaned up.
LEMMA CodesKeepLinks ==
    ASSUME LoginInv,
           \/ \E p \in Procs : \/ CreateGoogleLoginCode(p)
                               \/ \E c \in Codes : ExchangeLoginCode(p, c)
                               \/ GetOAuthLoginCodeForUpdate(p) \/ ConsumeOAuthLoginCode(p)
           \/ \E c \in Codes : DeleteExpiredOAuthLoginCodes(c)
    PROVE  NextInv'
<1> USE OAuthAssumption DEF LoginInv, TypeOK
<1>1. ASSUME NEW p \in Procs, CreateGoogleLoginCode(p)
      PROVE  NextInv'
  <2>1. /\ op' = [op EXCEPT ![p] = Idle] /\ Idle.pc = "idle" /\ Idle.fresh = FALSE
        /\ UNCHANGED <<userVars, linkVars, codeLock, sessions, userLock>>
        /\ \A c \in Codes : \/ code'[c] = code[c]
                            \/ /\ code[c] = NoCode /\ code'[c].state = "open"
                               /\ code'[c].subject = op[p].subject
                               /\ code'[c].user = op[p].user
                               /\ Exists(op[p].user) /\ op[p].pc = "code"
    BY <1>1 DEF CreateGoogleLoginCode, Idle
  <2>2. Linking'
    BY <2>1 DEF Linking
  <2>3. Deleting' /\ Exchanging'
    BY <2>1 DEF Deleting, Exchanging, NoCode
  <2>4. CodesFollowLinks'
    BY <2>1 DEF CodesFollowLinks, Linking, Deleting, Exists
  <2>5. OneSessionPerCode'
    BY <2>1 DEF OneSessionPerCode, Exchanging, NoCode
  <2> QED
    BY <2>2, <2>3, <2>4, <2>5 DEF NextInv
<1>2. ASSUME NEW p \in Procs, NEW c \in Codes, ExchangeLoginCode(p, c)
      PROVE  NextInv'
  <2>1. /\ Others(p) /\ op'[p].pc = "exchange" /\ op'[p].fresh = FALSE /\ op'[p].code = c
        /\ UNCHANGED <<userVars, linkVars, codeVars, userLock>>
    BY <1>2 DEF ExchangeLoginCode, Idle, Others
  <2>2. Linking' /\ Deleting'
    <3>1. \A q \in Procs : op'[q].pc \notin {"exchange", "issue"} => op'[q] = op[q]
      BY <2>1 DEF Others
    <3>2. \A q \in Procs : op'[q].fresh => op'[q] = op[q]
      BY <2>1 DEF Others, Deleting
    <3>3. UNCHANGED <<gone, email, linked, code, userLock>>
      BY <2>1
    <3>4. Linking'
      BY <3>1, <3>3 DEF Linking
    <3> QED
      BY <3>2, <3>3, <3>4 DEF Deleting
  <2>3. Exchanging'
    BY <2>1 DEF Exchanging, Others
  <2> QED
    BY <2>1, <2>2, <2>3 DEF NextInv, CodesFollowLinks, OneSessionPerCode
<1>3. ASSUME NEW p \in Procs, GetOAuthLoginCodeForUpdate(p)
      PROVE  NextInv'
  <2>1. /\ Others(p) /\ op'[p].pc = "issue" /\ op'[p].fresh = op[p].fresh
        /\ op'[p].user = op[p].user /\ op'[p].code = op[p].code /\ op[p].pc = "exchange"
        /\ codeLock[op[p].code] = None /\ code[op[p].code].state = "open"
        /\ codeLock' = [codeLock EXCEPT ![op[p].code] = p]
        /\ UNCHANGED <<userVars, linkVars, code, sessions, userLock>>
    BY <1>3 DEF GetOAuthLoginCodeForUpdate, Goto, Others, Ops
  <2>2. Linking' /\ Deleting'
    <3>1. \A q \in Procs : op'[q].pc \notin {"exchange", "issue"} => op'[q] = op[q]
      BY <2>1 DEF Others
    <3>2. \A q \in Procs : op'[q].fresh => op'[q] = op[q]
      BY <2>1 DEF Others, Deleting
    <3>3. UNCHANGED <<gone, email, linked, code, userLock>>
      BY <2>1
    <3>4. Linking'
      BY <3>1, <3>3 DEF Linking
    <3> QED
      BY <3>2, <3>3, <3>4 DEF Deleting
  <2>3. Exchanging'
    BY <2>1 DEF Exchanging, Others
  <2> QED
    BY <2>1, <2>2, <2>3 DEF NextInv, CodesFollowLinks, OneSessionPerCode
<1>4. ASSUME NEW p \in Procs, ConsumeOAuthLoginCode(p)
      PROVE  NextInv'
  <2> DEFINE c == op[p].code
  <2>1. /\ op' = [op EXCEPT ![p] = Idle] /\ Idle.pc = "idle" /\ Idle.fresh = FALSE
        /\ c \in Codes /\ codeLock[c] = p /\ code[c].state = "open" /\ sessions[c] = 0
        /\ sessions' = [sessions EXCEPT ![c] = @ + 1]
        /\ code' = [code EXCEPT ![c].state = "consumed"]
        /\ \A d \in Codes : codeLock'[d] = IF codeLock[d] = p THEN None ELSE codeLock[d]
        /\ \A u \in Users : userLock'[u] = IF userLock[u] = p THEN None ELSE userLock[u]
        /\ UNCHANGED <<userVars, linkVars>>
    BY <1>4 DEF ConsumeOAuthLoginCode, Rollback, Unlock, Exchanging, Idle
  <2>2. Linking' /\ CodesFollowLinks'
    BY <2>1 DEF Linking, CodesFollowLinks
  <2>3. Deleting'
    BY <2>1 DEF Deleting
  <2>4. Exchanging' /\ OneSessionPerCode'
    BY <2>1 DEF Exchanging, OneSessionPerCode
  <2> QED
    BY <2>2, <2>3, <2>4 DEF NextInv
<1>5. ASSUME NEW c \in Codes, DeleteExpiredOAuthLoginCodes(c)
      PROVE  NextInv'
  BY <1>5 DEF DeleteExpiredOAuthLoginCodes, NoCode, NextInv, Linking, Deleting, Exchanging,
              CodesFollowLinks, OneSessionPerCode
<1> QED
  BY <1>1, <1>2, <1>3, <1>4, <1>5

LEMMA LoginStep == LoginInv /\ [Next]_vars => LoginInv'
<1> SUFFICES ASSUME LoginInv, [Next]_vars PROVE LoginInv'
  OBVIOUS
<1>1. CASE UNCHANGED vars
  BY <1>1 DEF vars, LoginInv, TypeOK, Linking, Deleting, Exchanging, CodesFollowLinks,
              OneSessionPerCode
<1>2. CASE Next
  <2>1. TypeOK'
    BY <1>2, TypeStep DEF LoginInv
  <2>2. NextInv'
    <3>1. ASSUME NEW p \in Procs, AccountGone(p) \/ OAuthAccountConflict(p) \/ LinkLost(p)
                                    \/ ExchangeRefused(p) \/ Abort(p)
          PROVE  NextInv'
      BY <3>1, RollbackKeepsLinks
      DEF AccountGone, OAuthAccountConflict, LinkLost, ExchangeRefused, Abort
    <3> QED
      BY <1>2, <3>1, UsersKeepLinks, LoginKeepsLinks, RequestKeepsLinks, CodesKeepLinks
      DEF Next, LinkStep
  <2> QED
    BY <2>1, <2>2 DEF LoginInv, NextInv
<1> QED
  BY <1>1, <1>2

-----------------------------------------------------------------------------

\* Every reachable state is well typed.
THEOREM TypeCorrect == Spec => []TypeOK
<1>1. LoginInv => TypeOK
  BY DEF LoginInv
<1> QED
  BY InitLogin, LoginStep, <1>1, PTL DEF Spec

\* A code that can be exchanged belongs to the user its identity is linked to.
THEOREM CodesOfLinkedUsers == Spec => []CodesFollowLinks
<1>1. LoginInv => CodesFollowLinks
  BY DEF LoginInv
<1> QED
  BY InitLogin, LoginStep, <1>1, PTL DEF Spec

\* A code makes one session at most.
THEOREM CodesUsedOnce == Spec => []OneSessionPerCode
<1>1. LoginInv => OneSessionPerCode
  BY DEF LoginInv
<1> QED
  BY InitLogin, LoginStep, <1>1, PTL DEF Spec

\* An identity leaves its user only with the user.
THEOREM LinksKept == Spec => LinksAreKept
<1> DEFINE Kept == \A s \in Subjects :
                      linked[s] # None /\ linked'[s] # linked[s] => linked[s] \in gone'
<1>1. LoginInv /\ [Next]_vars => [Kept]_vars
  <2> SUFFICES ASSUME LoginInv, Next PROVE Kept
    OBVIOUS
  <2>1. ASSUME NEW u \in Users, DeleteMe(u)
        PROVE  Kept
    BY <2>1 DEF DeleteMe
  <2>2. ASSUME NEW p \in Procs, CommitLink(p)
        PROVE  Kept
    BY <2>2 DEF CommitLink, LoginInv, Linking, TypeOK
  <2>3. CASE UNCHANGED linked
    BY <2>3
  <2> QED
    BY <2>1, <2>2, <2>3
    DEF Next, LinkStep, RegisterUser, UpdateMe, AuthenticateGoogle, UpdateOAuthAccountEmail,
        AccountGone, FinishExistingLink, NotLinkedYet, GetOAuthUser, CreateOAuthUser,
        CreateOAuthAccount, ConcurrentlyLinked, OAuthAccountConflict,
        LoginExistingGoogleIdentity, LinkLost, CreateGoogleLoginCode, ExchangeLoginCode,
        GetOAuthLoginCodeForUpdate, ExchangeRefused, ConsumeOAuthLoginCode, Abort,
        DeleteExpiredOAuthLoginCodes
<1> QED
  BY InitLogin, LoginStep, <1>1, PTL DEF Spec, LinksAreKept

=============================================================================
