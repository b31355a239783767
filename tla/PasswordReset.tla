------------------------------ MODULE PasswordReset ------------------------------
(***************************************************************************)
(* Password reset of one account: a request mails a one-time code, the     *)
(* code is exchanged for a reset token, and the token changes the password *)
(* and ends the sessions.  Requesting and verifying hold the lock on the   *)
(* user's row from their first statement to the commit and touch only what *)
(* it guards, so each is one step here; confirming also waits for the rows *)
(* of the sessions, and is a transaction of several.                       *)
(***************************************************************************)
EXTENDS Sessions

CONSTANTS
    MaxAttempts,   \* maxOTPAttempts
    MaxRows        \* tokens and requests that can be made together: a bound

VARIABLES
    request,       \* the state of each row of password_reset_requests
    tries,         \* password_reset_requests.attempts
    mailed,        \* the newest request, if its code reached the guest
    over,          \* requests whose code, or then whose token, has expired
    cooled,        \* requests older than the cooldown
    used           \* ghost: how often a request has changed the password

resetVars == <<request, tries, mailed, over, cooled, used>>
vars == <<sessionVars, resetVars>>

ASSUME PasswordResetAssumption == MaxAttempts \in Nat /\ MaxRows \in Nat

TypeOK ==
    /\ SessionTypeOK
    /\ request \in [Requests -> {"none", "open", "verified", "consumed", "deleted"}]
    /\ tries \in [Requests -> 0..MaxAttempts]
    /\ mailed \subseteq Requests
    /\ over \subseteq Requests
    /\ cooled \subseteq Requests
    /\ used \in [Requests -> Nat]

Init ==
    /\ SessionInit
    /\ request = [r \in Requests |-> "none"]
    /\ tries = [r \in Requests |-> 0]
    /\ mailed = {} /\ over = {} /\ cooled = {}
    /\ used = [r \in Requests |-> 0]

Rows == {r \in Requests : request[r] \in {"open", "verified", "consumed"}}

Latest(R) == CHOOSE r \in R : \A s \in R : s <= r

\* LockUserForPasswordReset by email or by id, FOR UPDATE.
UserLockable(p) == userLock \in {NoOne, p} /\ keyShare \subseteq {p}

-----------------------------------------------------------------------------

\* Mutant of ConsumeActive: a verified request stays.
ConsumeOpen == [r \in Requests |-> IF request[r] = "open" THEN "consumed" ELSE request[r]]

\* ConsumeActivePasswordResetRequests
ConsumeActive ==
    [r \in Requests |-> IF request[r] \in {"open", "verified"} THEN "consumed" ELSE request[r]]

\* The code is mailed after the commit, and the guest may not get it.
RequestPasswordReset(p) ==
    /\ op[p] = Idle /\ UserLockable(p)
    /\ Rows # {} => Latest(Rows) \in cooled
    /\ \E r \in Requests :
          /\ request[r] = "none"
          /\ \A s \in Requests : s < r => request[s] # "none"
          /\ request' = [ConsumeActive EXCEPT ![r] = "open"]
          /\ mailed' \in {{}, {r}}
    /\ UNCHANGED <<sessionVars, tries, over, cooled, used>>

\* The newest request that is neither verified nor consumed, if it may still
\* be tried.
Verifiable(r) ==
    /\ request[r] = "open" /\ \A s \in Requests : request[s] = "open" => s <= r
    /\ tries[r] < MaxAttempts /\ r \notin over

VerifyWrongOTP(p, r) ==
    /\ op[p] = Idle /\ UserLockable(p) /\ Verifiable(r)
    /\ tries' = [tries EXCEPT ![r] = @ + 1]
    /\ UNCHANGED <<sessionVars, request, mailed, over, cooled, used>>

VerifyPasswordResetOTP(p, r) ==
    /\ op[p] = Idle /\ UserLockable(p) /\ Verifiable(r) /\ r \in mailed
    /\ request' = [request EXCEPT ![r] = "verified"]
    /\ UNCHANGED <<sessionVars, tries, mailed, over, cooled, used>>

\* The request is found by its token, before anything is locked.
ConfirmBegin(p, r) ==
    /\ op[p] = Idle /\ request[r] = "verified"
    /\ op' = [op EXCEPT ![p] = [Idle EXCEPT !.kind = "confirm", !.pc = "lock", !.req = r]]
    /\ UNCHANGED <<token, succ, expired, password, lockVars, family, born, resetVars>>

\* The request as it is read again under the lock.
StillConfirmable(r) == request[r] = "verified" /\ r \notin over

\* The WHERE of ConsumePasswordResetRequest, at the time of that reading.
Consumable(r) == request[r] = "verified" /\ r \notin over

\* The statements up to ConsumePasswordResetRequest: they wait for nobody.
ConfirmAccepted(p) ==
    /\ op[p].kind = "confirm" /\ op[p].pc = "lock" /\ UserLockable(p)
    /\ StillConfirmable(op[p].req) /\ Consumable(op[p].req)
    /\ userLock' = p
    /\ Goto(p, "revokeAll")
    /\ UNCHANGED <<token, succ, expired, password, keyShare, rowLock, family, born, resetVars>>

\* Nothing is left of what the transaction wrote before the refusal.
ConfirmRefused(p) ==
    /\ op[p].kind = "confirm" /\ op[p].pc = "lock" /\ UserLockable(p)
    /\ ~(StillConfirmable(op[p].req) /\ Consumable(op[p].req))
    /\ Finish(p)
    /\ UNCHANGED <<token, succ, expired, password, family, born, resetVars>>

\* Mutant of Consumed: the request is left as it is.
Unconsumed(r) == request

Consumed(r) == [request EXCEPT ![r] = "consumed"]

\* UpdateUserPasswordAfterReset, ConsumePasswordResetRequest and the revoked
\* sessions show together.
ConfirmPasswordReset(p) ==
    LET r == op[p].req
    IN  /\ op[p].kind = "confirm" /\ op[p].pc = "revoking" /\ op[p].todo = {}
        /\ token' = Revoked(p)
        /\ password' = password + 1
        /\ request' = Consumed(r)
        /\ used' = [used EXCEPT ![r] = @ + 1]
        /\ Finish(p)
        /\ UNCHANGED <<succ, expired, family, born, tries, mailed, over, cooled>>

-----------------------------------------------------------------------------

\* The code expires, or after verification the token.
RequestExpires(r) ==
    /\ r \in Rows \ over
    /\ over' = over \cup {r}
    /\ UNCHANGED <<sessionVars, request, tries, mailed, cooled, used>>

CooldownEnds(r) ==
    /\ r \in Rows \ cooled
    /\ cooled' = cooled \cup {r}
    /\ UNCHANGED <<sessionVars, request, tries, mailed, over, used>>

\* The cleanup worker: what is consumed or expired, unless a confirmation
\* has the row locked.
DeleteExpiredPasswordResetRequests ==
    LET D == {r \in Rows : request[r] = "consumed" \/ r \in over}
    IN  /\ D # {} /\ \A p \in Procs : ~(userLock = p /\ op[p].req \in D)
        /\ request' = [r \in Requests |-> IF r \in D THEN "deleted" ELSE request[r]]
        /\ tries' = [r \in Requests |-> IF r \in D THEN 0 ELSE tries[r]]
        /\ over' = over \ D /\ cooled' = cooled \ D /\ mailed' = mailed \ D
        /\ UNCHANGED <<sessionVars, used>>

ResetStep(p) == ConfirmAccepted(p) \/ ConfirmRefused(p) \/ ConfirmPasswordReset(p)

\* Bound: an action that would make one row too many does not happen.
Made == Cardinality({t \in Tokens : token[t] # "none"})
            + Cardinality({r \in Requests : request[r] # "none"})

Step ==
    \/ SessionNext /\ UNCHANGED resetVars
    \/ \E p \in Procs :
          \/ RequestPasswordReset(p)
          \/ \E r \in Requests :
                VerifyWrongOTP(p, r) \/ VerifyPasswordResetOTP(p, r) \/ ConfirmBegin(p, r)
          \/ ResetStep(p)
    \/ \E r \in Requests : RequestExpires(r) \/ CooldownEnds(r)
    \/ DeleteExpiredPasswordResetRequests

Next == Step /\ Made' <= MaxRows

Spec == Init /\ [][Next]_vars

-----------------------------------------------------------------------------

\* One request is under way at a time (the partial unique index on user_id
\* never makes an insert fail), and no request changes the password twice,
\* however many confirmations found it before they locked the user.
OneResetPerRequest ==
    /\ \A r, s \in Requests :
          request[r] \in {"open", "verified"} /\ request[s] \in {"open", "verified"} => r = s
    /\ \A r \in Requests : used[r] <= 1

\* The password changes only by the newest request: whoever asks for another
\* code makes every earlier token worthless, also one that a confirmation
\* has already looked up.
NewestRequestResets ==
    [][\A r \in Requests : used'[r] # used[r] =>
          r = Latest({s \in Requests : request[s] # "none"})]_vars

-----------------------------------------------------------------------------

\* The database queues those who wait for a row, so nobody is passed over for
\* ever, and breaks circles.
Fairness ==
    \A p \in Procs :
        /\ SF_vars((SessionStep(p) /\ UNCHANGED resetVars) \/ ResetStep(p))
        /\ WF_vars(Deadlocked(p) /\ Abort(p) /\ UNCHANGED resetVars)

FairSpec == Spec /\ Fairness

\* No request is stuck for good: locks are given back on every path, and a
\* rotation and a reset that wait for each other are separated.
OperationsEnd == \A p \in Procs : op[p] # Idle ~> op[p] = Idle

=============================================================================
