----------------------------- MODULE AuthSessions -----------------------------
(***************************************************************************)
(* Logins, sessions and the password of the operator (src/auth), as the    *)
(* request threads of the API process run them on the database, one        *)
(* transaction per step.  A request with a token authenticates first and   *)
(* then goes on to its operation, which OperatorApi models.                *)
(***************************************************************************)
EXTENDS Naturals, Sequences, FiniteSets, TLC

CONSTANTS RequestThreads,  \* threads of the API process
          MaxAttempts,     \* auth_login_max_attempts
          Passwords,       \* passwords someone may enter
          MaxRequests,     \* bound: requests that change something, and logins
          MaxFaults        \* bound: transactions that fail, restarts, and what the worker does

ASSUME AuthAssumption ==
    /\ MaxAttempts \in Nat \ {0} /\ MaxRequests \in Nat /\ MaxFaults \in Nat

VARIABLES password,   \* the password the admin's hash is of
          sessions,   \* auth_sessions, by number
          attempts,   \* login_attempts of the operator: count, window, blocked; or NoRow
          job,        \* what each thread is at
          requests, faults,
          failures,   \* ghost: wrong passwords since the last success, within the window
          overlapped  \* ghost: two logins were under way at a time

vars_auth == <<password, sessions, attempts, failures, overlapped>>

Idle == [step |-> "idle"]
NoRow == [count |-> 0, open |-> FALSE, blocked |-> FALSE]
At(t, step) == job[t].step = step
Goto(t, step) == job' = [job EXCEPT ![t].step = step]
Done(t) == job' = [job EXCEPT ![t] = Idle]
Begin(t) == At(t, "idle") /\ requests < MaxRequests /\ requests' = requests + 1

(***************************************************************************)
(* login                                                                   *)
(***************************************************************************)

LoggingIn == {t \in RequestThreads : job[t].step \in {"blocked", "verify", "failed", "count", "clear", "create"}}

BeginLogin(t) ==
    /\ Begin(t)
    /\ \E entered \in Passwords : job' = [job EXCEPT ![t] = [step |-> "blocked", entered |-> entered]]
    /\ overlapped' = (overlapped \/ LoggingIn # {})
    /\ UNCHANGED <<password, sessions, attempts, faults, failures>>

\* _assert_login_not_blocked
CheckBlocked(t) ==
    /\ At(t, "blocked")
    /\ IF attempts.blocked THEN Done(t) ELSE Goto(t, "verify")
    /\ UNCHANGED <<vars_auth, requests, faults>>

Verify(t) ==
    /\ At(t, "verify")
    /\ Goto(t, IF job[t].entered = password THEN "clear" ELSE "failed")
    /\ UNCHANGED <<vars_auth, requests, faults>>

\* Mutant: a window that is over goes on counting.
NextCountEver == attempts.count + 1

\* _record_login_failure: a window that is over begins again.
NextCount == IF attempts.open THEN attempts.count + 1 ELSE 1

ReadAttempts(t) ==
    /\ At(t, "failed")
    /\ job' = [job EXCEPT ![t] = [step |-> "count", count |-> NextCount]]
    /\ failures' = IF attempts.open THEN failures + 1 ELSE 1
    /\ UNCHANGED <<password, sessions, attempts, overlapped, requests, faults>>

WriteAttempts(t) ==
    /\ At(t, "count")
    /\ attempts' = [count |-> job[t].count, open |-> TRUE, blocked |-> job[t].count >= MaxAttempts]
    /\ Done(t)
    /\ UNCHANGED <<password, sessions, failures, overlapped, requests, faults>>

\* clear_login_attempt deletes the row.
ClearAttempts(t) ==
    /\ At(t, "clear")
    /\ attempts' = NoRow /\ failures' = 0
    /\ Goto(t, "create")
    /\ UNCHANGED <<password, sessions, overlapped, requests, faults>>

CreateSession(t) ==
    /\ At(t, "create")
    /\ sessions' = Append(sessions, [revoked |-> FALSE, expired |-> FALSE, left |-> FALSE])
    /\ Done(t)
    /\ UNCHANGED <<password, attempts, failures, overlapped, requests, faults>>

(***************************************************************************)
(* authenticate_token, logout                                              *)
(***************************************************************************)

\* A request with a token: the row is read, and touched or, when it has expired, revoked.
\* late says that the session's logout had been answered before.
Enter(t, request) ==
    \E s \in DOMAIN sessions :
        job' = [job EXCEPT ![t] = [step |-> "token", session |-> s, late |-> sessions[s].left,
                                      request |-> request]]

ReadToken(t) ==
    /\ At(t, "token")
    /\ LET row == sessions[job[t].session] IN
       IF row.revoked THEN Done(t) ELSE Goto(t, IF row.expired THEN "expire" ELSE "touch")
    /\ UNCHANGED <<vars_auth, requests, faults>>

Revoke(s) == sessions' = [sessions EXCEPT ![s].revoked = TRUE]

RevokeExpired(t) ==
    /\ At(t, "expire")
    /\ Revoke(job[t].session)
    /\ Done(t)
    /\ UNCHANGED <<password, attempts, failures, overlapped, requests, faults>>

\* Mutant: the row is written back as it was read.
TouchRow(t) ==
    /\ At(t, "touch")
    /\ sessions' = [sessions EXCEPT ![job[t].session].revoked = FALSE]
    /\ Goto(t, job[t].request.op)
    /\ UNCHANGED <<password, attempts, failures, overlapped, requests, faults>>

\* touch_auth_session writes last_seen_at, and no other column.
Touch(t) ==
    /\ At(t, "touch")
    /\ Goto(t, job[t].request.op)
    /\ UNCHANGED <<vars_auth, requests, faults>>

\* post_auth_logout revokes whatever the session is.
BeginLogout(t) ==
    /\ Begin(t)
    /\ \E s \in DOMAIN sessions : job' = [job EXCEPT ![t] = [step |-> "logout", session |-> s]]
    /\ UNCHANGED <<vars_auth, faults>>

Logout(t) ==
    /\ At(t, "logout")
    /\ sessions' = [sessions EXCEPT ![job[t].session].revoked = TRUE, ![job[t].session].left = TRUE]
    /\ Done(t)
    /\ UNCHANGED <<password, attempts, failures, overlapped, requests, faults>>

(***************************************************************************)
(* change_password                                                         *)
(***************************************************************************)

BeginPassword(t) ==
    /\ Begin(t)
    /\ \E entered, new \in Passwords : entered # new /\ Enter(t, [op |-> "password", entered |-> entered, new |-> new])
    /\ UNCHANGED <<vars_auth, faults>>

VerifyPassword(t) ==
    /\ At(t, "password")
    /\ IF job[t].request.entered = password THEN Goto(t, "newpassword") ELSE Done(t)
    /\ UNCHANGED <<vars_auth, requests, faults>>

WritePassword(t) ==
    /\ At(t, "newpassword")
    /\ password' = job[t].request.new
    /\ Done(t)
    /\ UNCHANGED <<sessions, attempts, failures, overlapped, requests, faults>>

\* Windows, blocks and sessions end with time.
TimePasses ==
    /\ \/ attempts.open /\ attempts' = [attempts EXCEPT !.open = FALSE] /\ UNCHANGED sessions
       \/ attempts.blocked /\ attempts' = [attempts EXCEPT !.blocked = FALSE] /\ UNCHANGED sessions
       \/ \E s \in DOMAIN sessions :
            /\ ~sessions[s].expired
            /\ sessions' = [sessions EXCEPT ![s].expired = TRUE] /\ UNCHANGED attempts
    /\ UNCHANGED <<password, job, requests, faults, failures, overlapped>>

AuthStep(t) ==
    \/ BeginLogin(t) \/ CheckBlocked(t) \/ Verify(t) \/ ReadAttempts(t) \/ WriteAttempts(t)
    \/ ClearAttempts(t) \/ CreateSession(t)
    \/ ReadToken(t) \/ RevokeExpired(t) \/ Touch(t)
    \/ BeginLogout(t) \/ Logout(t)
    \/ BeginPassword(t) \/ VerifyPassword(t) \/ WritePassword(t)

(***************************************************************************)
(* Properties                                                              *)
(***************************************************************************)

\* As long as no two logins overlap, a block comes of as many wrong passwords as it takes,
\* all of one window and none before the last success (_record_login_failure).
BlockedAfterFailures ==
    ~overlapped /\ attempts.blocked => failures >= MaxAttempts

\* A request that begins when the logout of its session has been answered gets no further than
\* the session's row, whatever the requests do that were under way (revoke_auth_session).
NoUseAfterLogout ==
    \A t \in RequestThreads : "late" \in DOMAIN job[t] /\ job[t].late => At(t, "token") \/ At(t, "expire")
=============================================================================
