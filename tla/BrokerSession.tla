---------------------------- MODULE BrokerSession ----------------------------
(***************************************************************************)
(* The broker session every symbol loop shares (src/app.py, class          *)
(* AngelOneFetcher).  A data call first makes the session fresh, under a   *)
(* lock, then binds a method of the current client and calls it; a session *)
(* error logs in again, outside the lock, and calls the same bound method  *)
(* once more.  A client is none, raw (constructed, not yet logged in),     *)
(* live, or dead (the broker refuses its token); a login constructs the    *)
(* client first and authenticates it in a second step.                     *)
(***************************************************************************)
EXTENDS Naturals, FiniteSetsExt

CONSTANTS Threads,   \* the symbol loops
          Cooldown,  \* LOGIN_RETRY_COOLDOWN_SECONDS
          Refresh,   \* SESSION_REFRESH_SECONDS, in the same units
          Retries    \* max_rate_limit_retries

VARIABLES client,      \* self.client
          sinceLogin,  \* age of _last_login_time, which a failed login keeps
          sinceCold,   \* age of _last_login_attempt, set by the cold branch only
          lock,        \* the holder of _login_lock, or nobody
          call         \* what each thread's data call does

broker == <<client, sinceLogin, sinceCold, lock, call>>

Clients == {"none", "raw", "live", "dead"}
Nobody  == "nobody"
Never   == Refresh + 2   \* _last_login_time is None

\* again: the session is to be made fresh a second time; fn: the client a bound method belongs
\* to; same: it is still self.client.
Idle == [at |-> "idle", again |-> FALSE, fn |-> "none", same |-> FALSE, tries |-> 0]
Call == [at : {"idle", "ensure", "refresh", "cold", "locked", "signing", "ready", "calling", "relogin",
               "resigning", "retrying"},
         again : BOOLEAN, fn : Clients, same : BOOLEAN, tries : 0..Retries]

TypeOK ==
    /\ client \in Clients /\ lock \in Threads \cup {Nobody}
    /\ sinceLogin \in 0..Never /\ sinceCold \in 0..Cooldown
    /\ call \in [Threads -> Call]

\* The constructor logs in once, and carries on whatever comes of it.
Init ==
    /\ \/ client = "live" /\ sinceLogin = 0
       \/ client = "none" /\ sinceLogin = Never
    /\ sinceCold = Cooldown /\ lock = Nobody
    /\ call = [t \in Threads |-> Idle]

At(t, place) == call[t].at = place
GoTo(t, place) == call' = [call EXCEPT ![t].at = place]
Return(t) == call' = [call EXCEPT ![t] = Idle]

-----------------------------------------------------------------------------
\* A data method begins; most of them make the session fresh twice.
Begin(t) ==
    /\ At(t, "idle")
    /\ \E twice \in BOOLEAN : call' = [call EXCEPT ![t] = [Idle EXCEPT !.at = "ensure", !.again = twice]]
    /\ UNCHANGED <<client, sinceLogin, sinceCold, lock>>

LoggedIn == client # "none" /\ sinceLogin # Never
Old      == sinceLogin # Never /\ sinceLogin > Refresh

\* Mutant: without a client there is nothing to refresh.
EnsureGivesUp(t) ==
    /\ At(t, "ensure")
    /\ GoTo(t, IF LoggedIn /\ Old THEN "refresh" ELSE "ready")
    /\ UNCHANGED <<client, sinceLogin, sinceCold, lock>>
Ensure(t) ==
    /\ At(t, "ensure")
    /\ GoTo(t, IF ~LoggedIn THEN "cold" ELSE IF Old THEN "refresh" ELSE "ready")
    /\ UNCHANGED <<client, sinceLogin, sinceCold, lock>>

\* The age is asked again under the lock.
LockToRefresh(t) ==
    /\ At(t, "refresh") /\ lock = Nobody
    /\ IF client # "none" /\ Old
       THEN lock' = t /\ GoTo(t, "locked")
       ELSE lock' = lock /\ GoTo(t, "ready")
    /\ UNCHANGED <<client, sinceLogin, sinceCold>>

LockWhenCold(t) ==
    /\ At(t, "cold") /\ lock = Nobody
    /\ IF client = "none" /\ sinceCold = Cooldown
       THEN lock' = t /\ sinceCold' = 0 /\ GoTo(t, "locked")
       ELSE lock' = lock /\ sinceCold' = sinceCold /\ GoTo(t, "ready")
    /\ UNCHANGED <<client, sinceLogin>>

\* _login: a new client object takes the place of the old one; methods bound before keep theirs.
Construct(t, from, to) ==
    /\ At(t, from)
    /\ client' = "raw"
    /\ call' = [u \in Threads |-> [call[u] EXCEPT !.same = FALSE, !.at = IF u = t THEN to ELSE @]]
    /\ UNCHANGED <<sinceLogin, sinceCold, lock>>

\* generateSession, on whatever self.client is by now, succeeds...
SignIn(t, from, next) ==
    /\ At(t, from) /\ client # "none"
    /\ client' = "live" /\ sinceLogin' = 0
    /\ call' = [u \in Threads |-> [call[u] EXCEPT !.fn = IF call[u].same THEN "live" ELSE @,
                                                 !.at = IF u = t THEN next ELSE @]]
    /\ lock' = IF lock = t THEN Nobody ELSE lock
    /\ UNCHANGED sinceCold

\* A method bound to a client that is replaced keeps it.
Detached == [u \in Threads |-> [call[u] EXCEPT !.same = FALSE]]

\* Mutant: the client that could not log in is kept.
SignInFailsKeeps(t, from, next) ==
    /\ At(t, from)
    /\ call' = [call EXCEPT ![t] = IF next = "idle" THEN Idle ELSE [@ EXCEPT !.at = next]]
    /\ lock' = IF lock = t THEN Nobody ELSE lock
    /\ UNCHANGED <<client, sinceLogin, sinceCold>>

\* ... or fails, and leaves no client.
SignInFails(t, from, next) ==
    /\ At(t, from)
    /\ client' = "none"
    /\ call' = [Detached EXCEPT ![t] = IF next = "idle" THEN Idle ELSE [@ EXCEPT !.at = next]]
    /\ lock' = IF lock = t THEN Nobody ELSE lock
    /\ UNCHANGED <<sinceLogin, sinceCold>>

-----------------------------------------------------------------------------
\* Without a client there is nothing to return.
Bind(t) ==
    /\ At(t, "ready")
    /\ \/ client = "none" /\ Return(t)
       \/ /\ client # "none" /\ call[t].again
          /\ call' = [call EXCEPT ![t].at = "ensure", ![t].again = FALSE]
       \/ /\ client # "none" /\ ~call[t].again
          /\ call' = [call EXCEPT ![t] = [Idle EXCEPT !.at = "calling", !.fn = client, !.same = TRUE]]
    /\ UNCHANGED <<client, sinceLogin, sinceCold, lock>>

\* An answer, or an error that is neither the rate limit nor the session.
Answered(t) == At(t, "calling") /\ call[t].fn = "live" /\ Return(t) /\ UNCHANGED <<client, sinceLogin, sinceCold, lock>>

\* The rate limit is waited out, Retries times.
RateLimited(t) ==
    /\ At(t, "calling")
    /\ IF call[t].tries < Retries THEN call' = [call EXCEPT ![t].tries = @ + 1] ELSE Return(t)
    /\ UNCHANGED <<client, sinceLogin, sinceCold, lock>>

SessionError(t) ==
    /\ At(t, "calling") /\ call[t].fn # "live"
    /\ GoTo(t, "relogin")
    /\ UNCHANGED <<client, sinceLogin, sinceCold, lock>>

\* The same bound method, whose client is the one that was refused.
Retried(t) == At(t, "retrying") /\ Return(t) /\ UNCHANGED <<client, sinceLogin, sinceCold, lock>>

-----------------------------------------------------------------------------
\* The broker refuses the tokens it gave out.
Expire ==
    /\ client = "live"
    /\ client' = "dead"
    /\ call' = [u \in Threads |-> [call[u] EXCEPT !.fn = IF @ = "live" THEN "dead" ELSE @]]
    /\ UNCHANGED <<sinceLogin, sinceCold, lock>>

Elapse ==
    /\ sinceLogin' = IF sinceLogin > Refresh THEN sinceLogin ELSE sinceLogin + 1
    /\ sinceCold' = Min({sinceCold + 1, Cooldown})
    /\ UNCHANGED <<client, lock, call>>

Accepted(t) == SignIn(t, "signing", "ready") \/ SignIn(t, "resigning", "retrying")
Refused(t)  == SignInFails(t, "signing", "ready") \/ SignInFails(t, "resigning", "idle")

Step(t) ==
    \/ Begin(t) \/ Ensure(t) \/ LockToRefresh(t) \/ LockWhenCold(t)
    \/ Construct(t, "locked", "signing") \/ Construct(t, "relogin", "resigning")
    \/ Accepted(t) \/ Refused(t)
    \/ Bind(t) \/ Answered(t) \/ RateLimited(t) \/ SessionError(t) \/ Retried(t)

Next == (\E t \in Threads : Step(t)) \/ Expire \/ Elapse

-----------------------------------------------------------------------------
\* A session that was lost comes back without a restart, whichever threads were logging in,
\* waiting or calling when it went.
SessionComesBack == client # "live" ~> client = "live"

\* A client without a session is there only while somebody is logging it in: no failure, of
\* one login or of two that overlap, leaves a half-made client that the freshness check accepts.
NoHalfMadeClient == client = "raw" => \E t \in Threads : call[t].at \in {"signing", "resigning"}
=============================================================================
