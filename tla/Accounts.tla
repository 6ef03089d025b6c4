------------------------------ MODULE Accounts ------------------------------
(***************************************************************************)
(* Users, their sessions and their reset tokens: registration, login,      *)
(* refresh, logout and the two ways to a new password, the handlers of     *)
(* src/src/auth/auth.service.ts.                                           *)
(*                                                                         *)
(* A row, and the cookie or reset token that was sent for it, is named     *)
(* after the call that inserts it, a password after the call that sets it. *)
(* A request carries one of those its user was given, and its handler acts *)
(* on a row that compares with it, which need not be its own.              *)
(*                                                                         *)
(* Of the three transactions only the one that sets a password has more    *)
(* than one step: its update of the user takes the row's lock and its next *)
(* statement a snapshot of his sessions, in which it then waits for each   *)
(* row.  All else of a transaction follows the last lock it waits for, and *)
(* nobody sees it before it commits.                                       *)
(*                                                                         *)
(* A password that does not match, a token whose signature or time does    *)
(* not, a rejected statement and a stopped process are all Fail.           *)
(*                                                                         *)
(* A definition whose comment begins with "Fault:" is no part of the       *)
(* specification: it is a faulty form of the definition that follows it,   *)
(* which one of the properties must find.                                  *)
(***************************************************************************)
EXTENDS Naturals, FiniteSets

CONSTANTS
    Emails,         \* one for each user, known or not
    Calls,          \* requests to the controller
    Requests,       \* what they ask for
    OldSessions, OldTokens,     \* cookies and reset tokens from before
    OwnerOf,        \* whose they are
    Earlier,        \* the calls of before, which set the first passwords
    NoRow

Registration == {"customer", "driver", "shop"}
NewPassword  == {"change", "reset"}
Request == [op: Registration \cup NewPassword \cup {"login", "refresh", "logout", "forgot"},
            email: Emails]

Sessions == OldSessions \cup Calls
Tokens   == OldTokens \cup Calls

\* profile says whether the call that registered a driver has inserted his profile.
User    == [by: Calls \cup {Earlier}, password: Calls \cup {Earlier}, profile: BOOLEAN]
Session == [email: Emails, state: {"live", "expired", "revoked"}]
Token   == [email: Emails, state: {"unused", "expired", "used"}]

ASSUME AccountsAssumption ==
    /\ Requests \subseteq Request
    /\ Calls \cap (OldSessions \cup OldTokens \cup {Earlier, NoRow}) = {}
    /\ NoRow \notin OldSessions \cup OldTokens \cup User \cup Session \cup Token
    /\ OwnerOf \in [OldSessions \cup OldTokens -> Emails]
    /\ IsFiniteSet(Calls) /\ IsFiniteSet(OldTokens)

VARIABLES
    user,           \* users and driver_profiles
    session,        \* "refreshToken"
    token,          \* password_reset_tokens
    call,           \* the handlers
    login           \* history: the first session of the login that a session is of

vars == <<user, session, token, call, login>>

Running == {"called", "found", "inserted", "clearing"}

\* given is the cookie or reset token that the request carries, row what the handler
\* has found for it, seen its snapshot, before the calls that had ended when it began,
\* which is history.
Handler == [pc: Running \cup {"idle", "done", "failed"}, request: Requests,
            given: Sessions \cup Tokens \cup {NoRow},
            row: Sessions \cup Tokens \cup {NoRow}, seen: SUBSET Sessions,
            before: SUBSET Calls]

Registered(e) == user[e] # NoRow

TypeOK ==
    /\ user \in [Emails -> User \cup {NoRow}]
    /\ session \in [Sessions -> Session \cup {NoRow}]
    /\ token \in [Tokens -> Token \cup {NoRow}]
    /\ call \in [Calls -> Handler]
    /\ login \in [Sessions -> Sessions]
    /\ \A s \in Sessions : session[s] # NoRow => Registered(session[s].email)
    /\ \A t \in Tokens : token[t] # NoRow => Registered(token[t].email)

Init ==
    /\ user \in [Emails -> [by: {Earlier}, password: {Earlier}, profile: {FALSE}] \cup {NoRow}]
    /\ session \in [Sessions -> Session \cup {NoRow}]
    /\ \A s \in Sessions : session[s] # NoRow =>
          s \in OldSessions /\ session[s].state = "live" /\ session[s].email = OwnerOf[s]
    /\ token \in [Tokens -> Token \cup {NoRow}]
    /\ \A t \in Tokens : token[t] # NoRow =>
          t \in OldTokens /\ token[t].state = "unused" /\ token[t].email = OwnerOf[t]
    /\ \A s \in Sessions : session[s] # NoRow => Registered(session[s].email)
    /\ \A t \in Tokens : token[t] # NoRow => Registered(token[t].email)
    /\ call \in [Calls -> [pc: {"idle"}, request: Requests, given: {NoRow}, row: {NoRow},
                           seen: {{}}, before: {{}}]]
    /\ login = [s \in Sessions |-> s]

-----------------------------------------------------------------------------
InFlight(c) == call[c].pc \in Running
Ended(c)    == call[c].pc \in {"done", "failed"}

At(c, ops, pc) == call[c].request.op \in ops /\ call[c].pc = pc

EmailOf(c) == call[c].request.email

GoTo(c, pc, row) == call' = [call EXCEPT ![c].pc = pc, ![c].row = row, ![c].seen = {}]

\* The user whose id is in a cookie or reset token.
UserOf(k) == IF k \in Calls THEN EmailOf(k) ELSE OwnerOf[k]

Told(c, ops) == At(c, ops, "done")

\* What clients have got of a user: also what has been replaced, revoked or used.
Cookies(e) ==
    {s \in OldSessions : OwnerOf[s] = e /\ Registered(e) /\ user[e].by = Earlier}
        \cup {d \in Calls : Told(d, {"login", "refresh"}) /\ EmailOf(d) = e}

Mailed(e) == {t \in Tokens : token[t] # NoRow /\ token[t].email = e}

Carried(c) ==
    IF At(c, {"refresh", "logout"}, "idle") THEN Cookies(EmailOf(c))
    ELSE IF At(c, {"reset"}, "idle") THEN Mailed(EmailOf(c))
    ELSE {NoRow}

Call(c) ==
    /\ call[c].pc = "idle"
    /\ \E k \in Carried(c) :
          call' = [call EXCEPT ![c].pc = "called", ![c].given = k,
                               ![c].before = {d \in Calls : Ended(d)}]
    /\ UNCHANGED <<user, session, token, login>>

\* A transaction that is open is rolled back.
Fail(c) ==
    /\ InFlight(c)
    /\ GoTo(c, "failed", call[c].row)
    /\ UNCHANGED <<user, session, token, login>>

\* Fault: whether there is such a user is not looked at.
FindAnyUser(c) ==
    /\ At(c, {"login", "change", "forgot"}, "called")
    /\ GoTo(c, "found", NoRow)
    /\ UNCHANGED <<user, session, token, login>>

\* forgotPassword answers the same whether it finds him or not.
FindUser(c) ==
    /\ At(c, {"login", "change", "forgot"}, "called")
    /\ IF Registered(EmailOf(c)) THEN GoTo(c, "found", NoRow)
       ELSE GoTo(c, IF At(c, {"forgot"}, "called") THEN "done" ELSE "failed", NoRow)
    /\ UNCHANGED <<user, session, token, login>>

-----------------------------------------------------------------------------
(* createUser, createDriver and createShop                                 *)

FindEmail(c) ==
    /\ At(c, Registration, "called")
    /\ GoTo(c, IF Registered(EmailOf(c)) THEN "failed" ELSE "found", NoRow)
    /\ UNCHANGED <<user, session, token, login>>

\* Fault: no unique index, an upsert by e-mail.
UpsertUser(c) ==
    /\ At(c, Registration, "found")
    /\ user' = [user EXCEPT ![EmailOf(c)] = [by |-> c, password |-> c, profile |-> FALSE]]
    /\ GoTo(c, "inserted", NoRow)
    /\ UNCHANGED <<session, token, login>>

\* The unique index on the e-mail decides; the one on the phone may make it Fail.
InsertUser(c) ==
    /\ At(c, Registration, "found")
    /\ IF Registered(EmailOf(c)) THEN UNCHANGED user /\ GoTo(c, "failed", NoRow)
       ELSE /\ user' = [user EXCEPT ![EmailOf(c)] =
                          [by |-> c, password |-> c, profile |-> FALSE]]
            /\ GoTo(c, "inserted", NoRow)
    /\ UNCHANGED <<session, token, login>>

\* The profile of a driver, the mail to a customer.  When this fails the user stays.
CompleteUser(c) ==
    /\ At(c, Registration, "inserted")
    /\ user' = [user EXCEPT ![EmailOf(c)].profile = IF At(c, {"driver"}, "inserted")
                                                       THEN TRUE ELSE @]
    /\ GoTo(c, "done", NoRow)
    /\ UNCHANGED <<session, token, login>>

-----------------------------------------------------------------------------
(* login, refreshToken and logout                                          *)

NewSession(e) == [email |-> e, state |-> "live"]

InsertSession(c) ==
    /\ At(c, {"login"}, "found")
    /\ session' = [session EXCEPT ![c] = NewSession(EmailOf(c))]
    /\ GoTo(c, "done", NoRow)
    /\ UNCHANGED <<user, token, login>>

Live(s, e) == session[s] # NoRow /\ session[s].email = e /\ session[s].state = "live"

\* What compare says of a token and the hash of another: bcrypt reads 72 bytes, and in
\* those all tokens of one user are alike.
Compare(k, r) == UserOf(k) = UserOf(r)

\* The first row that compares is taken, and findMany may return any as the first: it
\* need not be the one that the cookie was made out with.
Candidate(c, s) == Live(s, EmailOf(c)) /\ Compare(call[c].given, s)

FindSession(c) ==
    /\ At(c, {"refresh", "logout"}, "called")
    /\ \/ \E s \in Sessions : Candidate(c, s) /\ GoTo(c, "found", s)
       \/ ~(\E s \in Sessions : Candidate(c, s)) /\ GoTo(c, "failed", NoRow)
    /\ UNCHANGED <<user, session, token, login>>

\* Fault: deleteMany in place of delete, which takes no row for an answer.
RefreshAnyway(c) ==
    /\ At(c, {"refresh"}, "found")
    /\ session' = [session EXCEPT ![call[c].row] = NoRow,
                                        ![c] = NewSession(EmailOf(c))]
    /\ login' = [login EXCEPT ![c] = login[call[c].row]]
    /\ GoTo(c, "done", call[c].row)
    /\ UNCHANGED <<user, token>>

\* The delete fails when the row is gone, and the insert with it; whether the row has
\* expired or was revoked meanwhile is not looked at.
Refresh(c) ==
    /\ At(c, {"refresh"}, "found")
    /\ session[call[c].row] # NoRow
    /\ session' = [session EXCEPT ![call[c].row] = NoRow,
                                        ![c] = NewSession(EmailOf(c))]
    /\ login' = [login EXCEPT ![c] = login[call[c].row]]
    /\ GoTo(c, "done", call[c].row)
    /\ UNCHANGED <<user, token>>

\* Fault: deleteMany in place of delete, as above.
LogoutAnyway(c) ==
    /\ At(c, {"logout"}, "found")
    /\ session' = [session EXCEPT ![call[c].row] = NoRow]
    /\ GoTo(c, "done", call[c].row)
    /\ UNCHANGED <<user, token, login>>

\* The delete fails when a refresh has replaced the row.
Logout(c) ==
    /\ At(c, {"logout"}, "found")
    /\ session[call[c].row] # NoRow
    /\ session' = [session EXCEPT ![call[c].row] = NoRow]
    /\ GoTo(c, "done", call[c].row)
    /\ UNCHANGED <<user, token, login>>

-----------------------------------------------------------------------------
(* forgotPassword, resetPassword and changePassword                        *)

\* A mail that cannot be sent is only logged.
InsertToken(c) ==
    /\ At(c, {"forgot"}, "found")
    /\ token' = [token EXCEPT ![c] = [email |-> EmailOf(c), state |-> "unused"]]
    /\ GoTo(c, "done", NoRow)
    /\ UNCHANGED <<user, session, login>>

\* Fault: used is not in the condition.
FindUsedToken(c) ==
    /\ At(c, {"reset"}, "called")
    /\ \E t \in Tokens : /\ token[t] # NoRow
                         /\ token[t].email = EmailOf(c) /\ token[t].state # "expired"
                         /\ Compare(call[c].given, t)
                         /\ GoTo(c, "found", t)
    /\ UNCHANGED <<user, session, token, login>>

\* As in FindSession: any unused row of the user, whichever of his tokens is given.
FindToken(c) ==
    /\ At(c, {"reset"}, "called")
    /\ \E t \in Tokens : /\ token[t] # NoRow
                         /\ token[t].email = EmailOf(c) /\ token[t].state = "unused"
                         /\ Compare(call[c].given, t)
                         /\ GoTo(c, "found", t)
    /\ UNCHANGED <<user, session, token, login>>

\* The user is updated, and locked, and his sessions are looked up.
LockUser(c) ==
    /\ At(c, NewPassword, "found")
    /\ \A d \in Calls : ~(At(d, NewPassword, "clearing") /\ EmailOf(d) = EmailOf(c))
    /\ call' = [call EXCEPT ![c].pc = "clearing",
                   ![c].seen = {s \in Sessions : session[s] # NoRow /\ session[s].email = EmailOf(c)}]
    /\ UNCHANGED <<user, session, token, login>>

\* changePassword deletes what of the snapshot is still there.
DeleteSessions(c) ==
    /\ At(c, {"change"}, "clearing")
    /\ session' = [s \in Sessions |-> IF s \in call[c].seen THEN NoRow ELSE session[s]]
    /\ UNCHANGED token

\* Fault: the sessions keep their flag.
RevokeNoSession(c) ==
    /\ At(c, {"reset"}, "clearing")
    /\ token' = [token EXCEPT ![call[c].row].state = "used"]
    /\ UNCHANGED session

\* resetPassword revokes them, and uses its token, used or not.
RevokeSessions(c) ==
    /\ At(c, {"reset"}, "clearing")
    /\ session' = [s \in Sessions |-> IF s \in call[c].seen /\ session[s] # NoRow
                                        THEN [session[s] EXCEPT !.state = "revoked"]
                                        ELSE session[s]]
    /\ token' = [token EXCEPT ![call[c].row].state = "used"]

CommitPassword(c) ==
    /\ DeleteSessions(c) \/ RevokeSessions(c)
    /\ user' = [user EXCEPT ![EmailOf(c)].password = c]
    /\ GoTo(c, "done", call[c].row)
    /\ UNCHANGED login

\* Seven days, and fifteen minutes.
ExpireSession(s) ==
    /\ session[s] # NoRow /\ session[s].state = "live"
    /\ session' = [session EXCEPT ![s].state = "expired"]
    /\ UNCHANGED <<user, token, call, login>>

ExpireToken(t) ==
    /\ token[t] # NoRow /\ token[t].state = "unused"
    /\ token' = [token EXCEPT ![t].state = "expired"]
    /\ UNCHANGED <<user, session, call, login>>

Next ==
    \/ \E c \in Calls :
          \/ Call(c) \/ Fail(c) \/ FindUser(c)
          \/ FindEmail(c) \/ InsertUser(c) \/ CompleteUser(c)
          \/ InsertSession(c) \/ FindSession(c) \/ Refresh(c) \/ Logout(c)
          \/ InsertToken(c) \/ FindToken(c) \/ LockUser(c) \/ CommitPassword(c)
    \/ \E s \in Sessions : ExpireSession(s)
    \/ \E t \in Tokens : ExpireToken(t)

Spec == Init /\ [][Next]_vars

-----------------------------------------------------------------------------
(* What is claimed of the system.                                          *)

\* A login never has two sessions, however many refreshes race for its row: the one
\* whose delete finds nothing inserts nothing.
OneSessionPerLogin ==
    \A s, t \in Sessions :
        session[s] # NoRow /\ session[t] # NoRow /\ login[s] = login[t] => s = t

\* Whoever was told of his new password has no live session from a login or a refresh
\* that had ended when he asked for it: only those that ran at the time may leave one.
OldSessionsEnd ==
    \A c \in Calls : Told(c, NewPassword) =>
        \A s \in Sessions : Live(s, EmailOf(c)) => s \in Calls \ call[c].before

\* The resets of a user that follow one another are no more than the tokens that he was
\* mailed.  That a token resets only once is not claimed: given again it compares with
\* the row of another, and that one is used up in its place.
InTurn(C) == \A c, d \in C : c # d => c \in call[d].before \/ d \in call[c].before

ResetsPerMail ==
    \A e \in Emails :
        \A C \in SUBSET {c \in Calls : Told(c, {"reset"}) /\ EmailOf(c) = e} :
            InTurn(C) => Cardinality(C) <= Cardinality(Mailed(e))

\* Whoever was told that he is registered is, a driver with a profile; whoever was told
\* of his new password has it, unless another call set one that had not ended before.
AnswersHold ==
    \A c \in Calls :
        /\ Told(c, Registration) =>
              /\ Registered(EmailOf(c)) /\ user[EmailOf(c)].by = c
              /\ Told(c, {"driver"}) => user[EmailOf(c)].profile
        /\ Told(c, NewPassword) =>
              \/ user[EmailOf(c)].password = c
              \/ \E d \in Calls \ call[c].before :
                    d # c /\ Told(d, NewPassword) /\ EmailOf(d) = EmailOf(c)

=============================================================================
