--------------------------- MODULE AccountsProofs ---------------------------
(***************************************************************************)
(* Theorems about Accounts, for any users, calls and rows.                 *)
(***************************************************************************)
EXTENDS AccountsRefinement, FiniteSetTheorems, TLAPS

\* What a handler relies on between its statements, and what its answer says.
Held(c) ==
    /\ call[c].before \subseteq {d \in Calls : Ended(d)}
    /\ call[c].pc \in {"found", "clearing"} /\ call[c].request.op \notin Registration
          => Registered(EmailOf(c))
    /\ Told(c, NewPassword) => Registered(EmailOf(c))
    /\ At(c, {"refresh", "logout"}, "found") => call[c].row \in Sessions
    /\ At(c, {"reset"}, call[c].pc) /\ call[c].pc \in {"found", "clearing", "done"}
          => call[c].row \in Tokens /\ token[call[c].row] # NoRow
    /\ Told(c, {"reset"}) => token[call[c].row].state = "used"
    /\ At(c, Registration, "inserted") \/ Told(c, Registration)
          => Registered(EmailOf(c)) /\ user[EmailOf(c)].by = c
    /\ Told(c, {"driver"}) => user[EmailOf(c)].profile

\* A row named after a call is of a call that has ended, and of its kind.
RowsOfCalls ==
    /\ \A s \in Calls : session[s] # NoRow => Told(s, {"login", "refresh"})
    /\ \A s \in Sessions : session[s] # NoRow /\ login[s] \in Calls => Told(login[s], {"login"})
    /\ \A s \in Calls : login[s] # s => Told(s, {"refresh"})
    /\ \A t \in Calls : token[t] # NoRow => Told(t, {"forgot"})

\* The snapshot of an open transaction has all sessions from before its call.
SnapshotTaken ==
    \A c \in Calls : At(c, NewPassword, "clearing") =>
        \A s \in Sessions : session[s] # NoRow /\ session[s].email = EmailOf(c)
            => s \in call[c].seen \/ s \in Calls \ call[c].before

\* A token that was used before a call began is none that the call has found.
ResetsApart ==
    \A c, d \in Calls :
        /\ Told(c, {"reset"}) /\ call[d].request.op = "reset"
        /\ call[d].pc \in {"found", "clearing", "done"} /\ call[c].row = call[d].row
        => c \notin call[d].before

PasswordKept(c) ==
    Told(c, NewPassword) =>
        \/ user[EmailOf(c)].password = c
        \/ \E d \in Calls \ call[c].before :
              d # c /\ Told(d, NewPassword) /\ EmailOf(d) = EmailOf(c)

IInv ==
    /\ TypeOK
    /\ \A c \in Calls : Held(c)
    /\ \A c \in Calls : PasswordKept(c)
    /\ RowsOfCalls
    /\ OneSessionPerLogin
    /\ SnapshotTaken
    /\ OldSessionsEnd
    /\ ResetsApart

-----------------------------------------------------------------------------
\* The values of pc and op are told apart by these sets.
LEMMA InitIInv == Init => IInv
  <1> SUFFICES ASSUME Init PROVE IInv
    OBVIOUS
  <1>1. \A c \in Calls : /\ call[c] \in Handler /\ call[c].pc = "idle" /\ call[c].before = {}
    BY DEF Init, Handler
  <1>2. TypeOK
    <2>1. user \in [Emails -> User \cup {NoRow}]
      BY DEF Init, User
    <2>2. call \in [Calls -> Handler]
      BY DEF Init, Handler
    <2> QED
      BY <2>1, <2>2 DEF Init, TypeOK
  <1>3. \A c \in Calls : Held(c) /\ PasswordKept(c)
    BY <1>1 DEF Held, PasswordKept, At, Told
  <1>4. RowsOfCalls /\ OneSessionPerLogin
    BY AccountsAssumption DEF Init, RowsOfCalls, OneSessionPerLogin, Sessions, Tokens
  <1>5. SnapshotTaken /\ OldSessionsEnd /\ ResetsApart
    BY <1>1 DEF SnapshotTaken, OldSessionsEnd, ResetsApart, At, Told
  <1> QED
    BY <1>2, <1>3, <1>4, <1>5 DEF IInv

\* How the handlers change when one of them moves.
Moves(c) ==
    /\ call' \in [Calls -> Handler]
    /\ \A d \in Calls : d # c => call'[d] = call[d]
    /\ call'[c].request = call[c].request

LEMMA GoToMoves ==
    ASSUME call \in [Calls -> Handler], NEW c \in Calls,
           NEW pc \in Running \cup {"done", "failed"},
           NEW row \in Sessions \cup Tokens \cup {NoRow}, GoTo(c, pc, row)
    PROVE  /\ Moves(c)
           /\ call'[c].pc = pc /\ call'[c].row = row /\ call'[c].seen = {}
           /\ call'[c].before = call[c].before /\ call'[c].given = call[c].given
  <1>1. call[c] \in Handler
    OBVIOUS
  <1>2. call' = [call EXCEPT ![c] = [call[c] EXCEPT !.pc = pc, !.row = row, !.seen = {}]]
    BY DEF GoTo
  <1> DEFINE h == [call[c] EXCEPT !.pc = pc, !.row = row, !.seen = {}]
  <1>3. h \in Handler /\ h.pc = pc /\ h.row = row /\ h.seen = {} /\ h.request = call[c].request
        /\ h.before = call[c].before /\ h.given = call[c].given
    BY <1>1 DEF Handler
  <1>4. call' = [call EXCEPT ![c] = h]
    BY <1>2
  <1> HIDE DEF h
  <1> QED
    BY <1>3, <1>4 DEF Moves

\* A step of one call that leaves the rows alone, is no answer, and after which the
\* handler holds what it must, keeps the invariant.
LEMMA QuietMove ==
    ASSUME IInv, NEW c \in Calls, Moves(c), InFlight(c) \/ call[c].pc = "idle",
           call'[c].before = call[c].before \/ call'[c].before = {d \in Calls : Ended(d)},
           call'[c].pc \in {"called", "found", "failed", "done"},
           call'[c].pc = "done" => call[c].request.op = "forgot",
           call'[c].pc # "found" \/ call[c].before = call'[c].before,
           call'[c].pc = "found" /\ call[c].request.op \notin Registration => Registered(EmailOf(c)),
           At(c, {"refresh", "logout"}, "found")' => call'[c].row \in Sessions,
           At(c, {"reset"}, "found")' => /\ call'[c].row \in Tokens /\ token[call'[c].row] # NoRow
                                         /\ token[call'[c].row].state = "unused",
           UNCHANGED <<user, session, token, login>>
    PROVE  IInv'
  <1>1. /\ user' = user /\ session' = session /\ token' = token /\ login' = login
        /\ call \in [Calls -> Handler] /\ call' \in [Calls -> Handler]
        /\ \A d \in Calls : d # c => call'[d] = call[d]
        /\ call'[c].request = call[c].request
    BY DEF IInv, TypeOK, Moves
  <1>2. TypeOK'
    BY <1>1 DEF IInv, TypeOK, Registered
  <1>3. \A d \in Calls : Ended(d) => Ended(d)'
    BY <1>1 DEF Ended, InFlight, Running
  <1>4. \A d \in Calls : Held(d)'
    <2> SUFFICES ASSUME NEW d \in Calls PROVE Held(d)'
      OBVIOUS
    <2>1. Held(d)
      BY DEF IInv
    <2>2. (call[d].before \subseteq {e \in Calls : Ended(e)})'
      BY <1>1, <1>3, <2>1 DEF Held
    <2>3. CASE d # c
      BY <1>1, <2>1, <2>2, <2>3 DEF Held, At, Told, Registered, EmailOf
    <2>4. CASE d = c
      BY <1>1, <2>2, <2>4 DEF Held, At, Told, Registered, EmailOf, Registration, NewPassword
    <2> QED
      BY <2>3, <2>4
  <1>5. \A d \in Calls : PasswordKept(d)'
    <2> SUFFICES ASSUME NEW d \in Calls, Told(d, NewPassword)'
                 PROVE  PasswordKept(d)'
      BY DEF PasswordKept
    <2>1. d # c
      BY <1>1 DEF Told, At, NewPassword
    <2>2. /\ \A e \in Calls : Told(e, NewPassword) => Told(e, NewPassword)'
          /\ \A e \in Calls : EmailOf(e)' = EmailOf(e)
      BY <1>1 DEF Told, At, InFlight, Running, EmailOf
    <2>3. PasswordKept(d) /\ Told(d, NewPassword) /\ call'[d].before = call[d].before
      BY <1>1, <2>1 DEF IInv, Told, At
    <2> QED
      BY <1>1, <2>2, <2>3 DEF PasswordKept
  <1>6. RowsOfCalls'
    BY <1>1 DEF IInv, RowsOfCalls, Told, At, InFlight, Running
  <1>7. OneSessionPerLogin'
    BY <1>1 DEF IInv, OneSessionPerLogin
  <1>8. SnapshotTaken'
    BY <1>1 DEF IInv, SnapshotTaken, At, EmailOf, NewPassword
  <1>9. OldSessionsEnd'
    BY <1>1 DEF IInv, OldSessionsEnd, Told, At, EmailOf, NewPassword, Live
  <1>10. ResetsApart'
    <2> SUFFICES ASSUME NEW d \in Calls, NEW e \in Calls,
                        Told(d, {"reset"})', call'[e].request.op = "reset",
                        call'[e].pc \in {"found", "clearing", "done"}, call'[d].row = call'[e].row
                 PROVE  d \notin call'[e].before
      BY DEF ResetsApart
    <2>1. d # c /\ Told(d, {"reset"}) /\ Held(d)
      BY <1>1 DEF IInv, Told, At
    <2>2. CASE e # c
      BY <1>1, <2>1, <2>2 DEF IInv, ResetsApart, Told, At
    <2>3. CASE e = c
      BY <1>1, <2>1, <2>3 DEF Held, Told, At
    <2> QED
      BY <2>2, <2>3
  <1> QED
    BY <1>2, <1>4, <1>5, <1>6, <1>7, <1>8, <1>9, <1>10 DEF IInv

\* A call begins: it has its cookie or token, and those that had ended are before it.
LEMMA CallMoves ==
    ASSUME IInv, NEW c \in Calls, Call(c)
    PROVE  /\ Moves(c) /\ call[c].pc = "idle" /\ call'[c].pc = "called"
           /\ call'[c].before = {d \in Calls : Ended(d)}
           /\ call'[c].seen = call[c].seen /\ call'[c].given \in Carried(c)
  <1>1. call \in [Calls -> Handler] /\ call[c] \in Handler
    BY DEF IInv, TypeOK
  <1> DEFINE ended == {d \in Calls : Ended(d)}
  <1>2. PICK k \in Carried(c) :
           call' = [call EXCEPT ![c] = [call[c] EXCEPT !.pc = "called", !.given = k, !.before = ended]]
    BY DEF Call
  <1>3. k \in Sessions \cup Tokens \cup {NoRow}
    BY DEF Carried, Cookies, Mailed, Sessions, Tokens
  <1> DEFINE h == [call[c] EXCEPT !.pc = "called", !.given = k, !.before = ended]
  <1>4. ended \in SUBSET Calls
    OBVIOUS
  <1>5. /\ h \in Handler /\ h.pc = "called" /\ h.request = call[c].request
        /\ h.before = ended /\ h.seen = call[c].seen /\ h.given = k
    <2> HIDE DEF ended
    <2> QED
      BY <1>1, <1>3, <1>4 DEF Handler, Running
  <1>6. call' = [call EXCEPT ![c] = h]
    BY <1>2
  <1> HIDE DEF h
  <1>7. Moves(c) /\ call'[c] = h
    BY <1>1, <1>5, <1>6 DEF Moves
  <1> QED
    BY <1>5, <1>7 DEF Call

LEMMA QuietSteps ==
    ASSUME IInv, NEW c \in Calls,
           Call(c) \/ Fail(c) \/ FindUser(c) \/ FindEmail(c) \/ FindSession(c) \/ FindToken(c)
    PROVE  IInv'
  <1>1. /\ call \in [Calls -> Handler] /\ call[c] \in Handler
        /\ call[c].row \in Sessions \cup Tokens \cup {NoRow}
    BY DEF IInv, TypeOK, Handler
  <1>2. CASE Call(c)
    <2> QED
      BY <1>1, <1>2, CallMoves, QuietMove DEF Call, At
  <1>3. CASE Fail(c)
    <2>1. /\ Moves(c) /\ call'[c].pc = "failed" /\ call'[c].before = call[c].before
      BY <1>1, <1>3, GoToMoves DEF Fail
    <2> QED
      BY <1>3, <2>1, QuietMove DEF Fail, At
  <1>4. CASE FindUser(c)
    <2>1. InFlight(c) /\ call[c].request.op \in {"login", "change", "forgot"}
      BY <1>4 DEF FindUser, At, InFlight, Running
    <2>2. \/ GoTo(c, "found", NoRow) /\ Registered(EmailOf(c))
          \/ GoTo(c, "done", NoRow) /\ call[c].request.op = "forgot"
          \/ GoTo(c, "failed", NoRow)
      BY <1>4 DEF FindUser, At
    <2>3. /\ Moves(c) /\ call'[c].pc \in {"found", "done", "failed"}
          /\ call'[c].before = call[c].before /\ call'[c].request = call[c].request
          /\ call'[c].pc = "found" => Registered(EmailOf(c))
          /\ call'[c].pc = "done" => call[c].request.op = "forgot"
      BY <1>1, <2>2, GoToMoves DEF Running, Moves
    <2> QED
      BY <1>4, <2>1, <2>3, QuietMove DEF FindUser, At
  <1>5. CASE FindEmail(c)
    <2>1. InFlight(c) /\ call[c].request.op \in Registration
      BY <1>5 DEF FindEmail, At, InFlight, Running
    <2>2. GoTo(c, "found", NoRow) \/ GoTo(c, "failed", NoRow)
      BY <1>5 DEF FindEmail
    <2>3. /\ Moves(c) /\ call'[c].pc \in {"found", "failed"}
          /\ call'[c].before = call[c].before /\ call'[c].request = call[c].request
      BY <1>1, <2>2, GoToMoves DEF Running, Moves
    <2> QED
      BY <1>5, <2>1, <2>3, QuietMove DEF FindEmail, At, Registration
  <1>6. CASE FindSession(c)
    <2>1. InFlight(c) /\ call[c].request.op \in {"refresh", "logout"}
      BY <1>6 DEF FindSession, At, InFlight, Running
    <2>2. \/ \E s \in Sessions : Live(s, EmailOf(c)) /\ GoTo(c, "found", s)
          \/ GoTo(c, "failed", NoRow)
      BY <1>6 DEF FindSession, Candidate
    <2>3. \A s \in Sessions : Live(s, EmailOf(c)) => Registered(EmailOf(c))
      BY DEF IInv, TypeOK, Live
    <2>4. /\ Moves(c) /\ call'[c].pc \in {"found", "failed"}
          /\ call'[c].before = call[c].before /\ call'[c].request = call[c].request
          /\ call'[c].pc = "found" => call'[c].row \in Sessions /\ Registered(EmailOf(c))
      BY <1>1, <2>2, <2>3, GoToMoves DEF Running, Moves
    <2> QED
      BY <1>6, <2>1, <2>4, QuietMove DEF FindSession, At
  <1>7. CASE FindToken(c)
    <2>1. InFlight(c) /\ call[c].request.op = "reset"
      BY <1>7 DEF FindToken, At, InFlight, Running
    <2>2. PICK t \in Tokens : /\ token[t] # NoRow /\ token[t].email = EmailOf(c)
                              /\ token[t].state = "unused" /\ GoTo(c, "found", t)
      BY <1>7 DEF FindToken
    <2>3. Registered(EmailOf(c))
      BY <2>2 DEF IInv, TypeOK
    <2>4. /\ Moves(c) /\ call'[c].pc = "found" /\ call'[c].row = t
          /\ call'[c].before = call[c].before /\ call'[c].request = call[c].request
      BY <1>1, <2>2, GoToMoves DEF Running, Moves
    <2> QED
      BY <1>7, <2>1, <2>2, <2>3, <2>4, QuietMove DEF FindToken, At
  <1> QED
    BY <1>2, <1>3, <1>4, <1>5, <1>6, <1>7

-----------------------------------------------------------------------------
\* A step of one call that sets no password, and with which no row of a user or a token
\* loses what the answers said of it, keeps what the handlers hold.
LEMMA OrdinaryStep ==
    ASSUME IInv, NEW c \in Calls, Moves(c), ~Ended(c),
           call'[c].before = call[c].before,
           call[c].request.op \notin NewPassword,
           call'[c].pc \in {"inserted", "done", "failed"},
           \A s \in Sessions : session'[s] \in {session[s], NoRow} \/ s = c,
           \A t \in Tokens : token[t] # NoRow => token'[t] = token[t],
           \A e \in Emails : Registered(e) =>
               /\ user'[e] # NoRow /\ user'[e].by = user[e].by
               /\ user'[e].password = user[e].password
               /\ user[e].profile => user'[e].profile,
           call[c].request.op \in Registration /\ call'[c].pc \in {"inserted", "done"} =>
               /\ user'[EmailOf(c)] # NoRow /\ user'[EmailOf(c)].by = c
               /\ call'[c].pc = "done" /\ call[c].request.op = "driver"
                     => user'[EmailOf(c)].profile
    PROVE  /\ \A d \in Calls : Held(d)' /\ PasswordKept(d)'
           /\ SnapshotTaken' /\ OldSessionsEnd' /\ ResetsApart'
  <1>1. /\ call \in [Calls -> Handler] /\ call' \in [Calls -> Handler]
        /\ \A d \in Calls : d # c => call'[d] = call[d]
        /\ call'[c].request = call[c].request
        /\ \A d \in Calls : call'[d].before = call[d].before
        /\ \A d \in Calls : EmailOf(d)' = EmailOf(d) /\ EmailOf(d) \in Emails
    <2>1. \A d \in Calls : call[d].request \in Request
      BY AccountsAssumption DEF IInv, TypeOK, Handler
    <2> QED
      BY <2>1 DEF IInv, TypeOK, Moves, EmailOf, Request
  <1>2. /\ \A d \in Calls : Ended(d) => Ended(d)'
        /\ \A d \in Calls : Told(d, NewPassword) <=> Told(d, NewPassword)'
    BY <1>1 DEF Ended, Told, At
  <1>3. \A d \in Calls : c \notin call[d].before
    BY DEF IInv, Held
  <1>4. \A d \in Calls : Held(d)'
    <2> SUFFICES ASSUME NEW d \in Calls PROVE Held(d)'
      OBVIOUS
    <2>1. Held(d)
      BY DEF IInv
    <2>2. (call[d].before \subseteq {e \in Calls : Ended(e)})'
      BY <1>1, <1>2, <2>1 DEF Held
    <2>3. CASE d # c
      <3>1. /\ call'[d] = call[d] /\ EmailOf(d)' = EmailOf(d)
            /\ Registered(EmailOf(d)) => Registered(EmailOf(d))'
        BY <1>1, <2>3 DEF Registered
      <3>2. /\ Registered(EmailOf(d)) => /\ (user[EmailOf(d)].by)' = user[EmailOf(d)].by
                                         /\ user[EmailOf(d)].profile => (user[EmailOf(d)].profile)'
        BY <1>1, <2>3
      <3>3. call[d].row \in Tokens /\ token[call[d].row] # NoRow
               => (token[call[d].row])' = token[call[d].row]
        BY <3>1
      <3>4. Told(d, {"driver"}) => Told(d, Registration)
        BY DEF Told, At, Registration
      <3> QED
        BY <2>1, <2>2, <3>1, <3>2, <3>3, <3>4 DEF Held, At, Told
    <2>4. CASE d = c
      BY <1>1, <2>2, <2>4 DEF Held, At, Told, Registered, Registration, NewPassword
    <2> QED
      BY <2>3, <2>4
  <1>5. \A d \in Calls : PasswordKept(d)'
    <2> SUFFICES ASSUME NEW d \in Calls, Told(d, NewPassword)'
                 PROVE  PasswordKept(d)'
      BY DEF PasswordKept
    <2>1. PasswordKept(d) /\ Told(d, NewPassword) /\ Registered(EmailOf(d))
      BY <1>2 DEF IInv, Held
    <2>2. (user[EmailOf(d)].password)' = user[EmailOf(d)].password
      BY <1>1, <2>1
    <2> QED
      BY <1>1, <1>2, <2>1, <2>2 DEF PasswordKept
  <1>6. SnapshotTaken'
    <2> SUFFICES ASSUME NEW d \in Calls, At(d, NewPassword, "clearing")',
                        NEW s \in Sessions, session'[s] # NoRow,
                        session'[s].email = EmailOf(d)'
                 PROVE  s \in call'[d].seen \/ s \in Calls \ call'[d].before
      BY DEF SnapshotTaken
    <2>1. d # c /\ At(d, NewPassword, "clearing")
      BY <1>1 DEF At
    <2> QED
      BY <1>1, <1>3, <2>1 DEF IInv, SnapshotTaken
  <1>7. OldSessionsEnd'
    <2> SUFFICES ASSUME NEW d \in Calls, Told(d, NewPassword)',
                        NEW s \in Sessions, Live(s, EmailOf(d))'
                 PROVE  s \in Calls \ call'[d].before
      BY DEF OldSessionsEnd
    <2>1. Told(d, NewPassword)
      BY <1>2
    <2>2. CASE s = c
      BY <1>1, <1>3, <2>2
    <2>3. CASE s # c
      <3>1. session'[s] = session[s] /\ EmailOf(d)' = EmailOf(d)
        BY <1>1, <2>3 DEF Live
      <3>2. Live(s, EmailOf(d))
        BY <3>1 DEF Live
      <3> QED
        BY <1>1, <2>1, <3>2 DEF IInv, OldSessionsEnd
    <2> QED
      BY <2>2, <2>3
  <1>8. ResetsApart'
    BY <1>1 DEF IInv, ResetsApart, Told, At, NewPassword
  <1> QED
    BY <1>4, <1>5, <1>6, <1>7, <1>8

\* What a row named after a running call can be: none.
LEMMA OwnRows ==
    ASSUME IInv, NEW c \in Calls, ~Ended(c)
    PROVE  /\ session[c] = NoRow /\ token[c] = NoRow /\ login[c] = c
           /\ \A s \in Sessions : session[s] # NoRow => login[s] # c
           /\ c \in Sessions /\ c \in Tokens /\ c # NoRow
           /\ call[c] \in Handler /\ call[c].request \in Request
           /\ EmailOf(c) \in Emails /\ NewSession(EmailOf(c)) \in Session
           /\ NewSession(EmailOf(c)) # NoRow
  <1>1. call[c] \in Handler /\ call[c].request \in Request
    BY AccountsAssumption DEF IInv, TypeOK, Handler
  <1>2. EmailOf(c) \in Emails /\ NewSession(EmailOf(c)) \in Session
    BY <1>1 DEF EmailOf, Request, NewSession, Session
  <1>3. \A ops : ~Told(c, ops)
    BY DEF Told, At, Ended
  <1> QED
    BY <1>1, <1>2, <1>3, AccountsAssumption DEF IInv, RowsOfCalls, Sessions, Tokens

\* What a step leaves of TypeOK, RowsOfCalls and OneSessionPerLogin when it inserts no row
\* of a session or a token.
LEMMA RowsStay ==
    ASSUME IInv, NEW c \in Calls, Moves(c), ~Ended(c),
           user' \in [Emails -> User \cup {NoRow}],
           \A e \in Emails : Registered(e) => user'[e] # NoRow,
           session' \in [Sessions -> Session \cup {NoRow}],
           token' \in [Tokens -> Token \cup {NoRow}],
           \A s \in Sessions : session'[s] # NoRow =>
               session[s] # NoRow /\ session'[s].email = session[s].email,
           \A t \in Tokens : token'[t] # NoRow =>
               token[t] # NoRow /\ token'[t].email = token[t].email,
           login' = login
    PROVE  TypeOK' /\ RowsOfCalls' /\ OneSessionPerLogin'
  <1>1. \A d \in Calls : \A ops : Told(d, ops) => Told(d, ops)'
    BY DEF Moves, Told, At, Ended
  <1>2. TypeOK'
    BY DEF IInv, TypeOK, Moves, Registered, Session, Token
  <1>3. RowsOfCalls'
    BY <1>1 DEF IInv, RowsOfCalls, Sessions, Tokens
  <1>4. OneSessionPerLogin'
    BY DEF IInv, OneSessionPerLogin
  <1> QED
    BY <1>2, <1>3, <1>4

LEMMA RegistrationSteps ==
    ASSUME IInv, NEW c \in Calls, InsertUser(c) \/ CompleteUser(c)
    PROVE  IInv'
  <1>1. /\ session' = session /\ token' = token /\ login' = login
        /\ ~Ended(c) /\ call[c].request.op \in Registration
    BY DEF InsertUser, CompleteUser, At, Ended
  <1>2. call[c] \in Handler /\ EmailOf(c) \in Emails /\ user \in [Emails -> User \cup {NoRow}]
    BY <1>1, OwnRows DEF IInv, TypeOK
  <1>3. session \in [Sessions -> Session \cup {NoRow}] /\ token \in [Tokens -> Token \cup {NoRow}]
    BY DEF IInv, TypeOK
  <1>4. /\ user' \in [Emails -> User \cup {NoRow}]
        /\ \A e \in Emails : Registered(e) =>
              /\ user'[e] # NoRow /\ user'[e].by = user[e].by
              /\ user'[e].password = user[e].password
              /\ user[e].profile => user'[e].profile
        /\ call'[c].pc \in {"inserted", "done"} =>
              /\ user'[EmailOf(c)] # NoRow /\ user'[EmailOf(c)].by = c
              /\ call'[c].pc = "done" /\ call[c].request.op = "driver"
                    => user'[EmailOf(c)].profile
        /\ call'[c].pc \in {"inserted", "done", "failed"}
        /\ Moves(c) /\ call'[c].before = call[c].before
    <2>1. CASE InsertUser(c) /\ Registered(EmailOf(c))
      <3>1. user' = user /\ GoTo(c, "failed", NoRow)
        BY <2>1 DEF InsertUser
      <3>2. Moves(c) /\ call'[c].pc = "failed" /\ call'[c].before = call[c].before
        BY <3>1, GoToMoves DEF IInv, TypeOK
      <3> QED
        BY <1>2, <3>1, <3>2 DEF Registered
    <2>2. CASE InsertUser(c) /\ ~Registered(EmailOf(c))
      <3> DEFINE u == [by |-> c, password |-> c, profile |-> FALSE]
      <3>1. user' = [user EXCEPT ![EmailOf(c)] = u] /\ GoTo(c, "inserted", NoRow)
        BY <2>2 DEF InsertUser
      <3>2. u \in User /\ u.by = c
        BY DEF User
      <3>3. Moves(c) /\ call'[c].pc = "inserted" /\ call'[c].before = call[c].before
        BY <3>1, GoToMoves DEF IInv, TypeOK, Running
      <3> HIDE DEF u
      <3> QED
        BY <1>2, <2>2, <3>1, <3>2, <3>3, AccountsAssumption DEF Registered
    <2>3. CASE CompleteUser(c)
      <3> DEFINE u == [user[EmailOf(c)] EXCEPT
                         !.profile = IF At(c, {"driver"}, "inserted") THEN TRUE ELSE @]
      <3>1. user' = [user EXCEPT ![EmailOf(c)] = u] /\ GoTo(c, "done", NoRow)
            /\ At(c, Registration, "inserted")
        BY <2>3 DEF CompleteUser
      <3>2. Held(c) /\ Registered(EmailOf(c)) /\ user[EmailOf(c)].by = c
        BY <3>1 DEF IInv, Held
      <3>3. user[EmailOf(c)] \in User
        BY <1>2, <3>2 DEF Registered
      <3>4. u \in User /\ u.by = c /\ u.password = user[EmailOf(c)].password
            /\ (user[EmailOf(c)].profile \/ call[c].request.op = "driver" => u.profile)
        <4>1. CASE call[c].request.op = "driver"
          <5>1. u = [user[EmailOf(c)] EXCEPT !.profile = TRUE]
            BY <3>1, <4>1 DEF At
          <5> QED
            BY <3>2, <3>3, <5>1 DEF User
        <4>2. CASE call[c].request.op # "driver"
          <5>1. u = [user[EmailOf(c)] EXCEPT !.profile = @]
            BY <4>2 DEF At
          <5>2. u = user[EmailOf(c)]
            BY <3>3, <5>1 DEF User
          <5> QED
            BY <3>2, <3>3, <4>2, <5>2
        <4> QED
          BY <4>1, <4>2
      <3>5. Moves(c) /\ call'[c].pc = "done" /\ call'[c].before = call[c].before
        BY <3>1, GoToMoves DEF IInv, TypeOK
      <3> HIDE DEF u
      <3>6. user' \in [Emails -> User \cup {NoRow}] /\ user'[EmailOf(c)] = u
            /\ \A e \in Emails : e # EmailOf(c) => user'[e] = user[e]
        BY <1>2, <3>1, <3>4
      <3>7. \A e \in Emails : Registered(e) =>
               /\ user'[e] # NoRow /\ user'[e].by = user[e].by
               /\ user'[e].password = user[e].password
               /\ user[e].profile => user'[e].profile
        <4> SUFFICES ASSUME NEW e \in Emails, Registered(e)
                     PROVE  /\ user'[e] # NoRow /\ user'[e].by = user[e].by
                            /\ user'[e].password = user[e].password
                            /\ user[e].profile => user'[e].profile
          OBVIOUS
        <4>1. CASE e = EmailOf(c)
          BY <3>2, <3>4, <3>6, <4>1, AccountsAssumption
        <4>2. CASE e # EmailOf(c)
          BY <3>6, <4>2 DEF Registered
        <4> QED
          BY <4>1, <4>2
      <3> QED
        BY <3>2, <3>4, <3>5, <3>6, <3>7, AccountsAssumption
    <2> QED
      BY <2>1, <2>2, <2>3
  <1>5. TypeOK' /\ RowsOfCalls' /\ OneSessionPerLogin'
    BY <1>1, <1>3, <1>4, RowsStay
  <1>6. /\ \A d \in Calls : Held(d)' /\ PasswordKept(d)'
        /\ SnapshotTaken' /\ OldSessionsEnd' /\ ResetsApart'
    BY <1>1, <1>4, OrdinaryStep DEF Registration, NewPassword
  <1> QED
    BY <1>5, <1>6 DEF IInv


LEMMA RowSteps ==
    ASSUME IInv, NEW c \in Calls,
           InsertSession(c) \/ Refresh(c) \/ Logout(c) \/ InsertToken(c)
    PROVE  IInv'
  <1>1. /\ user' = user /\ ~Ended(c)
        /\ call[c].request.op \in {"login", "refresh", "logout", "forgot"}
        /\ call[c].pc = "found"
    BY DEF InsertSession, Refresh, Logout, InsertToken, At, Ended
  <1>2. /\ session \in [Sessions -> Session \cup {NoRow}]
        /\ token \in [Tokens -> Token \cup {NoRow}]
        /\ user \in [Emails -> User \cup {NoRow}] /\ login \in [Sessions -> Sessions]
        /\ Held(c)
    BY DEF IInv, TypeOK
  <1>3. Registered(EmailOf(c))
    BY <1>1, <1>2 DEF Held, Registration
  <1>4. GoTo(c, "done", NoRow) \/ GoTo(c, "done", call[c].row)
    BY DEF InsertSession, Refresh, Logout, InsertToken
  <1>5. /\ Moves(c) /\ call'[c].pc = "done" /\ call'[c].before = call[c].before
    <2>1. call[c].row \in Sessions \cup Tokens \cup {NoRow} /\ call \in [Calls -> Handler]
      BY <1>1, OwnRows DEF IInv, TypeOK, Handler
    <2> QED
      BY <1>4, <2>1, GoToMoves
  <1>6. (InsertSession(c) \/ Refresh(c)) =>
           /\ session' \in [Sessions -> Session \cup {NoRow}]
           /\ session'[c] = NewSession(EmailOf(c)) /\ token' = token
           /\ \A s \in Sessions : s # c => session'[s] \in {session[s], NoRow}
           /\ login' \in [Sessions -> Sessions]
           /\ \A s \in Sessions : s # c => login'[s] = login[s]
           /\ \/ login'[c] = c /\ Told(c, {"login"})'
              \/ \E r \in Sessions : /\ session[r] # NoRow /\ session'[r] = NoRow
                                     /\ r # c /\ login'[c] = login[r]
           /\ Told(c, {"login", "refresh"})'
           /\ login'[c] = c \/ Told(c, {"refresh"})'
    <2>1. CASE InsertSession(c)
      <3>1. /\ session' = [session EXCEPT ![c] = NewSession(EmailOf(c))]
            /\ token' = token /\ login' = login /\ call[c].request.op = "login"
        BY <2>1 DEF InsertSession, At
      <3> QED
        BY <1>1, <1>2, <1>5, <3>1, OwnRows DEF Told, At, Moves
    <2>2. CASE Refresh(c)
      <3> DEFINE r == call[c].row
      <3>1. /\ session' = [session EXCEPT ![r] = NoRow, ![c] = NewSession(EmailOf(c))]
            /\ login' = [login EXCEPT ![c] = login[r]]
            /\ token' = token /\ call[c].request.op = "refresh" /\ session[r] # NoRow
        BY <2>2 DEF Refresh, At
      <3>2. r \in Sessions
        BY <1>1, <1>2, <3>1 DEF Held, At
      <3> HIDE DEF r
      <3>3. r # c
        BY <1>1, <3>1, OwnRows
      <3>4. Told(c, {"login", "refresh"})' /\ Told(c, {"refresh"})'
        BY <1>5, <3>1 DEF Told, At, Moves
      <3>5. /\ session' \in [Sessions -> Session \cup {NoRow}]
            /\ session'[c] = NewSession(EmailOf(c)) /\ session'[r] = NoRow
            /\ \A s \in Sessions : s # c => session'[s] \in {session[s], NoRow}
        BY <1>1, <1>2, <3>1, <3>2, <3>3, OwnRows
      <3>6. /\ login' \in [Sessions -> Sessions] /\ login'[c] = login[r]
            /\ \A s \in Sessions : s # c => login'[s] = login[s]
        BY <1>1, <1>2, <3>1, <3>2, OwnRows
      <3> QED
        BY <3>1, <3>2, <3>3, <3>4, <3>5, <3>6
    <2> QED
      BY <2>1, <2>2
  <1>7. CASE InsertSession(c) \/ Refresh(c)
    <2>1. /\ \A s \in Sessions : session'[s] \in {session[s], NoRow} \/ s = c
          /\ token' = token
      BY <1>6, <1>7
    <2>2. \A d \in Calls : \A ops : Told(d, ops) => Told(d, ops)'
      BY <1>1, <1>5 DEF Moves, Told, At
    <2>3. TypeOK'
      <3>1. \A s \in Sessions : session'[s] # NoRow => Registered(session'[s].email)
        BY <1>3, <1>6, <1>7 DEF IInv, TypeOK, NewSession
      <3> QED
        BY <1>1, <1>2, <1>5, <1>6, <1>7, <3>1 DEF IInv, TypeOK, Registered, Moves
    <2>4. RowsOfCalls'
      <3>1. \A s \in Calls : session'[s] # NoRow => Told(s, {"login", "refresh"})'
        BY <1>6, <1>7, <2>2 DEF IInv, RowsOfCalls, Sessions
      <3>2. \A s \in Sessions : session'[s] # NoRow /\ login'[s] \in Calls
                                   => \E d \in Calls : d = login'[s] /\ Told(d, {"login"})'
        <4> SUFFICES ASSUME NEW s \in Sessions, session'[s] # NoRow, login'[s] \in Calls
                     PROVE  \E d \in Calls : d = login'[s] /\ Told(d, {"login"})'
          OBVIOUS
        <4>1. CASE s # c
          BY <1>6, <1>7, <2>2, <4>1 DEF IInv, RowsOfCalls
        <4>2. CASE s = c
          BY <1>6, <1>7, <2>2, <4>2 DEF IInv, RowsOfCalls
        <4> QED
          BY <4>1, <4>2
      <3>3. \A s \in Calls : login'[s] # s => Told(s, {"refresh"})'
        BY <1>6, <1>7, <2>2 DEF IInv, RowsOfCalls, Sessions
      <3>4. \A t \in Calls : token'[t] # NoRow => Told(t, {"forgot"})'
        BY <2>1, <2>2 DEF IInv, RowsOfCalls
      <3> QED
        BY <3>1, <3>2, <3>3, <3>4 DEF RowsOfCalls, Told, At
    <2>5. OneSessionPerLogin'
      <3> SUFFICES ASSUME NEW s \in Sessions, NEW t \in Sessions, session'[s] # NoRow,
                          session'[t] # NoRow, login'[s] = login'[t], s # t
                   PROVE  FALSE
        BY DEF OneSessionPerLogin
      <3>1. \A q \in Sessions : session[q] # NoRow => login[q] # c
        BY <1>1, OwnRows
      <3> QED
        BY <1>6, <1>7, <3>1 DEF IInv, OneSessionPerLogin
    <2>6. /\ \A d \in Calls : Held(d)' /\ PasswordKept(d)'
          /\ SnapshotTaken' /\ OldSessionsEnd' /\ ResetsApart'
      BY <1>1, <1>5, <2>1, OrdinaryStep DEF Registration, NewPassword, Registered
    <2> QED
      BY <2>3, <2>4, <2>5, <2>6 DEF IInv
  <1>8. CASE Logout(c)
    <2>1. /\ session' = [session EXCEPT ![call[c].row] = NoRow]
          /\ token' = token /\ login' = login
      BY <1>8 DEF Logout
    <2>2. /\ session' \in [Sessions -> Session \cup {NoRow}]
          /\ \A s \in Sessions : session'[s] \in {session[s], NoRow}
      BY <1>2, <2>1
    <2>3. TypeOK' /\ RowsOfCalls' /\ OneSessionPerLogin'
      BY <1>1, <1>2, <1>5, <2>1, <2>2, RowsStay DEF Registered
    <2>4. /\ \A d \in Calls : Held(d)' /\ PasswordKept(d)'
          /\ SnapshotTaken' /\ OldSessionsEnd' /\ ResetsApart'
      BY <1>1, <1>5, <2>1, <2>2, OrdinaryStep DEF Registration, NewPassword, Registered
    <2> QED
      BY <2>3, <2>4 DEF IInv
  <1>9. CASE InsertToken(c)
    <2> DEFINE n == [email |-> EmailOf(c), state |-> "unused"]
    <2>1. /\ token' = [token EXCEPT ![c] = n] /\ session' = session /\ login' = login
          /\ call[c].request.op = "forgot"
      BY <1>9 DEF InsertToken, At
    <2>2. n \in Token /\ n.email = EmailOf(c)
      BY <1>1, OwnRows DEF Token
    <2> HIDE DEF n
    <2>3. /\ token' \in [Tokens -> Token \cup {NoRow}] /\ token'[c] = n
          /\ \A t \in Tokens : t # c => token'[t] = token[t]
          /\ token[c] = NoRow
      BY <1>1, <1>2, <2>1, <2>2, OwnRows
    <2>4. \A d \in Calls : \A ops : Told(d, ops) => Told(d, ops)'
      BY <1>1, <1>5 DEF Moves, Told, At
    <2>5. TypeOK'
      <3>1. \A t \in Tokens : token'[t] # NoRow => Registered(token'[t].email)
        BY <1>3, <2>2, <2>3 DEF IInv, TypeOK
      <3> QED
        BY <1>1, <1>5, <2>1, <2>3, <3>1 DEF IInv, TypeOK, Registered, Moves
    <2>6. RowsOfCalls'
      <3>1. Told(c, {"forgot"})'
        BY <1>5, <2>1 DEF Told, At, Moves
      <3> QED
        BY <2>1, <2>3, <2>4, <3>1 DEF IInv, RowsOfCalls, Tokens
    <2>7. OneSessionPerLogin'
      BY <2>1 DEF IInv, OneSessionPerLogin
    <2>8. /\ \A d \in Calls : Held(d)' /\ PasswordKept(d)'
          /\ SnapshotTaken' /\ OldSessionsEnd' /\ ResetsApart'
      BY <1>1, <1>5, <2>1, <2>3, OrdinaryStep DEF Registration, NewPassword, Registered
    <2> QED
      BY <2>5, <2>6, <2>7, <2>8 DEF IInv
  <1> QED
    BY <1>7, <1>8, <1>9

LEMMA LockStep ==
    ASSUME IInv, NEW c \in Calls, LockUser(c)
    PROVE  IInv'
  <1> DEFINE seen == {s \in Sessions : session[s] # NoRow /\ session[s].email = EmailOf(c)}
             h == [call[c] EXCEPT !.pc = "clearing", !.seen = seen]
  <1>1. /\ user' = user /\ session' = session /\ token' = token /\ login' = login
        /\ At(c, NewPassword, "found") /\ ~Ended(c) /\ call' = [call EXCEPT ![c] = h]
    BY DEF LockUser, At, Ended
  <1>2. /\ h \in Handler /\ h.pc = "clearing" /\ h.seen = seen /\ h.row = call[c].row
        /\ h.request = call[c].request /\ h.before = call[c].before
    <2>1. seen \in SUBSET Sessions /\ call[c] \in Handler
      BY <1>1, OwnRows
    <2> HIDE DEF seen
    <2> QED
      BY <2>1 DEF Handler, Running
  <1>3. call'[c] = h
    BY <1>1 DEF IInv, TypeOK
  <1> HIDE DEF h
  <1>4. /\ call' \in [Calls -> Handler] /\ call \in [Calls -> Handler]
        /\ \A d \in Calls : d # c => call'[d] = call[d]
        /\ \A d \in Calls : call'[d].before = call[d].before /\ call'[d].row = call[d].row
        /\ \A d \in Calls : call'[d].request = call[d].request /\ EmailOf(d)' = EmailOf(d)
    BY <1>1, <1>2, <1>3 DEF IInv, TypeOK, EmailOf
  <1>5. /\ Moves(c) /\ call'[c].pc = "clearing" /\ call'[c].seen = seen
        /\ call[c].pc = "found" /\ call[c].request.op \in NewPassword
    BY <1>1, <1>2, <1>3, <1>4 DEF Moves, At
  <1>6. \A d \in Calls : \A ops : Told(d, ops) <=> Told(d, ops)'
    BY <1>4, <1>5 DEF Told, At
  <1>7. TypeOK' /\ RowsOfCalls' /\ OneSessionPerLogin'
    BY <1>1, <1>5, RowsStay DEF IInv, TypeOK, Registered
  <1>8. \A d \in Calls : Held(d)' /\ PasswordKept(d)'
    <2> SUFFICES ASSUME NEW d \in Calls PROVE Held(d)' /\ PasswordKept(d)'
      OBVIOUS
    <2>1. Held(d) /\ PasswordKept(d)
      BY DEF IInv
    <2>2. (call[d].before \subseteq {e \in Calls : Ended(e)})'
      BY <1>4, <1>5, <2>1 DEF Held, Ended
    <2>3. Held(d)'
      <3>1. CASE d # c
        BY <1>1, <1>4, <2>1, <2>2, <3>1 DEF Held, At, Told, Registered
      <3>2. CASE d = c
        BY <1>1, <1>4, <1>5, <2>1, <2>2, <3>2 DEF Held, At, Told, Registered, Registration, NewPassword
      <3> QED
        BY <3>1, <3>2
    <2>4. PasswordKept(d)'
      BY <1>1, <1>4, <1>6, <2>1 DEF PasswordKept
    <2> QED
      BY <2>3, <2>4
  <1>9. SnapshotTaken'
    <2> SUFFICES ASSUME NEW d \in Calls, At(d, NewPassword, "clearing")',
                        NEW s \in Sessions, session[s] # NoRow, session[s].email = EmailOf(d)
                 PROVE  s \in call'[d].seen \/ s \in Calls \ call'[d].before
      BY <1>1, <1>4 DEF SnapshotTaken
    <2>1. CASE d = c
      BY <1>5, <2>1
    <2>2. CASE d # c
      BY <1>4, <2>2 DEF IInv, SnapshotTaken, At
    <2> QED
      BY <2>1, <2>2
  <1>10. OldSessionsEnd'
    BY <1>1, <1>4, <1>6 DEF IInv, OldSessionsEnd, Live
  <1>11. ResetsApart'
    <2> SUFFICES ASSUME NEW d \in Calls, NEW e \in Calls, Told(d, {"reset"}),
                        call[e].request.op = "reset",
                        call'[e].pc \in {"found", "clearing", "done"}, call[d].row = call[e].row
                 PROVE  d \notin call[e].before
      BY <1>4, <1>6 DEF ResetsApart
    <2>1. call[e].pc \in {"found", "clearing", "done"}
      BY <1>4, <1>5
    <2> QED
      BY <2>1 DEF IInv, ResetsApart
  <1> QED
    BY <1>7, <1>8, <1>9, <1>10, <1>11 DEF IInv

LEMMA CommitStep ==
    ASSUME IInv, NEW c \in Calls, CommitPassword(c)
    PROVE  IInv'
  <1>1. /\ At(c, NewPassword, "clearing") /\ ~Ended(c) /\ login' = login
        /\ GoTo(c, "done", call[c].row)
        /\ user' = [user EXCEPT ![EmailOf(c)] = [user[EmailOf(c)] EXCEPT !.password = c]]
    BY DEF CommitPassword, DeleteSessions, RevokeSessions, At, Ended, NewPassword
  <1>2. /\ session \in [Sessions -> Session \cup {NoRow}]
        /\ token \in [Tokens -> Token \cup {NoRow}]
        /\ user \in [Emails -> User \cup {NoRow}] /\ call \in [Calls -> Handler]
        /\ Held(c) /\ EmailOf(c) \in Emails
    BY <1>1, OwnRows DEF IInv, TypeOK
  <1>3. Registered(EmailOf(c)) /\ user[EmailOf(c)] \in User
    BY <1>1, <1>2 DEF Held, At, NewPassword, Registration, Registered
  <1>4. /\ Moves(c) /\ call'[c].pc = "done" /\ call'[c].row = call[c].row
        /\ call'[c].before = call[c].before
    <2>1. call[c].row \in Sessions \cup Tokens \cup {NoRow}
      BY <1>2 DEF Handler
    <2>2. PICK row \in Sessions \cup Tokens \cup {NoRow} :
             row = call[c].row /\ GoTo(c, "done", row)
      BY <1>1, <2>1
    <2> QED
      BY <1>2, <2>2, GoToMoves
  <1>5. /\ \A d \in Calls : d # c => call'[d] = call[d]
        /\ \A d \in Calls : call'[d].before = call[d].before /\ call'[d].row = call[d].row
        /\ \A d \in Calls : call'[d].request = call[d].request /\ EmailOf(d)' = EmailOf(d)
        /\ \A d \in Calls : \A ops : Told(d, ops) => Told(d, ops)'
        /\ \A d \in Calls : \A ops : d # c /\ Told(d, ops)' => Told(d, ops)
        /\ call[c].pc = "clearing" /\ call[c].request.op \in NewPassword
        /\ Told(c, NewPassword)' /\ \A d \in Calls : EmailOf(d) \in Emails
    <2>1. \A d \in Calls : call[d].request \in Request
      BY <1>2, AccountsAssumption DEF Handler
    <2> QED
      BY <1>1, <1>4, <2>1 DEF Moves, EmailOf, Told, At, Ended, Request
  <1>6. \A d \in Calls : c \notin call[d].before
    BY <1>1 DEF IInv, Held
  <1>7. /\ user' \in [Emails -> User \cup {NoRow}]
        /\ user'[EmailOf(c)].password = c
        /\ \A e \in Emails : e # EmailOf(c) => user'[e] = user[e]
        /\ \A e \in Emails : Registered(e) => /\ user'[e] # NoRow /\ user'[e].by = user[e].by
                                              /\ user'[e].profile = user[e].profile
    <2> DEFINE u == [user[EmailOf(c)] EXCEPT !.password = c]
    <2>1. /\ u \in User /\ u.password = c /\ u.by = user[EmailOf(c)].by
          /\ u.profile = user[EmailOf(c)].profile
      BY <1>3 DEF User
    <2>2. user' = [user EXCEPT ![EmailOf(c)] = u]
      BY <1>1
    <2> HIDE DEF u
    <2> QED
      BY <1>2, <2>1, <2>2, AccountsAssumption DEF Registered
  <1>8. /\ session' \in [Sessions -> Session \cup {NoRow}]
        /\ \A s \in Sessions : session'[s] # NoRow =>
              /\ session[s] # NoRow /\ session'[s].email = session[s].email
              /\ session'[s].state = "live" => session[s].state = "live" /\ s \notin call[c].seen
    <2>1. CASE DeleteSessions(c)
      <3>1. session' = [s \in Sessions |-> IF s \in call[c].seen THEN NoRow ELSE session[s]]
        BY <2>1 DEF DeleteSessions
      <3> QED
        BY <1>2, <3>1
    <2>2. CASE RevokeSessions(c)
      <3>1. session' = [s \in Sessions |-> IF s \in call[c].seen /\ session[s] # NoRow
                                             THEN [session[s] EXCEPT !.state = "revoked"]
                                             ELSE session[s]]
        BY <2>2 DEF RevokeSessions
      <3>2. \A s \in Sessions : session[s] # NoRow =>
               LET r == [session[s] EXCEPT !.state = "revoked"]
               IN  r \in Session /\ r.email = session[s].email /\ r.state = "revoked"
        BY <1>2 DEF Session
      <3> QED
        BY <1>2, <3>1, <3>2
    <2> QED
      BY <1>1, <2>1, <2>2 DEF CommitPassword
  <1>9. /\ token' \in [Tokens -> Token \cup {NoRow}]
        /\ \A t \in Tokens : (token'[t] # NoRow <=> token[t] # NoRow)
        /\ \A t \in Tokens : token[t] # NoRow =>
              /\ token'[t].email = token[t].email
              /\ token[t].state = "used" => token'[t].state = "used"
        /\ call[c].request.op = "reset" => call[c].row \in Tokens /\ token[call[c].row] # NoRow
                                           /\ token'[call[c].row].state = "used"
    <2>1. CASE DeleteSessions(c)
      BY <1>2, <2>1 DEF DeleteSessions, At
    <2>2. CASE RevokeSessions(c)
      <3> DEFINE r == call[c].row
                 n == [token[r] EXCEPT !.state = "used"]
      <3>1. r \in Tokens /\ token[r] # NoRow
        BY <1>2, <2>2 DEF RevokeSessions, Held, At
      <3>2. token' = [token EXCEPT ![r] = n]
        BY <2>2 DEF RevokeSessions
      <3>3. n \in Token /\ n.email = token[r].email /\ n.state = "used"
        BY <1>2, <3>1 DEF Token
      <3> HIDE DEF n, r
      <3>4. /\ token' \in [Tokens -> Token \cup {NoRow}] /\ token'[r] = n
            /\ \A t \in Tokens : t # r => token'[t] = token[t]
        BY <1>2, <3>1, <3>2, <3>3
      <3>5. n # NoRow
        BY <3>3, AccountsAssumption
      <3>6. token'[r].state = "used" /\ token'[r] # NoRow
        BY <3>3, <3>4, <3>5
      <3>7. \A t \in Tokens : /\ token'[t] # NoRow <=> token[t] # NoRow
                              /\ token[t] # NoRow =>
                                    /\ token'[t].email = token[t].email
                                    /\ token[t].state = "used" => token'[t].state = "used"
        BY <3>1, <3>3, <3>4, <3>6
      <3> QED
        BY <3>1, <3>4, <3>6, <3>7 DEF r
    <2> QED
      BY <1>1, <2>1, <2>2 DEF CommitPassword
  <1>10. TypeOK' /\ RowsOfCalls' /\ OneSessionPerLogin'
    BY <1>1, <1>4, <1>7, <1>8, <1>9, RowsStay
  <1>11. \A d \in Calls : Held(d)'
    <2> SUFFICES ASSUME NEW d \in Calls PROVE Held(d)'
      OBVIOUS
    <2>1. Held(d) /\ EmailOf(d) \in Emails
      BY <1>5 DEF IInv
    <2>2. (call[d].before \subseteq {e \in Calls : Ended(e)})'
      BY <1>4, <1>5, <2>1 DEF Held, Ended
    <2>3. /\ Registered(EmailOf(d)) => /\ Registered(EmailOf(d))'
                                       /\ (user[EmailOf(d)].by)' = user[EmailOf(d)].by
                                       /\ (user[EmailOf(d)].profile)' = user[EmailOf(d)].profile
      BY <1>5, <1>7, <2>1 DEF Registered
    <2>4. call[d].row \in Tokens /\ token[call[d].row] # NoRow =>
             /\ (token[call[d].row])' # NoRow
             /\ token[call[d].row].state = "used" => (token[call[d].row])'.state = "used"
      BY <1>5, <1>9
    <2>5. CASE d # c
      <3>1. call'[d] = call[d]
        BY <1>5, <2>5
      <3>2. Told(d, {"driver"}) => Told(d, Registration)
        BY DEF Told, At, Registration
      <3> QED
        BY <2>1, <2>2, <2>3, <2>4, <3>1, <3>2 DEF Held, At, Told
    <2>6. CASE d = c
      BY <1>3, <1>4, <1>5, <1>9, <2>2, <2>3, <2>6 DEF Held, At, Told, Registration, NewPassword
    <2> QED
      BY <2>5, <2>6
  <1>12. \A d \in Calls : PasswordKept(d)'
    <2> SUFFICES ASSUME NEW d \in Calls, Told(d, NewPassword)' PROVE PasswordKept(d)'
      BY DEF PasswordKept
    <2>1. CASE d = c
      BY <1>5, <1>7, <2>1 DEF PasswordKept
    <2>2. CASE d # c /\ EmailOf(d) = EmailOf(c)
      BY <1>5, <1>6, <2>2 DEF PasswordKept
    <2>3. CASE d # c /\ EmailOf(d) # EmailOf(c)
      <3>1. Told(d, NewPassword) /\ (user[EmailOf(d)])' = user[EmailOf(d)] /\ PasswordKept(d)
        BY <1>5, <1>7, <2>3 DEF IInv
      <3> QED
        BY <1>5, <3>1 DEF PasswordKept
    <2> QED
      BY <2>1, <2>2, <2>3
  <1>13. SnapshotTaken'
    <2> SUFFICES ASSUME NEW d \in Calls, At(d, NewPassword, "clearing")',
                        NEW s \in Sessions, session'[s] # NoRow,
                        session'[s].email = EmailOf(d)'
                 PROVE  s \in call'[d].seen \/ s \in Calls \ call'[d].before
      BY DEF SnapshotTaken
    <2>1. d # c /\ At(d, NewPassword, "clearing")
      BY <1>4, <1>5 DEF At
    <2> QED
      BY <1>5, <1>8, <2>1 DEF IInv, SnapshotTaken
  <1>14. OldSessionsEnd'
    <2> SUFFICES ASSUME NEW d \in Calls, Told(d, NewPassword)',
                        NEW s \in Sessions, Live(s, EmailOf(d))'
                 PROVE  s \in Calls \ call[d].before
      BY <1>5 DEF OldSessionsEnd
    <2>1. Live(s, EmailOf(d)) /\ s \notin call[c].seen
      BY <1>5, <1>8 DEF Live
    <2>2. CASE d = c
      BY <1>1, <2>1, <2>2 DEF IInv, SnapshotTaken, Live
    <2>3. CASE d # c
      BY <1>5, <2>1, <2>3 DEF IInv, OldSessionsEnd
    <2> QED
      BY <2>2, <2>3
  <1>15. ResetsApart'
    <2> SUFFICES ASSUME NEW d \in Calls, NEW e \in Calls, Told(d, {"reset"})',
                        call[e].request.op = "reset",
                        call'[e].pc \in {"found", "clearing", "done"}, call[d].row = call[e].row
                 PROVE  d \notin call[e].before
      BY <1>5 DEF ResetsApart
    <2>1. call[e].pc \in {"found", "clearing", "done"}
      BY <1>5
    <2>2. CASE d = c
      BY <1>6, <2>2
    <2>3. CASE d # c
      BY <1>5, <2>1, <2>3 DEF IInv, ResetsApart
    <2> QED
      BY <2>2, <2>3
  <1> QED
    BY <1>10, <1>11, <1>12, <1>13, <1>14, <1>15 DEF IInv


LEMMA ExpireSteps ==
    ASSUME IInv, (\E s \in Sessions : ExpireSession(s)) \/ (\E t \in Tokens : ExpireToken(t))
    PROVE  IInv'
  <1>1. /\ user' = user /\ call' = call /\ login' = login
    BY DEF ExpireSession, ExpireToken
  <1>2. /\ session \in [Sessions -> Session \cup {NoRow}]
        /\ token \in [Tokens -> Token \cup {NoRow}]
    BY DEF IInv, TypeOK
  <1>3. /\ session' \in [Sessions -> Session \cup {NoRow}]
        /\ \A s \in Sessions : session'[s] # NoRow =>
              /\ session[s] # NoRow /\ session'[s].email = session[s].email
              /\ session'[s].state = "live" => session[s].state = "live"
    <2>1. CASE session' = session
      BY <1>2, <2>1
    <2>2. CASE \E s \in Sessions : ExpireSession(s)
      <3>1. PICK s \in Sessions : ExpireSession(s)
        BY <2>2
      <3> DEFINE n == [session[s] EXCEPT !.state = "expired"]
      <3>2. /\ session' = [session EXCEPT ![s] = n] /\ session[s] \in Session
            /\ session[s] # NoRow
        BY <1>2, <3>1 DEF ExpireSession
      <3>3. n \in Session /\ n.email = session[s].email /\ n.state = "expired"
        BY <3>2 DEF Session
      <3> HIDE DEF n
      <3> QED
        BY <1>2, <3>2, <3>3
    <2> QED
      BY <2>1, <2>2 DEF ExpireToken
  <1>4. /\ token' \in [Tokens -> Token \cup {NoRow}]
        /\ \A t \in Tokens : (token'[t] # NoRow <=> token[t] # NoRow)
        /\ \A t \in Tokens : token[t] # NoRow =>
              /\ token'[t].email = token[t].email
              /\ token[t].state = "used" => token'[t].state = "used"
    <2>1. CASE token' = token
      BY <1>2, <2>1
    <2>2. CASE \E t \in Tokens : ExpireToken(t)
      <3>1. PICK t \in Tokens : ExpireToken(t)
        BY <2>2
      <3> DEFINE n == [token[t] EXCEPT !.state = "expired"]
      <3>2. /\ token' = [token EXCEPT ![t] = n] /\ token[t] \in Token
            /\ token[t] # NoRow /\ token[t].state = "unused"
        BY <1>2, <3>1 DEF ExpireToken
      <3>3. n \in Token /\ n.email = token[t].email
        BY <3>2 DEF Token
      <3> HIDE DEF n
      <3>4. n # NoRow
        BY <3>3, AccountsAssumption
      <3>5. token'[t] = n /\ \A q \in Tokens : q # t => token'[q] = token[q]
        BY <1>2, <3>2
      <3> QED
        BY <1>2, <3>2, <3>3, <3>4, <3>5
    <2> QED
      BY <2>1, <2>2 DEF ExpireSession
  <1>5. TypeOK'
    BY <1>1, <1>3, <1>4 DEF IInv, TypeOK, Registered
  <1>6. \A d \in Calls : Held(d)'
    <2> SUFFICES ASSUME NEW d \in Calls PROVE Held(d)'
      OBVIOUS
    <2>1. Held(d)
      BY DEF IInv
    <2>2. (call[d].before \subseteq {e \in Calls : Ended(e)})'
      BY <1>1, <2>1 DEF Held, Ended
    <2>3. call[d].row \in Tokens /\ token[call[d].row] # NoRow =>
             /\ (token[call[d].row])' # NoRow
             /\ token[call[d].row].state = "used" => (token[call[d].row])'.state = "used"
      BY <1>1, <1>4
    <2>4. Told(d, {"reset"}) => At(d, {"reset"}, call[d].pc) /\ call[d].pc = "done"
      BY DEF Told, At
    <2> QED
      BY <1>1, <2>1, <2>2, <2>3, <2>4 DEF Held, At, Told, Registered, EmailOf
  <1>7. \A d \in Calls : PasswordKept(d)'
    BY <1>1 DEF IInv, PasswordKept, Told, At, EmailOf
  <1>8. RowsOfCalls'
    BY <1>1, <1>3, <1>4 DEF IInv, RowsOfCalls, Told, At, Sessions, Tokens
  <1>9. OneSessionPerLogin' /\ SnapshotTaken' /\ OldSessionsEnd' /\ ResetsApart'
    <2>1. OneSessionPerLogin'
      BY <1>1, <1>3 DEF IInv, OneSessionPerLogin
    <2>2. SnapshotTaken'
      BY <1>1, <1>3 DEF IInv, SnapshotTaken, At, EmailOf
    <2>3. OldSessionsEnd'
      BY <1>1, <1>3 DEF IInv, OldSessionsEnd, Told, At, EmailOf, Live
    <2>4. ResetsApart'
      BY <1>1 DEF IInv, ResetsApart, Told, At
    <2> QED
      BY <2>1, <2>2, <2>3, <2>4
  <1> QED
    BY <1>5, <1>6, <1>7, <1>8, <1>9 DEF IInv

LEMMA NextIInv == IInv /\ [Next]_vars => IInv'
  <1> SUFFICES ASSUME IInv, [Next]_vars PROVE IInv'
    OBVIOUS
  <1>1. CASE UNCHANGED vars
    <2>1. /\ TypeOK' /\ RowsOfCalls' /\ OneSessionPerLogin'
      BY <1>1 DEF IInv, vars, TypeOK, Registered, RowsOfCalls, Told, At, OneSessionPerLogin
    <2>2. \A d \in Calls : Held(d)' /\ PasswordKept(d)'
      BY <1>1 DEF IInv, vars, Held, PasswordKept, Told, At, Ended, Registered, EmailOf
    <2>3. SnapshotTaken' /\ OldSessionsEnd' /\ ResetsApart'
      BY <1>1 DEF IInv, vars, SnapshotTaken, OldSessionsEnd, ResetsApart, Told, At, Live, EmailOf
    <2> QED
      BY <2>1, <2>2, <2>3 DEF IInv
  <1>2. ASSUME NEW c \in Calls,
               \/ Call(c) \/ Fail(c) \/ FindUser(c) \/ FindEmail(c) \/ FindSession(c)
               \/ FindToken(c)
        PROVE  IInv'
    BY <1>2, QuietSteps
  <1>3. ASSUME NEW c \in Calls, InsertUser(c) \/ CompleteUser(c) PROVE IInv'
    BY <1>3, RegistrationSteps
  <1>4. ASSUME NEW c \in Calls,
               InsertSession(c) \/ Refresh(c) \/ Logout(c) \/ InsertToken(c)
        PROVE  IInv'
    BY <1>4, RowSteps
  <1>5. ASSUME NEW c \in Calls, LockUser(c) PROVE IInv'
    BY <1>5, LockStep
  <1>6. ASSUME NEW c \in Calls, CommitPassword(c) PROVE IInv'
    BY <1>6, CommitStep
  <1>7. CASE \E s \in Sessions : ExpireSession(s)
    BY <1>7, ExpireSteps
  <1>8. CASE \E t \in Tokens : ExpireToken(t)
    BY <1>8, ExpireSteps
  <1> QED
    BY <1>1, <1>2, <1>3, <1>4, <1>5, <1>6, <1>7, <1>8 DEF Next

-----------------------------------------------------------------------------
\* The strengthened invariant holds in every state, whatever the users, the calls and the
\* rows from before.
THEOREM Invariance == Spec => []IInv
  BY InitIInv, NextIInv, PTL DEF Spec

\* Every row keeps its shape, and one of a session or a token has its user, through all
\* handlers of auth.service.ts.
THEOREM TypeCorrect == Spec => []TypeOK
  <1>1. IInv => TypeOK
    BY DEF IInv
  <1> QED
    BY <1>1, Invariance, PTL

\* A login never has two sessions, with any number of refreshToken calls at once.
THEOREM SessionsUnique == Spec => []OneSessionPerLogin
  <1>1. IInv => OneSessionPerLogin
    BY DEF IInv
  <1> QED
    BY <1>1, Invariance, PTL

\* A new password leaves no live session of a call that had ended when it was asked for,
\* with any number of logins and refreshes at once.
THEOREM OldSessionsAlwaysEnd == Spec => []OldSessionsEnd
  <1>1. IInv => OldSessionsEnd
    BY DEF IInv
  <1> QED
    BY <1>1, Invariance, PTL

\* Who was told that he is registered stays so, a driver with his profile, and who was told
\* of a new password has it, or another that was set in the meantime.
THEOREM AnswersAlwaysHold == Spec => []AnswersHold
  <1>1. IInv => AnswersHold
    BY DEF IInv, Held, PasswordKept, AnswersHold
  <1> QED
    BY <1>1, Invariance, PTL

-----------------------------------------------------------------------------
(* What requests carry, and what their handlers have found for it.         *)

\* The calls whose clients have got a cookie, and the cookies from before.
GivenOut == OldSessions \cup {c \in Calls : Gives(c)}

\* A cookie is one that had been given out to its user when the call began.
GivenTo(c) ==
    \/ call[c].given \in OldSessions /\ OwnerOf[call[c].given] = EmailOf(c)
    \/ \E d \in call[c].before : d = call[c].given /\ Gives(d) /\ EmailOf(d) = EmailOf(c)

CookieGiven ==
    \A c \in Calls :
        call[c].request.op \in {"refresh", "logout"} /\ call[c].pc # "idle" => GivenTo(c)

\* A reset has found a row of its user.
TokenFound ==
    \A c \in Calls :
        call[c].request.op = "reset" /\ call[c].pc \in {"found", "clearing", "done"}
            => token[call[c].row].email = EmailOf(c)

LEMMA GivenRows ==
    ASSUME IInv
    PROVE  /\ GivenOut \subseteq Sessions
           /\ \A s \in Sessions : session[s] # NoRow => s \in GivenOut
           /\ \A c \in Calls : ~Ended(c) => c \notin GivenOut /\ ~Gives(c)
           /\ \A c \in Calls : Gives(c) <=> c \in GivenOut
  <1>1. \A s \in Calls : session[s] # NoRow => Gives(s)
    BY DEF IInv, RowsOfCalls, Gives
  <1>2. \A c \in Calls : ~Ended(c) => ~Gives(c)
    BY DEF Gives, Told, At, Ended
  <1>3. \A c \in Calls : c \notin OldSessions
    BY AccountsAssumption
  <1> QED
    BY <1>1, <1>2, <1>3 DEF GivenOut, Sessions

\* One handler moves at a time, none that has ended, and what a request carries and was
\* begun after is settled when it begins.
LEMMA StepOfCalls ==
    ASSUME IInv, [Next]_vars
    PROVE  \A d \in Calls :
             /\ call'[d].request = call[d].request
             /\ Ended(d) => call'[d] = call[d]
             /\ \/ /\ call'[d].given = call[d].given /\ call'[d].before = call[d].before
                   /\ call'[d].pc = "idle" <=> call[d].pc = "idle"
                \/ Call(d)
  <1>1. call \in [Calls -> Handler]
    BY DEF IInv, TypeOK
  <1>2. CASE call' = call
    BY <1>2
  <1>3. ASSUME NEW c \in Calls, NEW pc \in Running \cup {"done", "failed"},
               NEW row \in Sessions \cup Tokens \cup {NoRow}, GoTo(c, pc, row), InFlight(c),
               NEW d \in Calls
        PROVE  /\ call'[d].request = call[d].request
               /\ Ended(d) => call'[d] = call[d]
               /\ call'[d].given = call[d].given /\ call'[d].before = call[d].before
               /\ call'[d].pc = "idle" <=> call[d].pc = "idle"
    <2>1. /\ Moves(c) /\ call'[c].pc = pc /\ call'[c].before = call[c].before
          /\ call'[c].given = call[c].given
      BY <1>1, <1>3, GoToMoves
    <2>2. ~Ended(c) /\ call[c].pc # "idle" /\ call'[c].pc # "idle"
      BY <1>3, <2>1 DEF InFlight, Running, Ended
    <2> QED
      BY <2>1, <2>2 DEF Moves
  <1>4. ASSUME NEW c \in Calls, Call(c), NEW d \in Calls
        PROVE  /\ call'[d].request = call[d].request
               /\ Ended(d) => call'[d] = call[d]
               /\ d # c => call'[d] = call[d]
    <2>1. Moves(c) /\ call[c].pc = "idle"
      BY <1>4, CallMoves
    <2> QED
      BY <2>1 DEF Moves, Ended
  <1>5. ASSUME NEW c \in Calls, LockUser(c), NEW d \in Calls
        PROVE  /\ call'[d].request = call[d].request
               /\ Ended(d) => call'[d] = call[d]
               /\ call'[d].given = call[d].given /\ call'[d].before = call[d].before
               /\ call'[d].pc = "idle" <=> call[d].pc = "idle"
    <2> DEFINE seen == {s \in Sessions : session[s] # NoRow /\ session[s].email = EmailOf(c)}
               h == [call[c] EXCEPT !.pc = "clearing", !.seen = seen]
    <2>1. /\ call' = [call EXCEPT ![c] = h] /\ call[c].pc = "found"
      BY <1>5 DEF LockUser, At
    <2>2. call[c] \in Handler
      BY <1>1
    <2> HIDE DEF seen
    <2>3. /\ h.request = call[c].request /\ h.given = call[c].given
          /\ h.before = call[c].before /\ h.pc = "clearing"
      BY <2>2 DEF Handler
    <2> HIDE DEF h
    <2> QED
      BY <1>1, <2>1, <2>3 DEF Ended
  <1>6. ASSUME NEW c \in Calls,
               \/ Fail(c) \/ FindUser(c) \/ FindEmail(c) \/ InsertUser(c) \/ CompleteUser(c)
               \/ InsertSession(c) \/ FindSession(c) \/ Refresh(c) \/ Logout(c)
               \/ InsertToken(c) \/ FindToken(c) \/ CommitPassword(c)
        PROVE  \E pc \in Running \cup {"done", "failed"} :
                  \E row \in Sessions \cup Tokens \cup {NoRow} : GoTo(c, pc, row) /\ InFlight(c)
    <2>1. call[c].row \in Sessions \cup Tokens \cup {NoRow}
      BY <1>1 DEF Handler
    <2>2. {"found", "inserted", "done", "failed"} \subseteq Running \cup {"done", "failed"}
      BY DEF Running
    <2>3. InFlight(c)
      BY <1>6 DEF Fail, FindUser, FindEmail, InsertUser, CompleteUser, InsertSession, FindSession,
         Refresh, Logout, InsertToken, FindToken, CommitPassword, DeleteSessions,
         RevokeSessions, At, InFlight, Running
    <2>4. \/ \E pc \in {"found", "inserted", "done", "failed"} : GoTo(c, pc, NoRow)
          \/ \E row \in Sessions \cup Tokens : GoTo(c, "found", row)
          \/ \E pc \in {"done", "failed"} : GoTo(c, pc, call[c].row)
      BY <1>6 DEF Fail, FindUser, FindEmail, InsertUser, CompleteUser, InsertSession, FindSession,
         Refresh, Logout, InsertToken, FindToken, CommitPassword
    <2> QED
      BY <2>1, <2>2, <2>3, <2>4
  <1>7. ASSUME NEW s \in Sessions, ExpireSession(s)
        PROVE  call' = call
    BY <1>7 DEF ExpireSession
  <1>8. ASSUME NEW t \in Tokens, ExpireToken(t)
        PROVE  call' = call
    BY <1>8 DEF ExpireToken
  <1>9. CASE UNCHANGED vars
    BY <1>2, <1>9 DEF vars
  <1>10. ASSUME NEW c \in Calls, LockUser(c) \/ Call(c)
         PROVE  \A d \in Calls :
                  /\ call'[d].request = call[d].request
                  /\ Ended(d) => call'[d] = call[d]
                  /\ \/ /\ call'[d].given = call[d].given /\ call'[d].before = call[d].before
                        /\ call'[d].pc = "idle" <=> call[d].pc = "idle"
                     \/ Call(d)
    BY <1>4, <1>5, <1>10
  <1> QED
    BY <1>2, <1>3, <1>6, <1>7, <1>8, <1>9, <1>10 DEF Next

LEMMA InitCarried == Init => CookieGiven /\ TokenFound
  BY DEF Init, CookieGiven, TokenFound

LEMMA NextCookie == IInv /\ CookieGiven /\ [Next]_vars => CookieGiven'
  <1> SUFFICES ASSUME IInv, CookieGiven, [Next]_vars PROVE CookieGiven'
    OBVIOUS
  <1> SUFFICES ASSUME NEW c \in Calls,
                      call'[c].request.op \in {"refresh", "logout"}, call'[c].pc # "idle"
               PROVE  GivenTo(c)'
    BY DEF CookieGiven
  <1>1. \A d \in Calls : EmailOf(d)' = EmailOf(d) /\ (Gives(d) => Gives(d)')
    <2>1. \A d \in Calls : Gives(d) => Ended(d)
      BY DEF Gives, Told, At, Ended
    <2> QED
      BY <2>1, StepOfCalls DEF EmailOf, Gives, Told, At
  <1>2. call'[c].request = call[c].request
    BY StepOfCalls
  <1>3. CASE /\ call'[c].given = call[c].given /\ call'[c].before = call[c].before
             /\ call'[c].pc = "idle" <=> call[c].pc = "idle"
    <2>1. call[c].before \subseteq Calls
      BY DEF IInv, Held
    <2>2. GivenTo(c)
      BY <1>2, <1>3 DEF CookieGiven
    <2> QED
      BY <1>1, <1>3, <2>1, <2>2 DEF GivenTo
  <1>4. CASE Call(c)
    <2>1. /\ call[c].pc = "idle" /\ call'[c].given \in Carried(c)
          /\ call'[c].before = {d \in Calls : Ended(d)}
      BY <1>4, CallMoves
    <2>2. call'[c].given \in Cookies(EmailOf(c))
      BY <1>2, <2>1 DEF Carried, At
    <2>3. CASE call'[c].given \in OldSessions /\ OwnerOf[call'[c].given] = EmailOf(c)
      BY <1>1, <2>3 DEF GivenTo
    <2>4. ASSUME NEW d \in Calls, call'[c].given = d, Told(d, {"login", "refresh"}),
                 EmailOf(d) = EmailOf(c)
          PROVE  GivenTo(c)'
      <3>1. Gives(d) /\ Ended(d)
        BY <2>4 DEF Gives, Told, At, Ended
      <3>2. d \in call'[c].before
        BY <2>1, <3>1
      <3> QED
        BY <1>1, <2>4, <3>1, <3>2 DEF GivenTo
    <2> QED
      BY <2>2, <2>3, <2>4 DEF Cookies
  <1> QED
    BY <1>3, <1>4, StepOfCalls

LEMMA NextToken == IInv /\ TokenFound /\ [Next]_vars => TokenFound'
  <1> SUFFICES ASSUME IInv, TokenFound, [Next]_vars PROVE TokenFound'
    OBVIOUS
  <1>1. call \in [Calls -> Handler] /\ token \in [Tokens -> Token \cup {NoRow}]
    BY DEF IInv, TypeOK
  <1>2. \A t \in Tokens : token[t] # NoRow => token'[t].email = token[t].email
    <2>1. CASE token' = token
      BY <2>1
    <2>2. ASSUME NEW c \in Calls, InsertToken(c)
          PROVE  \A t \in Tokens : token[t] # NoRow => token'[t] = token[t]
      <3>1. token[c] = NoRow
        BY <2>2 DEF InsertToken, At, IInv, RowsOfCalls, Told
      <3> QED
        BY <1>1, <2>2, <3>1 DEF InsertToken
    <2>3. ASSUME NEW r \in Tokens, NEW x, token' = [token EXCEPT ![r].state = x]
          PROVE  \A t \in Tokens : token[t] # NoRow => token'[t].email = token[t].email
      BY <1>1, <2>3 DEF Token
    <2>4. ASSUME NEW c \in Calls, CommitPassword(c)
          PROVE  \A t \in Tokens : token[t] # NoRow => token'[t].email = token[t].email
      <3>1. CASE DeleteSessions(c)
        BY <2>1, <3>1 DEF DeleteSessions
      <3>2. CASE RevokeSessions(c)
        <4>1. call[c].row \in Tokens
          BY <3>2 DEF RevokeSessions, At, IInv, Held
        <4> QED
          BY <2>3, <3>2, <4>1 DEF RevokeSessions
      <3> QED
        BY <2>4, <3>1, <3>2 DEF CommitPassword
    <2>5. ASSUME NEW t \in Tokens, ExpireToken(t)
          PROVE  \A u \in Tokens : token[u] # NoRow => token'[u].email = token[u].email
      BY <2>3, <2>5 DEF ExpireToken
    <2> QED
      BY <2>1, <2>2, <2>4, <2>5
         DEF Next, vars, Call, Fail, FindUser, FindEmail, InsertUser, CompleteUser, FindSession,
             InsertSession, Refresh, Logout, FindToken, LockUser, ExpireSession
  <1> SUFFICES ASSUME NEW c \in Calls, call'[c].request.op = "reset",
                      call'[c].pc \in {"found", "clearing", "done"}
               PROVE  token'[call'[c].row].email = EmailOf(c)'
    BY DEF TokenFound
  <1>3. call'[c].request = call[c].request /\ EmailOf(c)' = EmailOf(c)
    BY StepOfCalls DEF EmailOf
  <1>4. ASSUME NEW r \in Tokens, token[r] # NoRow, token[r].email = EmailOf(c), call'[c].row = r
        PROVE  token'[call'[c].row].email = EmailOf(c)'
    BY <1>2, <1>3, <1>4
  <1>5. CASE call[c].pc \in {"found", "clearing", "done"} /\ call'[c].row = call[c].row
    <2>1. call[c].row \in Tokens /\ token[call[c].row] # NoRow
      BY <1>3, <1>5 DEF IInv, Held, At
    <2> QED
      BY <1>3, <1>4, <1>5, <2>1 DEF TokenFound
  <1>6. CASE FindToken(c)
    <2>1. PICK t \in Tokens : /\ token[t] # NoRow /\ token[t].email = EmailOf(c)
                              /\ GoTo(c, "found", t)
      BY <1>6 DEF FindToken
    <2>2. call'[c].row = t
      BY <1>1, <2>1, GoToMoves DEF Running
    <2> QED
      BY <1>4, <2>1, <2>2
  <1>7. FindToken(c) \/ (call[c].pc \in {"found", "clearing", "done"} /\ call'[c].row = call[c].row)
    <2>1. CASE call'[c] = call[c]
      BY <2>1
    <2>2. CASE Call(c) \/ Fail(c)
      <3>1. Fail(c) => call'[c].pc = "failed"
        <4>1. call[c].row \in Sessions \cup Tokens \cup {NoRow}
          BY <1>1 DEF Handler
        <4> QED
          BY <1>1, <4>1, GoToMoves DEF Fail
      <3>2. Call(c) => call'[c].pc = "called"
        BY CallMoves
      <3> QED
        BY <2>2, <3>1, <3>2
    <2>3. CASE LockUser(c)
      <3> DEFINE seen == {s \in Sessions : session[s] # NoRow /\ session[s].email = EmailOf(c)}
                 h == [call[c] EXCEPT !.pc = "clearing", !.seen = seen]
      <3>1. call' = [call EXCEPT ![c] = h] /\ call[c].pc = "found"
        BY <2>3 DEF LockUser, At
      <3>2. call[c] \in Handler
        BY <1>1
      <3> HIDE DEF seen
      <3>3. h.row = call[c].row
        BY <3>2 DEF Handler
      <3> HIDE DEF h
      <3> QED
        BY <1>1, <3>1, <3>3
    <2>4. CASE CommitPassword(c)
      <3>1. PICK row \in Sessions \cup Tokens \cup {NoRow} :
               row = call[c].row /\ GoTo(c, "done", row)
        BY <1>1, <2>4 DEF CommitPassword, Handler
      <3>2. call'[c].row = call[c].row
        BY <1>1, <3>1, GoToMoves
      <3> QED
        BY <2>4, <3>2 DEF CommitPassword, DeleteSessions, RevokeSessions, At
    <2>5. ASSUME NEW d \in Calls, d # c, 
                 \/ Call(d) \/ Fail(d) \/ FindUser(d) \/ FindEmail(d) \/ InsertUser(d)
                 \/ CompleteUser(d) \/ InsertSession(d) \/ FindSession(d) \/ Refresh(d)
                 \/ Logout(d) \/ InsertToken(d) \/ FindToken(d) \/ LockUser(d) \/ CommitPassword(d)
          PROVE  call'[c] = call[c]
      <3>1. \/ \E pc, row : GoTo(d, pc, row)
            \/ LockUser(d) \/ Call(d)
        BY <2>5 DEF Fail, FindUser, FindEmail, InsertUser, CompleteUser, InsertSession,
           FindSession, Refresh, Logout, InsertToken, FindToken, CommitPassword
      <3> QED
        BY <1>1, <2>5, <3>1 DEF GoTo, LockUser, Call
    <2>6. call[c].request.op = "reset"
      BY <1>3
    <2>7. ~(\/ FindUser(c) \/ FindEmail(c) \/ InsertUser(c) \/ CompleteUser(c)
            \/ InsertSession(c) \/ FindSession(c) \/ Refresh(c) \/ Logout(c) \/ InsertToken(c))
      BY <2>6 DEF FindUser, FindEmail, InsertUser, CompleteUser, InsertSession, FindSession,
         Refresh, Logout, InsertToken, At, Registration
    <2> QED
      BY <2>1, <2>2, <2>3, <2>4, <2>5, <2>7 DEF Next, vars, ExpireSession, ExpireToken
  <1> QED
    BY <1>5, <1>6, <1>7

\* Requests carry what their users were given, and resets find rows of their users.
THEOREM InvarianceOfCarried == Spec => [](CookieGiven /\ TokenFound)
  <1>1. IInv /\ (CookieGiven /\ TokenFound) /\ [Next]_vars => (CookieGiven /\ TokenFound)'
    BY NextCookie, NextToken
  <1> QED
    BY <1>1, InitCarried, Invariance, PTL DEF Spec

\* However often a token is given again, the resets of a user that follow one another are
\* no more than the tokens he was mailed: each uses up a row of its own.
THEOREM ResetsBounded == Spec => []ResetsPerMail
  <1>1. ASSUME IInv, TokenFound PROVE ResetsPerMail
    <2> SUFFICES ASSUME NEW e \in Emails,
                        NEW C \in SUBSET {c \in Calls : Told(c, {"reset"}) /\ EmailOf(c) = e},
                        InTurn(C)
                 PROVE  Cardinality(C) <= Cardinality(Mailed(e))
      BY DEF ResetsPerMail
    <2> DEFINE rows == [c \in C |-> call[c].row]
    <2>1. \A c \in C : call[c].row \in Mailed(e)
      <3> SUFFICES ASSUME NEW c \in C PROVE call[c].row \in Mailed(e)
        OBVIOUS
      <3>1. c \in Calls /\ call[c].request.op = "reset" /\ call[c].pc = "done" /\ EmailOf(c) = e
        BY DEF Told, At
      <3>2. call[c].row \in Tokens /\ token[call[c].row] # NoRow
        BY <1>1, <3>1 DEF IInv, Held, At
      <3> QED
        BY <1>1, <3>1, <3>2 DEF TokenFound, Mailed
    <2>2. \A c, d \in C : call[c].row = call[d].row => c = d
      <3> SUFFICES ASSUME NEW c \in C, NEW d \in C, call[c].row = call[d].row, c # d
                   PROVE  FALSE
        OBVIOUS
      <3>1. /\ call[c].request.op = "reset" /\ call[c].pc = "done"
            /\ call[d].request.op = "reset" /\ call[d].pc = "done"
            /\ Told(c, {"reset"}) /\ Told(d, {"reset"})
        BY DEF Told, At
      <3>2. c \notin call[d].before /\ d \notin call[c].before
        BY <1>1, <3>1 DEF IInv, ResetsApart
      <3> QED
        BY <3>2 DEF InTurn
    <2>3. rows \in Injection(C, Mailed(e))
      BY <2>1, <2>2 DEF Injection, IsInjective
    <2>4. IsFiniteSet(Mailed(e))
      <3>1. IsFiniteSet(Tokens)
        BY AccountsAssumption, FS_Union DEF Tokens
      <3> QED
        BY <3>1, FS_Subset DEF Mailed
    <2> QED
      BY <2>3, <2>4, FS_Injection
  <1> QED
    BY <1>1, Invariance, InvarianceOfCarried, PTL

-----------------------------------------------------------------------------
(* Accounts implements Logins.                                             *)

\* What a handler has found, or has in its snapshot, is a row of his user that was given
\* out before, or was: no row comes back.
Found ==
    \A c \in Calls :
        /\ call[c].request.op \in {"refresh", "logout"} /\ call[c].pc \in {"found", "done"} =>
              /\ call[c].row \in GivenOut
              /\ session[call[c].row] # NoRow => session[call[c].row].email = EmailOf(c)
        /\ \A s \in call[c].seen :
              /\ s \in GivenOut
              /\ session[s] # NoRow => session[s].email = EmailOf(c)

\* What every step leaves of the rows that were given out.
RowsKept ==
    \A s \in GivenOut :
        /\ login'[s] = login[s]
        /\ session'[s] # NoRow => session[s] # NoRow /\ session'[s].email = session[s].email

LEMMA InitFound == Init => Found
  BY DEF Init, Found

\* A step of a call that has not ended keeps what the others have found.
LEMMA FoundStep ==
    ASSUME IInv, Found, NEW c \in Calls, Moves(c), ~Ended(c), RowsKept,
           call'[c].request.op \in {"refresh", "logout"} /\ call'[c].pc \in {"found", "done"} =>
              /\ call'[c].row \in GivenOut
              /\ session[call'[c].row] # NoRow =>
                    session[call'[c].row].email = EmailOf(c),
           \A s \in call'[c].seen : s \in GivenOut /\ (session[s] # NoRow =>
                                                         session[s].email = EmailOf(c))
    PROVE  Found'
  <1>1. \A d \in Calls : d # c => call'[d] = call[d]
    BY DEF Moves
  <1>2. \A d \in Calls : EmailOf(d)' = EmailOf(d)
    BY DEF Moves, EmailOf
  <1>3. GivenOut \subseteq GivenOut'
    BY <1>1 DEF GivenOut, Gives, Told, At, Ended
  <1>4. \A d \in Calls :
          /\ call'[d].request.op \in {"refresh", "logout"} /\ call'[d].pc \in {"found", "done"} =>
                /\ call'[d].row \in GivenOut
                /\ session[call'[d].row] # NoRow =>
                      session[call'[d].row].email = EmailOf(d)
          /\ \A s \in call'[d].seen :
                s \in GivenOut /\ (session[s] # NoRow => session[s].email = EmailOf(d))
    BY <1>1 DEF Found
  <1>5. ASSUME NEW d \in Calls, NEW s \in GivenOut,
               session[s] # NoRow => session[s].email = EmailOf(d)
        PROVE  s \in GivenOut' /\ (session'[s] # NoRow => session'[s].email = EmailOf(d)')
    BY <1>2, <1>3, <1>5 DEF RowsKept
  <1> QED
    BY <1>4, <1>5 DEF Found

\* The rows after each step.
LEMMA StepKeepsRows ==
    ASSUME IInv, Found, [Next]_vars
    PROVE  RowsKept
  <1> USE DEF RowsKept
  <1>1. /\ session \in [Sessions -> Session \cup {NoRow}] /\ login \in [Sessions -> Sessions]
        /\ GivenOut \subseteq Sessions
    BY GivenRows DEF IInv, TypeOK
  <1>2. CASE session' = session /\ login' = login
    BY <1>2
  <1>3. ASSUME NEW c \in Calls, InsertSession(c) \/ Refresh(c) \/ Logout(c)
        PROVE  RowsKept
    <2>1. c \notin GivenOut
      BY <1>3, GivenRows DEF InsertSession, Refresh, Logout, At, Ended
    <2>2. CASE InsertSession(c)
      BY <1>1, <2>1, <2>2 DEF InsertSession
    <2>3. CASE Refresh(c)
      BY <1>1, <2>1, <2>3 DEF Refresh
    <2>4. CASE Logout(c)
      BY <1>1, <2>4 DEF Logout
    <2> QED
      BY <1>3, <2>2, <2>3, <2>4
  <1>4. ASSUME NEW c \in Calls, CommitPassword(c)
        PROVE  RowsKept
    <2>1. login' = login
      BY <1>4 DEF CommitPassword
    <2>2. CASE DeleteSessions(c)
      BY <1>1, <2>1, <2>2 DEF DeleteSessions
    <2>3. CASE RevokeSessions(c)
      <3>1. session' = [s \in Sessions |-> IF s \in call[c].seen /\ session[s] # NoRow
                                             THEN [session[s] EXCEPT !.state = "revoked"]
                                             ELSE session[s]]
        BY <2>3 DEF RevokeSessions
      <3>2. \A s \in Sessions : session[s] # NoRow =>
               [session[s] EXCEPT !.state = "revoked"].email = session[s].email
        BY <1>1 DEF Session
      <3> QED
        BY <1>1, <2>1, <3>1, <3>2
    <2> QED
      BY <1>4, <2>2, <2>3 DEF CommitPassword
  <1>5. ASSUME NEW s \in Sessions, ExpireSession(s)
        PROVE  RowsKept
    BY <1>1, <1>5 DEF ExpireSession, Session
  <1> QED
    BY <1>2, <1>3, <1>4, <1>5
       DEF Next, vars, Call, Fail, FindUser, FindEmail, InsertUser, CompleteUser, FindSession,
           InsertToken, FindToken, LockUser, ExpireToken

LEMMA NextFound == IInv /\ Found /\ [Next]_vars => Found'
  <1> SUFFICES ASSUME IInv, Found, [Next]_vars PROVE Found'
    OBVIOUS
  <1>1. RowsKept
    BY StepKeepsRows
  <1>2. call \in [Calls -> Handler]
    BY DEF IInv, TypeOK
  <1>3. CASE call' = call
    <2>1. GivenOut' = GivenOut /\ \A d \in Calls : EmailOf(d)' = EmailOf(d)
      BY <1>3 DEF GivenOut, Gives, Told, At, EmailOf
    <2> QED
      BY <1>1, <1>3, <2>1 DEF Found, RowsKept
  <1>4. ASSUME NEW c \in Calls, NEW pc \in Running \cup {"done", "failed"},
               NEW row \in Sessions \cup Tokens \cup {NoRow}, GoTo(c, pc, row), ~Ended(c),
               call[c].request.op \in {"refresh", "logout"} /\ pc \in {"found", "done"} =>
                  row \in GivenOut /\ (session[row] # NoRow => session[row].email = EmailOf(c))
        PROVE  Found'
    <2>1. /\ Moves(c) /\ call'[c].pc = pc /\ call'[c].row = row /\ call'[c].seen = {}
          /\ call'[c].request = call[c].request
      BY <1>2, <1>4, GoToMoves DEF Moves
    <2> QED
      BY <1>1, <1>4, <2>1, FoundStep
  <1>5. ASSUME NEW c \in Calls, Call(c)
        PROVE  Found'
    <2>1. /\ Moves(c) /\ call[c].pc = "idle" /\ call'[c].pc = "called"
          /\ call'[c].seen = call[c].seen
      BY <1>5, CallMoves
    <2>2. ~Ended(c)
      BY <2>1 DEF Ended
    <2>3. \A s \in call[c].seen : s \in GivenOut /\ (session[s] # NoRow =>
                                                       session[s].email = EmailOf(c))
      BY DEF Found
    <2> QED
      BY <1>1, <2>1, <2>2, <2>3, FoundStep
  <1>6. ASSUME NEW c \in Calls, LockUser(c)
        PROVE  Found'
    <2> DEFINE seen == {s \in Sessions : session[s] # NoRow /\ session[s].email = EmailOf(c)}
               h == [call[c] EXCEPT !.pc = "clearing", !.seen = seen]
    <2>1. /\ call' = [call EXCEPT ![c] = h] /\ ~Ended(c)
          /\ call[c].request.op \notin {"refresh", "logout"}
      BY <1>6 DEF LockUser, At, Ended, NewPassword
    <2>2. seen \in SUBSET Sessions /\ \A s \in seen : s \in GivenOut /\ session[s].email = EmailOf(c)
      BY GivenRows
    <2> HIDE DEF seen
    <2>3. h \in Handler /\ h.request = call[c].request /\ h.seen = seen
      <3>1. call[c] \in Handler
        BY <1>2
      <3> QED
        BY <2>2, <3>1 DEF Handler, Running
    <2> HIDE DEF h
    <2>4. Moves(c) /\ call'[c] = h
      BY <1>2, <2>1, <2>3 DEF Moves
    <2> QED
      BY <1>1, <2>1, <2>2, <2>3, <2>4, FoundStep
  <1>7. ASSUME NEW c \in Calls, FindSession(c)
        PROVE  Found'
    <2>1. ~Ended(c) /\ "found" \in Running /\ "failed" \in {"done", "failed"}
      BY <1>7 DEF FindSession, At, Ended, Running
    <2>2. CASE GoTo(c, "failed", NoRow)
      BY <1>4, <2>1, <2>2
    <2>3. ASSUME NEW s \in Sessions, Live(s, EmailOf(c)), GoTo(c, "found", s)
          PROVE  Found'
      <3>1. s \in GivenOut /\ session[s].email = EmailOf(c)
        BY <2>3, GivenRows DEF Live
      <3> QED
        BY <1>4, <2>1, <2>3, <3>1
    <2> QED
      BY <1>7, <2>2, <2>3 DEF FindSession, Candidate
  <1>8. ASSUME NEW c \in Calls, Refresh(c) \/ Logout(c) \/ CommitPassword(c) \/ Fail(c)
        PROVE  Found'
    <2>1. ~Ended(c) /\ call[c].row \in Sessions \cup Tokens \cup {NoRow}
      BY <1>2, <1>8 DEF Refresh, Logout, CommitPassword, DeleteSessions, RevokeSessions, Fail, At,
         Ended, InFlight, Running, Handler
    <2>2. CASE Refresh(c) \/ Logout(c)
      <3>1. GoTo(c, "done", call[c].row) /\ call[c].pc = "found"
            /\ call[c].request.op \in {"refresh", "logout"}
        BY <2>2 DEF Refresh, Logout, At
      <3>2. call[c].row \in GivenOut /\ (session[call[c].row] # NoRow =>
                                           session[call[c].row].email = EmailOf(c))
        BY <3>1 DEF Found
      <3> QED
        BY <1>4, <2>1, <3>1, <3>2
    <2>3. CASE CommitPassword(c)
      <3>1. GoTo(c, "done", call[c].row) /\ call[c].request.op \notin {"refresh", "logout"}
        BY <2>3 DEF CommitPassword, DeleteSessions, RevokeSessions, At
      <3> QED
        BY <1>4, <2>1, <3>1
    <2>4. CASE Fail(c)
      BY <1>4, <2>1, <2>4 DEF Fail
    <2> QED
      BY <1>8, <2>2, <2>3, <2>4
  <1>9. ASSUME NEW c \in Calls,
               \/ FindUser(c) \/ FindEmail(c) \/ InsertUser(c) \/ CompleteUser(c)
               \/ InsertSession(c) \/ InsertToken(c) \/ FindToken(c)
        PROVE  Found'
    <2>1. ~Ended(c) /\ call[c].request.op \notin {"refresh", "logout"}
      BY <1>9 DEF FindUser, FindEmail, InsertUser, CompleteUser, InsertSession, InsertToken,
         FindToken, At, Ended, Registration
    <2>2. {"found", "inserted", "done", "failed"} \subseteq Running \cup {"done", "failed"}
      BY DEF Running
    <2>3. \/ \E pc \in {"found", "inserted", "done", "failed"} : GoTo(c, pc, NoRow)
          \/ \E t \in Tokens : GoTo(c, "found", t)
      BY <1>9 DEF FindUser, FindEmail, InsertUser, CompleteUser, InsertSession, InsertToken,
         FindToken
    <2> QED
      BY <1>4, <2>1, <2>2, <2>3
  <1>10. CASE \E s \in Sessions : ExpireSession(s)
    BY <1>3, <1>10 DEF ExpireSession
  <1>11. CASE \E t \in Tokens : ExpireToken(t)
    BY <1>3, <1>11 DEF ExpireToken
  <1>12. CASE UNCHANGED vars
    BY <1>3, <1>12 DEF vars
  <1> QED
    BY <1>5, <1>6, <1>7, <1>8, <1>9, <1>10, <1>11, <1>12 DEF Next

\* What Logins sees of a row.
KeyOf(rows, logins, s) ==
    [login |-> logins[s], user |-> rows[s].email, taken |-> rows[s].state = "live"]

HeldIn(rows, logins, s) == IF rows[s] = NoRow THEN NoRow ELSE KeyOf(rows, logins, s)

LEMMA RowHeld ==
    ASSUME IInv, NEW s \in Sessions, session[s] # NoRow
    PROVE  /\ heldBar[s] = KeyOf(session, login, s)
           /\ heldBar[s] \in [login: Sessions, user: Emails, taken: BOOLEAN]
           /\ heldBar[s] # NoRow
           /\ heldBar[s].login = login[s]
           /\ heldBar[s].user = session[s].email
           /\ heldBar[s].taken <=> session[s].state = "live"
  <1>1. login[s] \in Sessions /\ session[s] \in Session
    BY DEF IInv, TypeOK
  <1>2. heldBar[s] = KeyOf(session, login, s)
    BY DEF heldBar, KeyOf
  <1>3. KeyOf(session, login, s) \in [login: Sessions, user: Emails, taken: BOOLEAN]
    BY <1>1 DEF KeyOf, Session
  <1>4. KeyOf(session, login, s) # NoRow
    BY <1>3, NoKeyAssumption
  <1>5. /\ KeyOf(session, login, s).login = login[s]
        /\ KeyOf(session, login, s).user = session[s].email
        /\ KeyOf(session, login, s).taken <=> session[s].state = "live"
    BY DEF KeyOf
  <1> QED
    BY <1>2, <1>3, <1>4, <1>5

LEMMA HeldRow ==
    ASSUME NEW s \in Sessions, heldBar[s] # NoRow
    PROVE  session[s] # NoRow
  BY DEF heldBar

\* A row that stays as it was is held as it was.
LEMMA SameKey ==
    ASSUME NEW s \in Sessions, session'[s] = session[s],
           session[s] # NoRow => login'[s] = login[s]
    PROVE  HeldIn(session', login', s) = heldBar[s]
  BY DEF HeldIn, KeyOf, heldBar

LEMMA NewKey ==
    ASSUME NEW rows, NEW logins, NEW s, NEW e, rows[s] = NewSession(e), rows[s] # NoRow
    PROVE  HeldIn(rows, logins, s) = [login |-> logins[s], user |-> e, taken |-> TRUE]
  <1>1. rows[s].email = e /\ rows[s].state = "live"
    BY DEF NewSession
  <1>2. (rows[s].state = "live") = TRUE
    BY <1>1
  <1> QED
    BY <1>1, <1>2 DEF HeldIn, KeyOf

LEMMA WithTaken ==
    ASSUME NEW k, NEW S, NEW U, NEW B, k \in [login: S, user: U, taken: B], NEW b
    PROVE  [k EXCEPT !.taken = b] = [login |-> k.login, user |-> k.user, taken |-> b]
  OBVIOUS

\* A row that is no longer live keeps its login and its user.
LEMMA StaleKey ==
    ASSUME IInv, NEW s \in Sessions, session[s] # NoRow, NEW state \in {"expired", "revoked"},
           session'[s] = [session[s] EXCEPT !.state = state], login'[s] = login[s]
    PROVE  HeldIn(session', login', s) = [heldBar[s] EXCEPT !.taken = FALSE]
  <1>1. session[s] \in Session
    BY DEF IInv, TypeOK
  <1>2. session'[s] \in Session /\ session'[s].email = session[s].email /\ session'[s].state = state
    BY <1>1 DEF Session
  <1>3. (session'[s].state = "live") = FALSE /\ session'[s] # NoRow
    BY <1>2, AccountsAssumption
  <1>4. HeldIn(session', login', s) = [login |-> login[s], user |-> session[s].email, taken |-> FALSE]
    BY <1>2, <1>3 DEF HeldIn, KeyOf
  <1> DEFINE old == heldBar[s]
  <1>5. old \in [login: Sessions, user: Emails, taken: BOOLEAN]
    BY RowHeld
  <1>6. old.login = login[s] /\ old.user = session[s].email
    BY RowHeld
  <1> HIDE DEF old
  <1>7. [old EXCEPT !.taken = FALSE] = [login |-> old.login, user |-> old.user, taken |-> FALSE]
    BY <1>5, WithTaken
  <1>8. [old EXCEPT !.taken = FALSE] = [login |-> login[s], user |-> session[s].email, taken |-> FALSE]
    BY <1>6, <1>7
  <1> QED
    BY <1>4, <1>8 DEF old

\* What Logins sees of the cookies.
LEMMA GivenBarIs ==
    ASSUME IInv
    PROVE  /\ GivenOut = {k \in Sessions : givenBar[k] # NoRow}
           /\ \A k \in OldSessions : givenBar[k] = OwnerOf[k]
           /\ \A c \in Calls : Gives(c) => givenBar[c] = EmailOf(c)
           /\ \A c \in Calls : ~Gives(c) => givenBar[c] = NoRow
  <1>1. \A c \in Calls : c \in Sessions /\ c \notin OldSessions
    BY AccountsAssumption DEF Sessions
  <1>2. \A c \in Calls : EmailOf(c) \in Emails
    BY AccountsAssumption DEF IInv, TypeOK, Handler, Request, EmailOf
  <1>3. \A k \in OldSessions : k \in Sessions /\ OwnerOf[k] \in Emails
    BY AccountsAssumption DEF Sessions
  <1>4. /\ \A k \in OldSessions : givenBar[k] = OwnerOf[k]
        /\ \A c \in Calls : givenBar[c] = IF Gives(c) THEN EmailOf(c) ELSE NoRow
    BY <1>1, <1>3 DEF givenBar
  <1>5. \A k \in Sessions : k \in OldSessions \/ k \in Calls
    BY DEF Sessions
  <1>6. NoRow \notin Emails
    BY NoKeyAssumption
  <1> QED
    BY <1>1, <1>2, <1>3, <1>4, <1>5, <1>6 DEF GivenOut

\* A refresh or logout has a key of its user.
LEMMA KeyGiven ==
    ASSUME IInv, CookieGiven, NEW c \in Calls, call[c].request.op \in {"refresh", "logout"},
           call[c].pc # "idle"
    PROVE  Abstract!HasKey(c, EmailOf(c))
  <1>1. GivenTo(c)
    BY DEF CookieGiven
  <1>2. askedBar[c] = OldSessions \cup {d \in call[c].before : Gives(d)}
    BY DEF askedBar
  <1>3. call[c].before \subseteq Calls
    BY DEF IInv, Held
  <1>4. askedBar[c] # NoRow
    BY <1>2, <1>3, NoKeyAssumption DEF Sessions
  <1>5. \E k \in askedBar[c] : givenBar[k] = EmailOf(c)
    BY <1>1, <1>2, <1>3, GivenBarIs DEF GivenTo
  <1> QED
    BY <1>4, <1>5 DEF Abstract!HasKey

\* What Logins sees of a step of one handler besides the rows.
LEMMA CallSeen ==
    ASSUME IInv, Found, RowsKept, NEW c \in Calls, Moves(c), InFlight(c),
           call'[c].before = call[c].before, call'[c].pc # "idle"
    PROVE  /\ askedBar' = askedBar
           /\ ~Gives(c)' => givenBar' = givenBar
           /\ Gives(c)' => givenBar' = [givenBar EXCEPT ![c] = EmailOf(c)]
           /\ ~Told(c, {"logout"})' => endedBar' = endedBar
           /\ Told(c, {"logout"})' /\ call'[c].row \in GivenOut
                 => endedBar' = [endedBar EXCEPT ![c] = login[call'[c].row]]
           /\ endedBar[c] = NoRow
  <1>1. \A d \in Calls : d # c => call'[d] = call[d]
    BY DEF Moves
  <1>2. ~Ended(c) /\ call[c].pc # "idle"
    BY DEF InFlight, Running, Ended
  <1>3. \A d \in Calls : d # c => (Gives(d)' <=> Gives(d)) /\ (Told(d, {"logout"})' <=> Told(d, {"logout"}))
    BY <1>1 DEF Gives, Told, At
  <1>4. ~Gives(c) /\ ~Told(c, {"logout"})
    BY <1>2 DEF Gives, Told, At, Ended
  <1>5. askedBar' = askedBar
    <2>1. \A d \in Calls : call'[d].before = call[d].before /\ (call'[d].pc = "idle" <=> call[d].pc = "idle")
      BY <1>1, <1>2
    <2>2. \A d \in Calls : c \notin call[d].before /\ call[d].before \subseteq Calls
      BY <1>2 DEF IInv, Held
    <2>3. \A d \in Calls : {e \in call[d].before : Gives(e)'} = {e \in call[d].before : Gives(e)}
      BY <1>3, <2>2
    <2>4. \A d \in Calls : (IF call'[d].pc = "idle" THEN NoRow
                            ELSE OldSessions \cup {e \in call'[d].before : Gives(e)'})
                         = askedBar[d]
      BY <2>1, <2>3 DEF askedBar
    <2> QED
      BY <2>4 DEF askedBar
  <1>6. /\ ~Gives(c)' => givenBar' = givenBar
        /\ Gives(c)' => givenBar' = [givenBar EXCEPT ![c] = EmailOf(c)]
    <2> DEFINE new(k) == IF k \in OldSessions THEN OwnerOf[k]
                         ELSE IF Gives(k)' THEN EmailOf(k) ELSE NoRow
    <2>1. \A d \in Calls : EmailOf(d)' = EmailOf(d)
      BY <1>1 DEF Moves, EmailOf
    <2>2. c \in Sessions /\ c \notin OldSessions /\ \A k \in Sessions : k \in OldSessions \/ k \in Calls
      BY AccountsAssumption DEF Sessions
    <2>3. givenBar' = [k \in Sessions |-> new(k)]
      <3>1. \A k \in Sessions : (IF k \in OldSessions THEN OwnerOf[k]
                                 ELSE IF Gives(k)' THEN EmailOf(k)' ELSE NoRow) = new(k)
        BY <2>1, <2>2
      <3> QED
        BY <3>1 DEF givenBar
    <2>4. \A k \in Sessions : k # c => new(k) = givenBar[k]
      BY <1>3, <2>2 DEF givenBar
    <2>5. Gives(c)' => new(c) = EmailOf(c)
      BY <2>2
    <2>6. ~Gives(c)' => new(c) = givenBar[c]
      BY <1>4, <2>2 DEF givenBar
    <2>7. givenBar = [k \in Sessions |-> givenBar[k]]
      BY DEF givenBar
    <2> HIDE DEF new
    <2> QED
      BY <2>2, <2>3, <2>4, <2>5, <2>6, <2>7
  <1>7. \A d \in Calls : Told(d, {"logout"}) =>
           d # c /\ call'[d].row = call[d].row /\ login'[call[d].row] = login[call[d].row]
    BY <1>1, <1>4 DEF Found, RowsKept, Told, At
  <1> DEFINE newEnd(d) == IF Told(d, {"logout"})' THEN login'[call'[d].row] ELSE NoRow
  <1>8. endedBar' = [d \in Calls |-> newEnd(d)]
    BY DEF endedBar
  <1>9. /\ \A d \in Calls : d # c => newEnd(d) = endedBar[d]
        /\ ~Told(c, {"logout"})' => newEnd(c) = endedBar[c]
        /\ endedBar[c] = NoRow
    BY <1>3, <1>4, <1>7 DEF endedBar
  <1>10. Told(c, {"logout"})' /\ call'[c].row \in GivenOut => newEnd(c) = login[call'[c].row]
    BY DEF RowsKept
  <1>11. endedBar = [d \in Calls |-> endedBar[d]]
    BY DEF endedBar
  <1> HIDE DEF newEnd
  <1>12. ~Told(c, {"logout"})' => endedBar' = endedBar
    BY <1>8, <1>9, <1>11
  <1>13. Told(c, {"logout"})' /\ call'[c].row \in GivenOut
           => endedBar' = [endedBar EXCEPT ![c] = login[call'[c].row]]
    BY <1>8, <1>9, <1>10, <1>11
  <1> QED
    BY <1>5, <1>6, <1>9, <1>12, <1>13

\* A step that changes no row of a session and ends no call that is about one.
LEMMA StillSeen ==
    ASSUME IInv, Found, RowsKept, NEW c \in Calls, NEW pc \in Running \cup {"done", "failed"},
           NEW row \in Sessions \cup Tokens \cup {NoRow}, GoTo(c, pc, row), InFlight(c),
           pc = "done" => call[c].request.op \notin {"login", "refresh", "logout"},
           UNCHANGED <<session, login>>
    PROVE  UNCHANGED <<heldBar, givenBar, askedBar, endedBar>>
  <1>1. /\ Moves(c) /\ call'[c].pc = pc /\ call'[c].before = call[c].before
        /\ call'[c].request = call[c].request
    BY GoToMoves DEF IInv, TypeOK, Moves
  <1>2. call'[c].pc # "idle"
    BY <1>1 DEF Running
  <1>3. ~Gives(c)' /\ ~Told(c, {"logout"})'
    BY <1>1 DEF Gives, Told, At
  <1>4. UNCHANGED <<givenBar, askedBar, endedBar>>
    BY <1>1, <1>2, <1>3, CallSeen
  <1> QED
    BY <1>4 DEF heldBar

LEMMA QuietSeen ==
    ASSUME IInv, Found, RowsKept, NEW c \in Calls,
           \/ Fail(c) \/ FindUser(c) \/ FindEmail(c) \/ CompleteUser(c)
           \/ FindSession(c) \/ InsertToken(c) \/ FindToken(c)
    PROVE  UNCHANGED Abstract!vars
  <1>1. /\ call[c].row \in Sessions \cup Tokens \cup {NoRow} /\ UNCHANGED <<session, login>>
        /\ InFlight(c)
    BY DEF IInv, TypeOK, Handler, Fail, FindUser, FindEmail, CompleteUser, FindSession,
       InsertToken, FindToken, At, InFlight, Running
  <1>2. {"found", "done", "failed"} \subseteq Running \cup {"done", "failed"}
    BY DEF Running
  <1>3. UNCHANGED <<heldBar, givenBar, askedBar, endedBar>>
    <2>1. CASE FindSession(c)
      BY <1>1, <1>2, <2>1, StillSeen DEF FindSession
    <2>2. CASE FindToken(c)
      BY <1>1, <1>2, <2>2, StillSeen DEF FindToken
    <2>3. CASE FindUser(c)
      BY <1>1, <1>2, <2>3, StillSeen DEF FindUser, At
    <2>4. CASE FindEmail(c)
      BY <1>1, <1>2, <2>4, StillSeen DEF FindEmail
    <2>5. CASE Fail(c)
      BY <1>1, <1>2, <2>5, StillSeen DEF Fail
    <2>6. CASE CompleteUser(c) \/ InsertToken(c)
      <3>1. GoTo(c, "done", NoRow) /\ call[c].request.op \notin {"login", "refresh", "logout"}
        BY <2>6 DEF CompleteUser, InsertToken, At, Registration
      <3> QED
        BY <1>1, <1>2, <3>1, StillSeen
    <2> QED
      BY <2>1, <2>2, <2>3, <2>4, <2>5, <2>6
  <1>4. passwordBar' = passwordBar
    <2>1. CASE user' = user
      BY <2>1 DEF passwordBar
    <2>2. CASE CompleteUser(c)
      <3>1. Registered(EmailOf(c)) /\ user \in [Emails -> User \cup {NoRow}] /\ EmailOf(c) \in Emails
        <4>1. ~Ended(c)
          BY <1>1 DEF InFlight, Running, Ended
        <4> QED
          BY <2>2, <4>1, OwnRows DEF CompleteUser, IInv, TypeOK, Held
      <3>2. PICK yes : user' = [user EXCEPT ![EmailOf(c)].profile = yes]
        BY <2>2 DEF CompleteUser
      <3>3. user[EmailOf(c)] \in User
        BY <3>1 DEF Registered
      <3> DEFINE u == [user[EmailOf(c)] EXCEPT !.profile = yes]
      <3>4. user' = [user EXCEPT ![EmailOf(c)] = u] /\ u.password = user[EmailOf(c)].password
        BY <3>1, <3>2, <3>3 DEF User
      <3>5. user'[EmailOf(c)] # NoRow
        <4>1. GoTo(c, "done", NoRow) /\ call[c].request.op \in Registration
          BY <2>2 DEF CompleteUser, At
        <4>2. /\ call'[c].pc = "done" /\ call'[c].request = call[c].request
          BY <1>2, <4>1, GoToMoves DEF IInv, TypeOK, Moves
        <4>3. Told(c, Registration)' /\ EmailOf(c)' = EmailOf(c)
          BY <4>1, <4>2 DEF Told, At, EmailOf
        <4>4. IInv'
          BY <2>2, RegistrationSteps
        <4>5. Held(c)'
          BY <4>4 DEF IInv
        <4> QED
          BY <4>3, <4>5 DEF Held, Registered
      <3> HIDE DEF u
      <3>6. \A e \in Emails : (IF user'[e] = NoRow THEN NoRow ELSE user'[e].password) = passwordBar[e]
        <4> TAKE e \in Emails
        <4>1. CASE e = EmailOf(c)
          BY <3>1, <3>4, <3>5, <4>1 DEF passwordBar, Registered
        <4>2. CASE e # EmailOf(c)
          BY <3>1, <3>4, <4>2 DEF passwordBar
        <4> QED
          BY <4>1, <4>2
      <3> QED
        BY <3>6 DEF passwordBar
    <2> QED
      BY <2>1, <2>2 DEF Fail, FindUser, FindEmail, FindSession, InsertToken, FindToken
  <1> QED
    BY <1>3, <1>4 DEF Abstract!vars

LEMMA InsertUserSeen ==
    ASSUME IInv, Found, RowsKept, NEW c \in Calls, InsertUser(c)
    PROVE  Abstract!Next \/ UNCHANGED Abstract!vars
  <1>1. /\ InFlight(c) /\ ~Ended(c) /\ UNCHANGED <<session, login>>
        /\ call[c].request.op \in Registration
    BY DEF InsertUser, At, InFlight, Running, Ended
  <1>2. EmailOf(c) \in Emails /\ user \in [Emails -> User \cup {NoRow}]
    BY <1>1, OwnRows DEF IInv, TypeOK
  <1>3. {"inserted", "failed"} \subseteq Running \cup {"done", "failed"}
    BY DEF Running
  <1>4. CASE Registered(EmailOf(c))
    <2>1. GoTo(c, "failed", NoRow) /\ user' = user
      BY <1>4 DEF InsertUser
    <2>2. UNCHANGED <<heldBar, givenBar, askedBar, endedBar>>
      BY <1>1, <1>3, <2>1, StillSeen
    <2> QED
      BY <2>1, <2>2 DEF passwordBar, Abstract!vars
  <1>5. CASE ~Registered(EmailOf(c))
    <2> DEFINE u == [by |-> c, password |-> c, profile |-> FALSE]
    <2>1. GoTo(c, "inserted", NoRow) /\ user' = [user EXCEPT ![EmailOf(c)] = u]
      BY <1>5 DEF InsertUser
    <2>2. u \in User /\ u.password = c
      BY DEF User
    <2>3. UNCHANGED <<heldBar, givenBar, askedBar, endedBar>>
      BY <1>1, <1>3, <2>1, StillSeen
    <2> HIDE DEF u
    <2>4. passwordBar[EmailOf(c)] = NoRow
      BY <1>2, <1>5 DEF passwordBar, Registered
    <2>5. passwordBar' = [passwordBar EXCEPT ![EmailOf(c)] = c]
      <3>1. \A e \in Emails : (IF user'[e] = NoRow THEN NoRow ELSE user'[e].password)
                            = IF e = EmailOf(c) THEN c ELSE passwordBar[e]
        BY <1>2, <2>1, <2>2, AccountsAssumption DEF passwordBar
      <3> QED
        BY <3>1 DEF passwordBar
    <2>6. Abstract!Register(EmailOf(c), c)
      BY <2>3, <2>4, <2>5 DEF Abstract!Register
    <2> QED
      BY <1>2, <2>6 DEF Abstract!Next
  <1> QED
    BY <1>4, <1>5

\* The call takes note of what was given out before it.
LEMMA CallStepSeen ==
    ASSUME IInv, NEW c \in Calls, Call(c)
    PROVE  Abstract!Next
  <1>1. /\ Moves(c) /\ call[c].pc = "idle" /\ call'[c].pc = "called"
        /\ call'[c].before = {d \in Calls : Ended(d)}
    BY CallMoves
  <1>2. UNCHANGED <<user, session, login>>
    BY DEF Call
  <1>3. \A d \in Calls : /\ d # c => call'[d] = call[d]
                         /\ EmailOf(d)' = EmailOf(d)
    BY <1>1 DEF Moves, EmailOf
  <1>4. \A d \in Calls : (Gives(d)' <=> Gives(d)) /\ (Told(d, {"logout"})' <=> Told(d, {"logout"}))
    BY <1>1, <1>3 DEF Gives, Told, At
  <1>5. givenBar' = givenBar
    <2>1. \A k \in Sessions : k \notin OldSessions => k \in Calls
      BY DEF Sessions
    <2>2. \A k \in Sessions :
             (IF k \in OldSessions THEN OwnerOf[k]
              ELSE IF Gives(k)' THEN EmailOf(k)' ELSE NoRow) = givenBar[k]
      BY <1>3, <1>4, <2>1 DEF givenBar
    <2> QED
      BY <2>2 DEF givenBar
  <1>6. endedBar' = endedBar
    <2>1. \A d \in Calls : Told(d, {"logout"}) => call'[d] = call[d]
      BY <1>1, <1>3 DEF Told, At
    <2> QED
      BY <1>2, <1>4, <2>1 DEF endedBar
  <1>7. \A d \in Calls : d # c =>
           {e \in call'[d].before : Gives(e)'} = {e \in call[d].before : Gives(e)}
    BY <1>3, <1>4 DEF IInv, Held
  <1>8. {e \in call'[c].before : Gives(e)'} = {e \in Calls : Gives(e)}
    BY <1>1, <1>4 DEF Gives, Told, At, Ended
  <1>9. \A d \in Calls : (IF call'[d].pc = "idle" THEN NoRow
                          ELSE OldSessions \cup {e \in call'[d].before : Gives(e)'})
                       = IF d = c THEN GivenOut ELSE askedBar[d]
    BY <1>1, <1>3, <1>7, <1>8 DEF askedBar, GivenOut
  <1>10. askedBar' = [askedBar EXCEPT ![c] = GivenOut] /\ askedBar[c] = NoRow
    BY <1>1, <1>9 DEF askedBar
  <1>11. passwordBar' = passwordBar /\ heldBar' = heldBar
    BY <1>2 DEF passwordBar, heldBar
  <1>12. GivenOut = {k \in Sessions : givenBar[k] # NoRow}
    BY GivenBarIs
  <1>13. Abstract!Ask(c)
    BY <1>5, <1>6, <1>10, <1>11, <1>12 DEF Abstract!Ask
  <1> QED
    BY <1>13 DEF Abstract!Next

\* The insert of a login opens it under the name of its call.
LEMMA InsertSessionSeen ==
    ASSUME IInv, Found, RowsKept, NEW c \in Calls, InsertSession(c)
    PROVE  Abstract!Next
  <1>1. /\ InFlight(c) /\ ~Ended(c) /\ call[c].request.op = "login" /\ call[c].pc = "found"
        /\ session' = [session EXCEPT ![c] = NewSession(EmailOf(c))]
        /\ GoTo(c, "done", NoRow) /\ UNCHANGED <<user, login>>
    BY DEF InsertSession, At, InFlight, Running, Ended
  <1>2. /\ session[c] = NoRow /\ login[c] = c /\ c \in Sessions /\ EmailOf(c) \in Emails
        /\ NewSession(EmailOf(c)) # NoRow
    BY <1>1, OwnRows
  <1>3. session \in [Sessions -> Session \cup {NoRow}] /\ Held(c)
    BY DEF IInv, TypeOK
  <1>4. givenBar[c] = NoRow
    BY <1>1, GivenRows, GivenBarIs
  <1>5. passwordBar[EmailOf(c)] # NoRow
    <2>1. user[EmailOf(c)] # NoRow
      BY <1>1, <1>3 DEF Held, Registered, Registration
    <2>2. user[EmailOf(c)] \in User
      BY <1>2, <2>1 DEF IInv, TypeOK
    <2>3. user[EmailOf(c)].password # NoRow
      BY <2>2, NoKeyAssumption, AccountsAssumption DEF User
    <2> QED
      BY <1>2, <2>1, <2>3 DEF passwordBar
  <1>6. /\ Moves(c) /\ call'[c].pc = "done" /\ call'[c].before = call[c].before
        /\ call'[c].request = call[c].request
    BY <1>1, GoToMoves DEF IInv, TypeOK, Moves
  <1>7. Gives(c)' /\ ~Told(c, {"logout"})'
    BY <1>1, <1>6 DEF Gives, Told, At
  <1>8. /\ askedBar' = askedBar /\ givenBar' = [givenBar EXCEPT ![c] = EmailOf(c)]
        /\ endedBar' = endedBar
    BY <1>1, <1>6, <1>7, CallSeen
  <1> DEFINE key == [login |-> c, user |-> EmailOf(c), taken |-> TRUE]
  <1>9. heldBar' = [heldBar EXCEPT ![c] = key]
    <2>1. session'[c] = NewSession(EmailOf(c)) /\ \A s \in Sessions : s # c => session'[s] = session[s]
      BY <1>1, <1>2, <1>3
    <2>2. HeldIn(session', login', c) = key
      <3>1. session'[c] # NoRow /\ login'[c] = c
        BY <1>1, <1>2, <2>1
      <3>2. HeldIn(session', login', c)
               = [login |-> login'[c], user |-> EmailOf(c), taken |-> TRUE]
        BY <2>1, <3>1, NewKey
      <3> QED
        BY <3>1, <3>2
    <2>3. \A s \in Sessions : s # c => HeldIn(session', login', s) = heldBar[s]
      BY <1>1, <2>1, SameKey
    <2> HIDE DEF key
    <2>4. heldBar' = [s \in Sessions |-> HeldIn(session', login', s)]
      BY DEF heldBar, HeldIn, KeyOf
    <2>5. heldBar = [s \in Sessions |-> heldBar[s]]
      BY DEF heldBar
    <2> QED
      BY <1>2, <2>2, <2>3, <2>4, <2>5
  <1>10. passwordBar' = passwordBar
    BY <1>1 DEF passwordBar
  <1>11. Abstract!Open(c, EmailOf(c))
    BY <1>4, <1>5, <1>8, <1>9, <1>10 DEF Abstract!Open
  <1> QED
    BY <1>2, <1>11 DEF Abstract!Next

\* A refresh carries the login of its row on.
LEMMA RefreshSeen ==
    ASSUME IInv, Found, CookieGiven, RowsKept, NEW c \in Calls, Refresh(c)
    PROVE  Abstract!Next
  <1> DEFINE r == call[c].row
  <1>1. /\ InFlight(c) /\ ~Ended(c) /\ call[c].request.op = "refresh" /\ call[c].pc = "found"
        /\ session[r] # NoRow
        /\ session' = [session EXCEPT ![r] = NoRow, ![c] = NewSession(EmailOf(c))]
        /\ login' = [login EXCEPT ![c] = login[r]]
        /\ GoTo(c, "done", r) /\ UNCHANGED user
    BY DEF Refresh, At, InFlight, Running, Ended
  <1>2. /\ session[c] = NoRow /\ c \in Sessions /\ NewSession(EmailOf(c)) # NoRow
    BY <1>1, OwnRows
  <1>3. /\ session \in [Sessions -> Session \cup {NoRow}] /\ login \in [Sessions -> Sessions]
        /\ r \in Sessions \cup Tokens \cup {NoRow}
    BY DEF IInv, TypeOK, Handler
  <1>4. r \in GivenOut /\ r \in Sessions /\ session[r].email = EmailOf(c)
    BY <1>1, GivenRows DEF Found
  <1>5. givenBar[c] = NoRow /\ r # c
    BY <1>1, <1>2, GivenRows, GivenBarIs
  <1>6. /\ Moves(c) /\ call'[c].pc = "done" /\ call'[c].before = call[c].before
        /\ call'[c].request = call[c].request
    BY <1>1, <1>3, GoToMoves DEF IInv, TypeOK, Moves
  <1>7. Gives(c)' /\ ~Told(c, {"logout"})'
    BY <1>1, <1>6 DEF Gives, Told, At
  <1>8. /\ askedBar' = askedBar /\ givenBar' = [givenBar EXCEPT ![c] = EmailOf(c)]
        /\ endedBar' = endedBar
    BY <1>1, <1>6, <1>7, CallSeen
  <1>9. /\ heldBar[r] # NoRow /\ heldBar[r].user = EmailOf(c) /\ heldBar[r].login = login[r]
        /\ heldBar[r] \in [login: Sessions, user: Emails, taken: BOOLEAN]
    BY <1>1, <1>4, RowHeld
  <1>10. Abstract!HasKey(c, EmailOf(c))
    BY <1>1, KeyGiven
  <1> HIDE DEF r
  <1> DEFINE key == [login |-> login[r], user |-> EmailOf(c), taken |-> TRUE]
  <1>11. [heldBar[r] EXCEPT !.taken = TRUE] = key
    <2> DEFINE old == heldBar[r]
    <2>1. old \in [login: Sessions, user: Emails, taken: BOOLEAN]
      BY <1>9
    <2>2. old.login = login[r] /\ old.user = EmailOf(c)
      BY <1>9
    <2> HIDE DEF old
    <2>3. [old EXCEPT !.taken = TRUE] = [login |-> old.login, user |-> old.user, taken |-> TRUE]
      BY <2>1, WithTaken
    <2>4. [old EXCEPT !.taken = TRUE] = key
      BY <2>2, <2>3
    <2> QED
      BY <2>4 DEF old
  <1>12. /\ session'[c] = NewSession(EmailOf(c)) /\ session'[r] = NoRow
         /\ login'[c] = login[r]
         /\ \A s \in Sessions : s # c => login'[s] = login[s]
         /\ \A s \in Sessions : s # c /\ s # r => session'[s] = session[s]
    BY <1>1, <1>2, <1>3, <1>4, <1>5
  <1>13. heldBar' = [heldBar EXCEPT ![r] = NoRow, ![c] = key]
    <2>1. HeldIn(session', login', c) = key
      BY <1>2, <1>12, NewKey
    <2>2. HeldIn(session', login', r) = NoRow
      BY <1>12 DEF HeldIn
    <2>3. \A s \in Sessions : s # c /\ s # r => HeldIn(session', login', s) = heldBar[s]
      BY <1>12, SameKey
    <2> HIDE DEF key
    <2>4. heldBar' = [s \in Sessions |-> HeldIn(session', login', s)]
      BY DEF heldBar, HeldIn, KeyOf
    <2>5. heldBar = [s \in Sessions |-> heldBar[s]]
      BY DEF heldBar
    <2> QED
      BY <1>2, <1>4, <1>5, <2>1, <2>2, <2>3, <2>4, <2>5
  <1>14. passwordBar' = passwordBar
    BY <1>1 DEF passwordBar
  <1> HIDE DEF key
  <1>15. Abstract!Rotate(r, c)
    BY <1>5, <1>8, <1>9, <1>10, <1>11, <1>13, <1>14 DEF Abstract!Rotate
  <1> QED
    BY <1>4, <1>15 DEF Abstract!Next

\* A logout that is answered has deleted the key of a login.
LEMMA LogoutSeen ==
    ASSUME IInv, Found, CookieGiven, RowsKept, NEW c \in Calls, Logout(c)
    PROVE  Abstract!Next
  <1> DEFINE r == call[c].row
  <1>1. /\ InFlight(c) /\ ~Ended(c) /\ call[c].request.op = "logout" /\ call[c].pc = "found"
        /\ session[r] # NoRow
        /\ session' = [session EXCEPT ![r] = NoRow]
        /\ GoTo(c, "done", r) /\ UNCHANGED <<user, login>>
    BY DEF Logout, At, InFlight, Running, Ended
  <1>2. /\ session \in [Sessions -> Session \cup {NoRow}]
        /\ r \in Sessions \cup Tokens \cup {NoRow}
    BY DEF IInv, TypeOK, Handler
  <1>3. r \in GivenOut /\ r \in Sessions /\ session[r].email = EmailOf(c)
    BY <1>1, GivenRows DEF Found
  <1>4. /\ Moves(c) /\ call'[c].pc = "done" /\ call'[c].before = call[c].before
        /\ call'[c].request = call[c].request /\ call'[c].row = r
    BY <1>1, <1>2, GoToMoves DEF IInv, TypeOK, Moves
  <1>5. ~Gives(c)' /\ Told(c, {"logout"})'
    BY <1>1, <1>4 DEF Gives, Told, At
  <1>6. /\ askedBar' = askedBar /\ givenBar' = givenBar
        /\ endedBar' = [endedBar EXCEPT ![c] = login[r]] /\ endedBar[c] = NoRow
    BY <1>1, <1>3, <1>4, <1>5, CallSeen
  <1>7. heldBar[r] # NoRow /\ heldBar[r].user = EmailOf(c) /\ heldBar[r].login = login[r]
    BY <1>1, <1>3, RowHeld
  <1>8. Abstract!HasKey(c, EmailOf(c))
    BY <1>1, KeyGiven
  <1> HIDE DEF r
  <1>9. heldBar' = [heldBar EXCEPT ![r] = NoRow]
    <2>1. session'[r] = NoRow /\ \A s \in Sessions : s # r => session'[s] = session[s]
      BY <1>1, <1>2, <1>3
    <2>2. HeldIn(session', login', r) = NoRow
      BY <2>1 DEF HeldIn
    <2>3. \A s \in Sessions : s # r => HeldIn(session', login', s) = heldBar[s]
      BY <1>1, <2>1, SameKey
    <2>4. heldBar' = [s \in Sessions |-> HeldIn(session', login', s)]
      BY DEF heldBar, HeldIn, KeyOf
    <2>5. heldBar = [s \in Sessions |-> heldBar[s]]
      BY DEF heldBar
    <2> QED
      BY <1>3, <2>2, <2>3, <2>4, <2>5
  <1>10. passwordBar' = passwordBar
    BY <1>1 DEF passwordBar
  <1>11. Abstract!Close(r, c)
    BY <1>6, <1>7, <1>8, <1>9, <1>10 DEF Abstract!Close
  <1> QED
    BY <1>3, <1>11 DEF Abstract!Next

\* The snapshot of a transaction changes nothing that Logins sees.
LEMMA LockUserSeen ==
    ASSUME IInv, NEW c \in Calls, LockUser(c)
    PROVE  UNCHANGED Abstract!vars
  <1>1. UNCHANGED <<user, session, login>> /\ At(c, NewPassword, "found")
    BY DEF LockUser
  <1>2. \A d \in Calls : /\ call'[d].request = call[d].request /\ call'[d].row = call[d].row
                         /\ call'[d].before = call[d].before
                         /\ d # c => call'[d].pc = call[d].pc
                         /\ d = c => call[d].pc = "found" /\ call'[d].pc = "clearing"
    <2> DEFINE seen == {s \in Sessions : session[s] # NoRow /\ session[s].email = EmailOf(c)}
               h == [call[c] EXCEPT !.pc = "clearing", !.seen = seen]
    <2>1. call' = [call EXCEPT ![c] = h]
      BY DEF LockUser
    <2>2. call[c] \in Handler /\ call \in [Calls -> Handler]
      BY DEF IInv, TypeOK
    <2> HIDE DEF seen
    <2>3. /\ h.request = call[c].request /\ h.row = call[c].row /\ h.before = call[c].before
          /\ h.pc = "clearing"
      BY <2>2 DEF Handler
    <2> HIDE DEF h
    <2> QED
      BY <1>1, <2>1, <2>2, <2>3 DEF At
  <1>3. \A d \in Calls : /\ Gives(d)' <=> Gives(d)
                         /\ Told(d, {"logout"})' <=> Told(d, {"logout"})
                         /\ EmailOf(d)' = EmailOf(d)
    BY <1>2 DEF Gives, Told, At, EmailOf
  <1>4. givenBar' = givenBar
    <2>1. \A k \in Sessions : k \notin OldSessions => k \in Calls
      BY DEF Sessions
    <2>2. \A k \in Sessions :
             (IF k \in OldSessions THEN OwnerOf[k]
              ELSE IF Gives(k)' THEN EmailOf(k)' ELSE NoRow) = givenBar[k]
      BY <1>3, <2>1 DEF givenBar
    <2> QED
      BY <2>2 DEF givenBar
  <1>5. endedBar' = endedBar
    BY <1>1, <1>2, <1>3 DEF endedBar
  <1>6. askedBar' = askedBar
    <2>1. \A d \in Calls : {e \in call'[d].before : Gives(e)'} = {e \in call[d].before : Gives(e)}
      BY <1>2, <1>3 DEF IInv, Held
    <2>2. \A d \in Calls : (IF call'[d].pc = "idle" THEN NoRow
                            ELSE OldSessions \cup {e \in call'[d].before : Gives(e)'})
                         = askedBar[d]
      BY <1>2, <2>1 DEF askedBar
    <2> QED
      BY <2>2 DEF askedBar
  <1> QED
    BY <1>1, <1>4, <1>5, <1>6 DEF passwordBar, heldBar, Abstract!vars

\* A commit ends the keys of its snapshot, those that are still there, and what was given
\* out before it was asked for is among them.
LEMMA CommitSeen ==
    ASSUME IInv, Found, RowsKept, NEW c \in Calls, CommitPassword(c)
    PROVE  Abstract!Next
  <1> DEFINE e == EmailOf(c)
             keys == {s \in call[c].seen : session[s] # NoRow}
  <1>1. /\ InFlight(c) /\ ~Ended(c) /\ At(c, NewPassword, "clearing") /\ login' = login
        /\ GoTo(c, "done", call[c].row)
        /\ user' = [user EXCEPT ![e] = [user[e] EXCEPT !.password = c]]
    BY DEF CommitPassword, DeleteSessions, RevokeSessions, At, InFlight, Running, Ended, NewPassword
  <1>2. /\ session \in [Sessions -> Session \cup {NoRow}] /\ login \in [Sessions -> Sessions]
        /\ user \in [Emails -> User \cup {NoRow}]
        /\ call[c].row \in Sessions \cup Tokens \cup {NoRow} /\ call[c].seen \subseteq Sessions
        /\ Held(c) /\ e \in Emails
    BY <1>1, OwnRows DEF IInv, TypeOK, Handler
  <1>3. user[e] # NoRow /\ user[e] \in User
    BY <1>1, <1>2 DEF Held, At, NewPassword, Registration, Registered
  <1>4. /\ Moves(c) /\ call'[c].pc = "done" /\ call'[c].before = call[c].before
        /\ call'[c].request = call[c].request
    BY <1>1, <1>2, GoToMoves DEF IInv, TypeOK, Moves
  <1>5. ~Gives(c)' /\ ~Told(c, {"logout"})'
    BY <1>1, <1>4 DEF Gives, Told, At, NewPassword
  <1>6. UNCHANGED <<askedBar, givenBar, endedBar>>
    BY <1>1, <1>4, <1>5, CallSeen
  <1>7. passwordBar' = [passwordBar EXCEPT ![e] = c] /\ passwordBar[e] # NoRow
    <2> DEFINE u == [user[e] EXCEPT !.password = c]
    <2>1. u \in User /\ u.password = c
      BY <1>3 DEF User
    <2>2. user' = [user EXCEPT ![e] = u]
      BY <1>1
    <2> HIDE DEF u, e
    <2>3. \A f \in Emails : (IF user'[f] = NoRow THEN NoRow ELSE user'[f].password)
                          = IF f = e THEN c ELSE passwordBar[f]
      BY <1>2, <2>1, <2>2, AccountsAssumption DEF passwordBar
    <2>4. user[e].password # NoRow
      BY <1>3, NoKeyAssumption, AccountsAssumption DEF User
    <2> QED
      BY <1>2, <1>3, <2>3, <2>4 DEF passwordBar
  <1>8. /\ askedBar[c] = OldSessions \cup {d \in call[c].before : Gives(d)}
        /\ askedBar[c] # NoRow
    <2>1. askedBar[c] = OldSessions \cup {d \in call[c].before : Gives(d)}
      BY <1>1 DEF askedBar, At
    <2>2. call[c].before \subseteq Calls
      BY <1>2 DEF Held
    <2> QED
      BY <2>1, <2>2, NoKeyAssumption DEF Sessions
  <1>9. keys \subseteq Sessions /\ \A s \in keys : session[s] # NoRow /\ session[s].email = e
    BY <1>2 DEF Found
  <1>10. \A s \in Sessions : session[s] # NoRow /\ session[s].email = e /\ s \in askedBar[c]
            => s \in keys
    <2> SUFFICES ASSUME NEW s \in Sessions, session[s] # NoRow, session[s].email = e,
                        s \in askedBar[c]
                 PROVE  s \in call[c].seen
      OBVIOUS
    <2>1. s \in call[c].seen \/ s \in Calls \ call[c].before
      BY <1>1 DEF IInv, SnapshotTaken
    <2>2. s \notin Calls \ call[c].before
      BY <1>8, AccountsAssumption
    <2> QED
      BY <2>1, <2>2
  <1> HIDE DEF keys, e
  <1>11. Abstract!Ending(c, e, keys)
    <2>1. \A s \in keys : heldBar[s] # NoRow /\ heldBar[s].user = e
      BY <1>9, RowHeld
    <2>2. askedBar[c] \subseteq Sessions
      <3>1. call[c].before \subseteq Calls
        BY <1>2 DEF Held
      <3> QED
        BY <1>8, <3>1 DEF Sessions
    <2>3. \A s \in askedBar[c] : heldBar[s] # NoRow /\ heldBar[s].user = e => s \in keys
      BY <1>10, <2>2, HeldRow, RowHeld
    <2> QED
      BY <2>1, <2>3 DEF Abstract!Ending
  <1>12. heldBar' = [s \in Sessions |-> HeldIn(session', login', s)]
    BY DEF heldBar, HeldIn, KeyOf
  <1>13. CASE DeleteSessions(c)
    <2>1. session' = [s \in Sessions |-> IF s \in call[c].seen THEN NoRow ELSE session[s]]
      BY <1>13 DEF DeleteSessions
    <2>2. /\ \A s \in Sessions \ keys : session'[s] = session[s]
          /\ \A s \in keys : session'[s] = NoRow
      BY <1>9, <2>1 DEF keys
    <2>3. \A s \in keys : HeldIn(session', login', s) = NoRow
      BY <2>2 DEF HeldIn
    <2>4. \A s \in Sessions \ keys : HeldIn(session', login', s) = heldBar[s]
      BY <1>1, <2>2, SameKey
    <2>5. heldBar' = [s \in Sessions |-> IF s \in keys THEN NoRow ELSE heldBar[s]]
      BY <1>12, <2>3, <2>4
    <2>6. Abstract!SetPassword(c, e)
      BY <1>6, <1>7, <1>8, <1>9, <1>11, <2>5 DEF Abstract!SetPassword
    <2> QED
      BY <1>2, <2>6 DEF Abstract!Next
  <1>14. CASE RevokeSessions(c)
    <2>1. session' = [s \in Sessions |-> IF s \in call[c].seen /\ session[s] # NoRow
                                           THEN [session[s] EXCEPT !.state = "revoked"]
                                           ELSE session[s]]
      BY <1>14 DEF RevokeSessions
    <2>2. /\ \A s \in Sessions \ keys : session'[s] = session[s]
          /\ \A s \in keys : session'[s] = [session[s] EXCEPT !.state = "revoked"]
      BY <1>9, <2>1 DEF keys
    <2>3. ASSUME NEW s \in keys
          PROVE  HeldIn(session', login', s) = [heldBar[s] EXCEPT !.taken = FALSE]
      <3>1. session'[s] = [session[s] EXCEPT !.state = "revoked"] /\ login'[s] = login[s]
        BY <1>1, <2>2
      <3> QED
        BY <1>9, <3>1, StaleKey
    <2>4. \A s \in Sessions \ keys : HeldIn(session', login', s) = heldBar[s]
      BY <1>1, <2>2, SameKey
    <2>5. heldBar' = [s \in Sessions |-> IF s \in keys THEN [heldBar[s] EXCEPT !.taken = FALSE]
                                                       ELSE heldBar[s]]
      BY <1>12, <2>3, <2>4
    <2>6. Abstract!SetPassword(c, e)
      BY <1>6, <1>7, <1>8, <1>9, <1>11, <2>5 DEF Abstract!SetPassword
    <2> QED
      BY <1>2, <2>6 DEF Abstract!Next
  <1> QED
    BY <1>13, <1>14 DEF CommitPassword

\* A session that expires is a key.
LEMMA ExpireSessionSeen ==
    ASSUME IInv, NEW s \in Sessions, ExpireSession(s)
    PROVE  Abstract!Next
  <1> DEFINE row == [session[s] EXCEPT !.state = "expired"]
  <1>1. /\ session[s] # NoRow /\ session[s].state = "live"
        /\ session' = [session EXCEPT ![s] = row]
        /\ UNCHANGED <<user, call, login>>
    BY DEF ExpireSession
  <1>2. session \in [Sessions -> Session \cup {NoRow}]
    BY DEF IInv, TypeOK
  <1>3. heldBar[s] # NoRow /\ heldBar[s].taken
    BY <1>1, RowHeld
  <1>4. session'[s] = row /\ \A t \in Sessions : t # s => session'[t] = session[t]
    BY <1>1, <1>2
  <1> DEFINE key == [heldBar[s] EXCEPT !.taken = FALSE]
  <1>5. HeldIn(session', login', s) = key
    BY <1>1, <1>4, StaleKey
  <1>6. \A t \in Sessions : t # s => HeldIn(session', login', t) = heldBar[t]
    BY <1>1, <1>4, SameKey
  <1>7. heldBar' = [heldBar EXCEPT ![s] = key]
    <2> HIDE DEF key
    <2>1. heldBar' = [t \in Sessions |-> HeldIn(session', login', t)]
      BY DEF heldBar, HeldIn, KeyOf
    <2>2. heldBar = [t \in Sessions |-> heldBar[t]]
      BY DEF heldBar
    <2> QED
      BY <1>5, <1>6, <2>1, <2>2
  <1>8. UNCHANGED <<passwordBar, givenBar, askedBar, endedBar>>
    BY <1>1 DEF passwordBar, givenBar, askedBar, endedBar, Gives, Told, At, EmailOf
  <1>9. Abstract!Expire(s)
    BY <1>3, <1>7, <1>8 DEF Abstract!Expire
  <1> QED
    BY <1>9 DEF Abstract!Next

LEMMA NothingSeen ==
    ASSUME UNCHANGED <<user, session, call, login>>
    PROVE  UNCHANGED Abstract!vars
  BY DEF Abstract!vars, passwordBar, heldBar, givenBar, askedBar, endedBar, Gives, Told, At, EmailOf

LEMMA RefinesInit == Init => Abstract!Init
  <1> SUFFICES ASSUME Init PROVE Abstract!Init
    OBVIOUS
  <1>1. IInv
    BY InitIInv
  <1>2. \A c \in Calls : call[c].pc = "idle" /\ ~Told(c, {"logout"})
    BY DEF Init, Told, At
  <1>3. askedBar = [c \in Calls |-> NoRow] /\ endedBar = [c \in Calls |-> NoRow]
    BY <1>2 DEF askedBar, endedBar
  <1>4. ASSUME NEW s \in Sessions, session[s] # NoRow
        PROVE  /\ heldBar[s] \in [login: Sessions, user: Emails, taken: {TRUE}]
               /\ heldBar[s].login = s /\ givenBar[s] = heldBar[s].user
               /\ passwordBar[heldBar[s].user] # NoRow
    <2>1. /\ session[s] \in Session /\ s \in OldSessions /\ session[s].state = "live"
          /\ session[s].email = OwnerOf[s] /\ login[s] = s
          /\ Registered(session[s].email) /\ session[s].email \in Emails
      BY <1>4 DEF Init, Session
    <2>2. heldBar[s].login = s /\ heldBar[s].user = session[s].email
      BY <1>1, <1>4, <2>1, RowHeld
    <2>3. heldBar[s] \in [login: Sessions, user: Emails, taken: {TRUE}]
      <3>1. (session[s].state = "live") = TRUE
        BY <2>1
      <3> QED
        BY <1>4, <2>1, <3>1 DEF heldBar
    <2>4. passwordBar[session[s].email] # NoRow
      <3> DEFINE u == user[session[s].email]
      <3>1. u # NoRow
        BY <2>1 DEF Registered
      <3>2. u \in [by: {Earlier}, password: {Earlier}, profile: {FALSE}]
        <4>1. user \in [Emails -> [by: {Earlier}, password: {Earlier}, profile: {FALSE}] \cup {NoRow}]
          BY DEF Init
        <4> QED
          BY <2>1, <3>1, <4>1
      <3>3. u.password = Earlier /\ Earlier # NoRow
        BY <3>2, NoKeyAssumption
      <3> QED
        BY <2>1, <3>1, <3>3 DEF passwordBar
    <2>5. givenBar[s] = OwnerOf[s]
      BY <1>1, <2>1, GivenBarIs
    <2> QED
      BY <2>1, <2>2, <2>3, <2>4, <2>5
  <1>5. heldBar \in [Sessions -> [login: Sessions, user: Emails, taken: {TRUE}] \cup {NoRow}]
    <2>1. \A s \in Sessions : heldBar[s] \in [login: Sessions, user: Emails, taken: {TRUE}] \cup {NoRow}
      BY <1>4 DEF heldBar
    <2>2. heldBar = [s \in Sessions |-> heldBar[s]]
      BY DEF heldBar
    <2> HIDE DEF heldBar
    <2> QED
      BY <2>1, <2>2
  <1> QED
    BY <1>3, <1>4, <1>5, HeldRow DEF Abstract!Init

\* Every step is one of Logins or changes nothing that it sees.
LEMMA RefinesNext == IInv /\ Found /\ CookieGiven /\ [Next]_vars => [Abstract!Next]_(Abstract!vars)
  <1> SUFFICES ASSUME IInv, Found, CookieGiven, [Next]_vars
               PROVE  Abstract!Next \/ UNCHANGED Abstract!vars
    OBVIOUS
  <1>1. RowsKept
    BY StepKeepsRows
  <1>2. CASE UNCHANGED vars
    BY <1>2, NothingSeen DEF vars
  <1>3. ASSUME NEW c \in Calls, Call(c)
        PROVE  Abstract!Next
    BY <1>3, CallStepSeen
  <1>4. ASSUME NEW c \in Calls,
               \/ Fail(c) \/ FindUser(c) \/ FindEmail(c) \/ CompleteUser(c)
               \/ FindSession(c) \/ InsertToken(c) \/ FindToken(c)
        PROVE  UNCHANGED Abstract!vars
    BY <1>1, <1>4, QuietSeen
  <1>5. ASSUME NEW c \in Calls, InsertUser(c)
        PROVE  Abstract!Next \/ UNCHANGED Abstract!vars
    BY <1>1, <1>5, InsertUserSeen
  <1>6. ASSUME NEW c \in Calls, InsertSession(c)
        PROVE  Abstract!Next
    BY <1>1, <1>6, InsertSessionSeen
  <1>7. ASSUME NEW c \in Calls, Refresh(c)
        PROVE  Abstract!Next
    BY <1>1, <1>7, RefreshSeen
  <1>8. ASSUME NEW c \in Calls, Logout(c)
        PROVE  Abstract!Next
    BY <1>1, <1>8, LogoutSeen
  <1>9. ASSUME NEW c \in Calls, LockUser(c)
        PROVE  UNCHANGED Abstract!vars
    BY <1>9, LockUserSeen
  <1>10. ASSUME NEW c \in Calls, CommitPassword(c)
         PROVE  Abstract!Next
    BY <1>1, <1>10, CommitSeen
  <1>11. ASSUME NEW s \in Sessions, ExpireSession(s)
         PROVE  Abstract!Next
    BY <1>11, ExpireSessionSeen
  <1>12. ASSUME NEW t \in Tokens, ExpireToken(t)
         PROVE  UNCHANGED Abstract!vars
    BY <1>12, NothingSeen DEF ExpireToken
  <1> QED
    BY <1>2, <1>3, <1>4, <1>5, <1>6, <1>7, <1>8, <1>9, <1>10, <1>11, <1>12 DEF Next

\* Whatever calls race and fail, what the handlers of auth.service.ts do to sessions and
\* passwords is what Logins allows, with any number of users, calls and sessions of before.
THEOREM Refinement == Spec => ImplementsLogins
  <1>1. Init => Found
    BY InitFound
  <1>2. IInv /\ Found /\ [Next]_vars => Found'
    BY NextFound
  <1>3. Init => Abstract!Init
    BY RefinesInit
  <1>4. IInv /\ Found /\ CookieGiven /\ [Next]_vars => [Abstract!Next]_(Abstract!vars)
    BY RefinesNext
  <1> QED
    BY <1>1, <1>2, <1>3, <1>4, Invariance, InvarianceOfCarried, PTL
       DEF Spec, ImplementsLogins, Abstract!Spec

=============================================================================
