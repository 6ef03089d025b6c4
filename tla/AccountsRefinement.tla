-------------------------- MODULE AccountsRefinement --------------------------
(***************************************************************************)
(* Accounts implements Logins.                                             *)
(***************************************************************************)
EXTENDS Accounts

ASSUME NoKeyAssumption ==
    /\ NoRow \notin Emails \cup Sessions \cup {Earlier}
    /\ NoRow \notin [login: Sessions, user: Emails, taken: BOOLEAN]
    /\ \A keys \in SUBSET Sessions : keys # NoRow

passwordBar == [e \in Emails |-> IF user[e] = NoRow THEN NoRow ELSE user[e].password]

heldBar == [s \in Sessions |->
               IF session[s] = NoRow THEN NoRow
               ELSE [login |-> login[s], user |-> session[s].email,
                     taken |-> session[s].state = "live"]]

\* The calls that have given out a key of their own.
Gives(c) == Told(c, {"login", "refresh"})

givenBar == [k \in Sessions |-> IF k \in OldSessions THEN OwnerOf[k]
                                ELSE IF Gives(k) THEN EmailOf(k) ELSE NoRow]

askedBar == [c \in Calls |-> IF call[c].pc = "idle" THEN NoRow
                             ELSE OldSessions \cup {d \in call[c].before : Gives(d)}]

\* The login that a logout has ended: that of the row that it has found, which it keeps
\* as a row keeps its login, and not of the cookie that it was given.
endedBar == [c \in Calls |-> IF Told(c, {"logout"}) THEN login[call[c].row] ELSE NoRow]

Abstract == INSTANCE Logins
              WITH Users <- Emails, Keys <- Sessions, None <- NoRow,
                   password <- passwordBar, held <- heldBar, given <- givenBar,
                   asked <- askedBar, ended <- endedBar

\* Whatever calls race, fail and overlap, sessions and passwords are those of Logins: a
\* login has one session at a time and ended goes on no more, every logout that is
\* answered has ended a login of its user that no other has ended, though it need not be
\* the one of its cookie, and a new password ends at its commit whatever was given out
\* before it was asked for.
ImplementsLogins == Abstract!Spec

=============================================================================
