-------------------------------- MODULE Logins --------------------------------
(***************************************************************************)
(* What the accounts of users promise, without queries, rows, transactions *)
(* and snapshots.  A user registers once.  A login is a chain of keys, one *)
(* at a time: it is carried on with a new key in place of the last, or     *)
(* ends, and has then no key to go on with.  A key that was given out says *)
(* whose it is and not which login it is of: with any of his keys, be it   *)
(* held or not, a client carries on or ends some login of its user, which  *)
(* need not be the one that the key was made for.  So every logout ends    *)
(* one login, and an old key is good for as long as its user has a login.  *)
(* A new password takes effect together with the end of every key that was *)
(* given out before it was asked for.  Accounts implements it.             *)
(***************************************************************************)
CONSTANTS
    Users,
    Keys,           \* a login is named after its first key
    Calls,          \* requests, the keys they give out and the passwords they set
    None

VARIABLES
    password,       \* of each user: the call that set it, or None
    held,           \* of each key: its login, whose it is and whether it is taken, or None
    given,          \* of each key: whom it was given to, or None
    asked,          \* of each call: the keys given out when it began, or None
    ended           \* of each call: the login whose end its client was told of, or None

vars == <<password, held, given, asked, ended>>

\* Every held key is the first of its login, was given out, and its user is known.
Init ==
    /\ held \in [Keys -> [login: Keys, user: Users, taken: {TRUE}] \cup {None}]
    /\ \A k \in Keys : held[k] # None =>
          held[k].login = k /\ given[k] = held[k].user /\ password[held[k].user] # None
    /\ asked = [c \in Calls |-> None]
    /\ ended = [c \in Calls |-> None]

Ask(c) ==
    /\ asked[c] = None
    /\ asked' = [asked EXCEPT ![c] = {k \in Keys : given[k] # None}]
    /\ UNCHANGED <<password, held, given, ended>>

Register(u, c) ==
    /\ password[u] = None
    /\ password' = [password EXCEPT ![u] = c]
    /\ UNCHANGED <<held, given, asked, ended>>

Open(c, u) ==
    /\ given[c] = None /\ password[u] # None
    /\ given' = [given EXCEPT ![c] = u]
    /\ held' = [held EXCEPT ![c] = [login |-> c, user |-> u, taken |-> TRUE]]
    /\ UNCHANGED <<password, asked, ended>>

\* The client had some key of the user when he called.
HasKey(c, u) == asked[c] # None /\ \E k \in asked[c] : given[k] = u

\* Also a key that is no longer taken may be replaced, by a call that began in time.
Rotate(k, c) ==
    /\ held[k] # None /\ given[c] = None
    /\ HasKey(c, held[k].user)
    /\ given' = [given EXCEPT ![c] = held[k].user]
    /\ held' = [held EXCEPT ![k] = None, ![c] = [held[k] EXCEPT !.taken = TRUE]]
    /\ UNCHANGED <<password, asked, ended>>

Close(k, c) ==
    /\ held[k] # None /\ ended[c] = None
    /\ HasKey(c, held[k].user)
    /\ ended' = [ended EXCEPT ![c] = held[k].login]
    /\ held' = [held EXCEPT ![k] = None]
    /\ UNCHANGED <<password, given, asked>>

Expire(k) ==
    /\ held[k] # None /\ held[k].taken
    /\ held' = [held EXCEPT ![k].taken = FALSE]
    /\ UNCHANGED <<password, given, asked, ended>>

\* The keys of a user that end with his old password: all that he held when the new one
\* was asked for, and none of anybody else.
Ending(c, u, keys) ==
    /\ \A k \in keys : held[k] # None /\ held[k].user = u
    /\ \A k \in asked[c] : held[k] # None /\ held[k].user = u => k \in keys

SetPassword(c, u) ==
    /\ asked[c] # None /\ password[u] # None
    /\ password' = [password EXCEPT ![u] = c]
    /\ \E keys \in SUBSET Keys :
          /\ Ending(c, u, keys)
          /\ \/ held' = [k \in Keys |-> IF k \in keys THEN None ELSE held[k]]
             \/ held' = [k \in Keys |-> IF k \in keys THEN [held[k] EXCEPT !.taken = FALSE]
                                                      ELSE held[k]]
    /\ UNCHANGED <<given, asked, ended>>

Next ==
    \/ \E c \in Calls : Ask(c)
    \/ \E c \in Calls, u \in Users : Register(u, c) \/ Open(c, u) \/ SetPassword(c, u)
    \/ \E k \in Keys, c \in Calls : Rotate(k, c) \/ Close(k, c)
    \/ \E k \in Keys : Expire(k)

Spec == Init /\ [][Next]_vars

=============================================================================
