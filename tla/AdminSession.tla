---------------------------- MODULE AdminSession ----------------------------
(***************************************************************************)
(* The Administrator's password, sessions and recent verifications          *)
(* (internal/server/adminauth.go, internal/store/admin.go, adminChangePass- *)
(* word in pages.go).  Handlers run concurrently: the password hash is read *)
(* and compared, slowly, before the row of the session is written.          *)
(*                                                                          *)
(* A password is the number of changes before it.  The end of a session     *)
(* (seven days, twelve hours of rest, logout) and the ageing of a           *)
(* verification may happen at any time, with the one exception at Age.      *)
(* An expired session, which FindAdministratorSession no longer finds, is   *)
(* taken for one whose row is gone.                                         *)
(***************************************************************************)
EXTENDS Integers, FiniteSets

CONSTANTS
  Sessions,     \* tokens: each is drawn once
  Logins,       \* login requests
  Actions,      \* requests for actions that need authorization
  MaxPassword   \* bound: password changes

ASSUME SessionAssumption == MaxPassword \in Nat

VARIABLES
  password,    \* administrators.password_hash
  session,     \* rows of administrator_sessions
  used,        \* tokens drawn so far
  login,
  action

serverVars == <<password, session, used, login, action>>

Passwords == 0 .. MaxPassword
Ages == {"fresh", "ending", "over"}   \* more than 30 s left, at most 30 s, none
Levels == {"confirm", "password", "critical"}
idle == [step |-> "idle"]
Live == DOMAIN session

Action ==
  [step : {"idle"}]
    \cup [step : {"sent", "password"}, level : Levels, session : Sessions,
          told : Ages \cup {"nothing"}]
    \cup [step : {"mark"}, level : Levels, session : Sessions, typed : Passwords]
    \cup [step : {"run"}, level : Levels]

SessionTypeOK ==
  /\ password \in Passwords
  /\ Live \subseteq used /\ used \subseteq Sessions
  /\ \A s \in Live : session[s] \in [password : Passwords, age : Ages, overtaken : BOOLEAN]
  /\ login \in [Logins -> [step : {"idle"}]
       \cup [step : {"checked"}, password : Passwords, overtaken : BOOLEAN]]
  /\ action \in [Actions -> Action]

SessionInit ==
  /\ password = 0
  /\ \E s \in Sessions :
       /\ used = {s}
       /\ session = [t \in {s} |-> [password |-> 0, age |-> "fresh", overtaken |-> FALSE]]
  /\ login = [l \in Logins |-> idle]
  /\ action = [a \in Actions |-> idle]

-----------------------------------------------------------------------------
(* Login and logout *)

\* handleAdminLogin: the password is right.
LoginCheck(l) ==
  /\ login[l] = idle
  /\ login' = [login EXCEPT ![l] =
       [step |-> "checked", password |-> password, overtaken |-> FALSE]]
  /\ UNCHANGED <<password, session, used, action>>

With(s, row) == [t \in Live \cup {s} |-> IF t = s THEN row ELSE session[t]]

\* CreateAdministratorSession: the login counts as a verification.
LoginCreate(l, s) ==
  /\ login[l].step = "checked"
  /\ s \notin used
  /\ used' = used \cup {s}
  /\ session' = With(s, [password |-> login[l].password, age |-> "fresh",
                         overtaken |-> login[l].overtaken])
  /\ login' = [login EXCEPT ![l] = idle]
  /\ UNCHANGED <<password, action>>

Without(s) == [t \in Live \ {s} |-> session[t]]

\* adminLogout, or the session has expired.
End(s) ==
  /\ s \in Live
  /\ session' = Without(s)
  /\ UNCHANGED <<password, used, login, action>>

\* Time passes.  The last thirty seconds of a verification do not end while the browser
\* holds the answer of a time before them, or has sent a form on its account.
Age(s, held) ==
  /\ s \in Live
  /\ \/ session[s].age = "fresh" /\ session' = [session EXCEPT ![s].age = "ending"]
     \/ /\ session[s].age = "ending" /\ ~ held
        /\ ~ \E a \in Actions :
               action[a].step = "sent" /\ action[a].told = "fresh" /\ action[a].session = s
        /\ session' = [session EXCEPT ![s].age = "over"]
  /\ UNCHANGED <<password, used, login, action>>

-----------------------------------------------------------------------------
(* adminChangePassword *)

\* Mutant: the sessions stay.
ChangeKeepingSessions ==
  /\ password < MaxPassword
  /\ password' = password + 1
  /\ login' = [l \in Logins |-> IF login[l] = idle THEN idle
                                ELSE [login[l] EXCEPT !.overtaken = TRUE]]
  /\ UNCHANGED <<session, used, action>>

\* UpdateAdministratorPassword, one transaction.  It looks at nothing that the handler saw
\* before: the session may have ended since, the password changed since its comparison.
\* A login past its check is overtaken.
ChangePassword ==
  /\ password < MaxPassword
  /\ password' = password + 1
  /\ session' = [s \in {} |-> [password |-> 0]]
  /\ login' = [l \in Logins |-> IF login[l] = idle THEN idle
                                ELSE [login[l] EXCEPT !.overtaken = TRUE]]
  /\ UNCHANGED <<used, action>>

-----------------------------------------------------------------------------
(* Actions.  A request brings the token of its cookie, a password and a CSRF value; the *)
(* one whose CSRF value is not that of its token is refused and changes nothing.  A      *)
(* request without a password was sent because the browser was told of a verification.   *)

\* Where the handler goes once it is admitted.
Gate(level, s) ==
  IF level = "critical" \/ (level = "password" /\ session[s].age = "over")
  THEN "password" ELSE "run"

Running(a) == [step |-> "run", level |-> action[a].level]

Refuse(a) ==
  /\ action' = [action EXCEPT ![a] = idle]
  /\ UNCHANGED <<password, session, used, login>>

\* validCSRF: every session has a value of its own.
ValidCSRF(csrf, s) == csrf = s

\* requireAdmin: the row is there.  authorizeStepUp passes a recent verification,
\* authorizeCriticalAction never does.
Admit(a) ==
  /\ action[a].step = "sent"
  /\ IF action[a].session \in Live
     THEN /\ action' = [action EXCEPT ![a] =
               IF Gate(action[a].level, action[a].session) = "run" THEN Running(a)
               ELSE [action[a] EXCEPT !.step = "password"]]
          /\ UNCHANGED <<password, session, used, login>>
     ELSE Refuse(a)

\* administratorPasswordMatches: the form brings the password now in force, or another, or
\* none.
CheckPassword(a) ==
  /\ action[a].step = "password"
  /\ \/ Refuse(a)
     \/ /\ action[a].told = "nothing"
        /\ action' = [action EXCEPT ![a] = [step |-> "mark", level |-> action[a].level,
                                           session |-> action[a].session, typed |-> password]]
        /\ UNCHANGED <<password, session, used, login>>

\* Mutant: it does not matter whether the session still exists.
MarkAnyway(a) ==
  /\ action[a].step = "mark"
  /\ action' = [action EXCEPT ![a] = Running(a)]
  /\ session' = [s \in Live |-> IF s = action[a].session
                                THEN [session[s] EXCEPT !.age = "fresh"] ELSE session[s]]
  /\ UNCHANGED <<password, used, login>>

\* MarkAdministratorPasswordVerified: the row must be there.
Mark(a) ==
  /\ action[a].step = "mark"
  /\ IF action[a].session \in Live
     THEN /\ action' = [action EXCEPT ![a] = Running(a)]
          /\ session' = [session EXCEPT ![action[a].session].age = "fresh"]
          /\ UNCHANGED <<password, used, login>>
     ELSE Refuse(a)

\* The action itself.
Run(a) ==
  /\ action[a].step = "run"
  /\ action' = [action EXCEPT ![a] = idle]
  /\ UNCHANGED <<password, session, used, login>>

ActionStep(a) == Admit(a) \/ CheckPassword(a) \/ Mark(a) \/ Run(a)

-----------------------------------------------------------------------------
(* Properties *)

\* A change of password ends every session (docs/user-guide.md, "revokes every
\* Administrator session"), but for one case: a login that had compared the old
\* password when the change was committed still gets its session.
OldPasswordsEnd ==
  \A s \in Live : session[s].password = password \/ session[s].overtaken

\* "A successful change revokes every Administrator session and requires a new login":
\* without the exception.
ChangeEndsSessions == \A s \in Live : session[s].password = password

\* An irreversible action passes its gate only with the password in force at that
\* moment: a change between the comparison and the mark has deleted the row to mark
\* (authorizeCriticalAction, MarkAdministratorPasswordVerified).
CriticalNeedsPassword ==
  [][\A a \in Actions :
       action[a].step # "run" /\ action'[a].step = "run" /\ action[a].level = "critical"
         => action[a].step = "mark" /\ action[a].typed = password]_serverVars

\* A form that is submitted without a password, because the browser was told that the
\* last verification still holds, is not asked for one (the thirty seconds that
\* adminAuthContext keeps in hand).
NoSecondPrompt ==
  \A a \in Actions : action[a].step = "password" => action[a].told = "nothing"

\* Of the inductive invariant of AuthDialogProofs: tokens in use have been drawn; a login
\* past its check holds the password in force or is overtaken; so does an action past its
\* check whose session is still there; and what the browser was told holds on arrival.
TokensDrawn ==
  \A a \in Actions :
    action[a].step \in {"sent", "password", "mark"} => action[a].session \in used

LoginsCurrent ==
  \A l \in Logins :
    login[l].step = "checked" => login[l].password = password \/ login[l].overtaken

MarksCurrent ==
  \A a \in Actions :
    action[a].step = "mark" /\ action[a].session \in Live => action[a].typed = password

PromisesKept ==
  \A a \in Actions :
    action[a].step = "sent" /\ action[a].told # "nothing" =>
      /\ action[a].told = "fresh" /\ action[a].level = "password"
      /\ action[a].session \in Live => session[action[a].session].age # "over"

=============================================================================
