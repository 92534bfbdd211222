-------------------------- MODULE AuthDialogProofs --------------------------
(***************************************************************************)
(* Proofs about AuthDialog and AdminSession for every number of sessions,   *)
(* logins, requests, password changes and openings of the dialog.           *)
(***************************************************************************)
EXTENDS AuthDialog, TLAPS

LEMMA Initially == Init => IInv
<1> SUFFICES ASSUME Init PROVE IInv
  OBVIOUS
<1> USE DEF Init, SessionInit, idle, Nothing, Live
<1>1. PICK s \in Sessions : /\ used = {s}
                            /\ session = [t \in {s} |-> [password |-> 0, age |-> "fresh",
                                                         overtaken |-> FALSE]]
  OBVIOUS
<1>2. SessionTypeOK
  BY <1>1, SessionAssumption DEF SessionTypeOK, Passwords, Ages, Action
<1>3. OldPasswordsEnd /\ NoSecondPrompt
  BY <1>1 DEF OldPasswordsEnd, NoSecondPrompt
<1>4. TokensDrawn /\ LoginsCurrent /\ MarksCurrent /\ PromisesKept
  BY DEF TokensDrawn, LoginsCurrent, MarksCurrent, PromisesKept
<1>5. PageTypeOK
  BY <1>1, DialogAssumption DEF PageTypeOK, Openings
<1>6. ContextKept /\ Undecided /\ ConfirmedOnce /\ OpenDialogAnswers
  BY DEF ContextKept, Undecided, ConfirmedOnce, OpenDialogAnswers, IsOpen
<1> QED BY <1>2, <1>3, <1>4, <1>5, <1>6 DEF IInv, ServerInv, PageInv

-----------------------------------------------------------------------------
(* The server *)

LEMMA ServerStutters == ServerInv /\ UNCHANGED serverVars => ServerInv'
BY DEF serverVars, ServerInv, SessionTypeOK, OldPasswordsEnd, NoSecondPrompt, TokensDrawn,
       LoginsCurrent, MarksCurrent, PromisesKept, Live

\* A login moves, and nothing else does.
LEMMA LoginCheckStep == ASSUME ServerInv, NEW l \in Logins, LoginCheck(l) PROVE ServerInv'
<1> USE DEF ServerInv, LoginCheck, idle
<1>1. SessionTypeOK'
  BY DEF SessionTypeOK, Live
<1>2. LoginsCurrent'
  BY DEF LoginsCurrent, SessionTypeOK
<1>3. OldPasswordsEnd' /\ NoSecondPrompt' /\ TokensDrawn' /\ MarksCurrent' /\ PromisesKept'
  BY DEF OldPasswordsEnd, NoSecondPrompt, TokensDrawn, MarksCurrent, PromisesKept, Live
<1> QED BY <1>1, <1>2, <1>3

\* The token of a new session was drawn for it: no request has brought it yet.
LEMMA LoginCreateStep ==
  ASSUME ServerInv, NEW l \in Logins, NEW s \in Sessions, LoginCreate(l, s)
  PROVE  ServerInv' /\ Live' = Live \cup {s} /\ \A t \in Live : session'[t] = session[t]
<1> USE DEF ServerInv
<1> DEFINE row == [password |-> login[l].password, age |-> "fresh",
                   overtaken |-> login[l].overtaken]
<1>1. /\ s \notin Live /\ s \notin used /\ used' = used \cup {s}
      /\ UNCHANGED <<password, action>>
  BY DEF LoginCreate, SessionTypeOK
<1>2. Live' = Live \cup {s} /\ session'[s] = row /\ \A t \in Live : session'[t] = session[t]
  BY <1>1 DEF LoginCreate, With, Live
<1>3. row \in [password : Passwords, age : Ages, overtaken : BOOLEAN]
  BY DEF LoginCreate, SessionTypeOK, Ages
<1>4. login' = [login EXCEPT ![l] = idle]
  BY DEF LoginCreate
<1>5. SessionTypeOK'
  BY <1>1, <1>2, <1>3, <1>4 DEF SessionTypeOK, idle
<1>6. OldPasswordsEnd'
  BY <1>1, <1>2 DEF OldPasswordsEnd, LoginsCurrent, LoginCreate
<1>7. LoginsCurrent'
  BY <1>1, <1>4 DEF LoginsCurrent, SessionTypeOK, idle
<1>8. NoSecondPrompt' /\ TokensDrawn'
  BY <1>1 DEF NoSecondPrompt, TokensDrawn
<1>9. MarksCurrent' /\ PromisesKept'
  BY <1>1, <1>2 DEF MarksCurrent, PromisesKept, TokensDrawn
<1> QED BY <1>2, <1>5, <1>6, <1>7, <1>8, <1>9

LEMMA EndStep ==
  ASSUME ServerInv, NEW s \in Sessions, End(s)
  PROVE  ServerInv' /\ Live' \subseteq Live /\ \A t \in Live' : session'[t] = session[t]
<1> USE DEF ServerInv
<1>1. Live' \subseteq Live /\ \A t \in Live' : session'[t] = session[t]
  BY DEF End, Without, Live
<1>2. UNCHANGED <<password, used, login, action>>
  BY DEF End
<1> QED BY <1>1, <1>2 DEF SessionTypeOK, OldPasswordsEnd, NoSecondPrompt, TokensDrawn,
                          LoginsCurrent, MarksCurrent, PromisesKept

\* The age of one session changes, and if it is over no promise was made on it.
LEMMA AgesStep ==
  ASSUME ServerInv, NEW s \in Live, NEW age \in Ages,
         session' = [session EXCEPT ![s].age = age],
         UNCHANGED <<password, used, login>>,
         SessionTypeOK', NoSecondPrompt', TokensDrawn', MarksCurrent', PromisesKept'
  PROVE  ServerInv'
<1> USE DEF ServerInv
<1>1. Live' = Live /\ \A t \in Live : /\ session'[t].password = session[t].password
                                      /\ session'[t].overtaken = session[t].overtaken
  BY DEF Live, SessionTypeOK
<1> QED BY <1>1 DEF OldPasswordsEnd, LoginsCurrent

LEMMA AgedRow ==
  ASSUME SessionTypeOK, NEW s \in Live, NEW age \in Ages,
         session' = [session EXCEPT ![s].age = age]
  PROVE  /\ Live' = Live
         /\ \A t \in Live : session'[t] \in [password : Passwords, age : Ages, overtaken : BOOLEAN]
         /\ session'[s].age = age
         /\ \A t \in Live : t # s => session'[t] = session[t]
BY DEF SessionTypeOK, Live

LEMMA AgeStep ==
  ASSUME ServerInv, NEW s \in Sessions, NEW held \in BOOLEAN, Age(s, held)
  PROVE  /\ ServerInv' /\ Live' = Live /\ UNCHANGED used
         /\ \A t \in Live : t # s => session'[t] = session[t]
         /\ held => session'[s].age # "over"
<1> USE DEF ServerInv
<1>1. PICK age \in Ages :
        /\ s \in Live /\ session' = [session EXCEPT ![s].age = age]
        /\ age = "over" => ~ held /\ \A a \in Actions :
             ~ (action[a].step = "sent" /\ action[a].told = "fresh" /\ action[a].session = s)
  BY DEF Age, Ages
<1>2. UNCHANGED <<password, used, login, action>>
  BY DEF Age
<1>3. /\ Live' = Live
      /\ \A t \in Live : session'[t] \in [password : Passwords, age : Ages, overtaken : BOOLEAN]
      /\ session'[s].age = age
      /\ \A t \in Live : t # s => session'[t] = session[t]
  BY <1>1, AgedRow
<1>4. SessionTypeOK'
  BY <1>2, <1>3 DEF SessionTypeOK
<1>5. NoSecondPrompt' /\ TokensDrawn' /\ MarksCurrent'
  BY <1>2, <1>3 DEF NoSecondPrompt, TokensDrawn, MarksCurrent
<1>6. PromisesKept'
  BY <1>1, <1>2, <1>3 DEF PromisesKept
<1>7. ServerInv'
  BY <1>1, <1>2, <1>4, <1>5, <1>6, AgesStep
<1> QED BY <1>1, <1>2, <1>3, <1>7

\* Every session ends; a login past its check is overtaken.
LEMMA ChangePasswordStep ==
  ASSUME ServerInv, ChangePassword PROVE ServerInv' /\ Live' = {} /\ UNCHANGED used
<1> USE DEF ServerInv
<1>1. Live' = {} /\ password' = password + 1 /\ UNCHANGED <<used, action>>
  BY DEF ChangePassword, Live
<1>2. \A l \in Logins :
        \/ login[l] = idle /\ login'[l] = idle
        \/ /\ login[l].step = "checked" /\ login'[l].step = "checked"
           /\ login'[l].overtaken /\ login'[l].password = login[l].password
  BY DEF ChangePassword, SessionTypeOK, idle
<1>3. SessionTypeOK'
  <2>1. password' \in Passwords
    BY SessionAssumption DEF ChangePassword, SessionTypeOK, Passwords
  <2>2. login' \in [Logins -> [step : {"idle"}]
           \cup [step : {"checked"}, password : Passwords, overtaken : BOOLEAN]]
    BY DEF ChangePassword, SessionTypeOK, idle
  <2> QED BY <1>1, <2>1, <2>2 DEF SessionTypeOK
<1>4. LoginsCurrent'
  BY <1>2 DEF LoginsCurrent, idle
<1>5. OldPasswordsEnd' /\ NoSecondPrompt' /\ TokensDrawn' /\ MarksCurrent' /\ PromisesKept'
  BY <1>1 DEF OldPasswordsEnd, NoSecondPrompt, TokensDrawn, MarksCurrent, PromisesKept
<1> QED BY <1>1, <1>3, <1>4, <1>5

-----------------------------------------------------------------------------
(* Requests for actions *)

\* One request moves to r, which meets what is asked of every request.
LEMMA RequestMoves ==
  ASSUME ServerInv, NEW a \in Actions, NEW r \in Action,
         action' = [action EXCEPT ![a] = r],
         UNCHANGED <<password, session, used, login>>,
         r.step = "password" => r.told = "nothing",
         r.step \in {"sent", "password", "mark"} => r.session \in used,
         r.step = "mark" => r.typed = password,
         r.step = "sent" /\ r.told # "nothing" =>
           /\ r.told = "fresh" /\ r.level = "password"
           /\ r.session \in Live => session[r.session].age # "over"
  PROVE  ServerInv'
<1> USE DEF ServerInv
<1>1. action'[a] = r /\ \A b \in Actions : b # a => action'[b] = action[b]
  BY DEF SessionTypeOK
<1>2. SessionTypeOK'
  BY DEF SessionTypeOK, Live
<1>3. OldPasswordsEnd' /\ LoginsCurrent'
  BY DEF OldPasswordsEnd, LoginsCurrent, Live
<1>4. NoSecondPrompt' /\ TokensDrawn'
  BY <1>1 DEF NoSecondPrompt, TokensDrawn
<1>5. MarksCurrent' /\ PromisesKept'
  BY <1>1 DEF MarksCurrent, PromisesKept, Live
<1> QED BY <1>2, <1>3, <1>4, <1>5

LEMMA RefuseStep == ASSUME ServerInv, NEW a \in Actions, Refuse(a) PROVE ServerInv'
<1>1. idle \in Action
  BY DEF idle, Action
<1> QED BY <1>1, RequestMoves DEF Refuse, idle

LEMMA RunningRequest ==
  ASSUME ServerInv, NEW a \in Actions, action[a].step \in {"sent", "mark"}
  PROVE  Running(a) \in Action
BY DEF ServerInv, SessionTypeOK, Running, Action

LEMMA AdmitStep == ASSUME ServerInv, NEW a \in Actions, Admit(a) PROVE ServerInv'
<1> DEFINE s == action[a].session
           run == Gate(action[a].level, s) = "run"
           r == IF run THEN Running(a) ELSE [action[a] EXCEPT !.step = "password"]
<1>1. CASE s \notin Live
  BY <1>1, RefuseStep DEF Admit
<1>2. CASE s \in Live
  <2>1. /\ action' = [action EXCEPT ![a] = r] /\ UNCHANGED <<password, session, used, login>>
        /\ action[a].step = "sent"
    BY <1>2 DEF Admit
  <2>2. /\ action[a].level \in Levels /\ s \in Sessions /\ action[a].told \in Ages \cup {"nothing"}
        /\ action[a] = [step |-> "sent", level |-> action[a].level, session |-> s,
                        told |-> action[a].told]
    BY <2>1 DEF ServerInv, SessionTypeOK, Action
  <2>3. CASE run
    BY <2>1, <2>3, RunningRequest, RequestMoves DEF Running
  <2>4. CASE ~ run
    <3>1. r = [step |-> "password", level |-> action[a].level, session |-> s,
               told |-> action[a].told]
      BY <2>2, <2>4
    <3>2. r \in Action
      BY <2>2, <3>1 DEF Action
    <3>3. action[a].told = "nothing"
      BY <1>2, <2>1, <2>4 DEF Gate, ServerInv, PromisesKept
    <3>4. s \in used
      BY <2>1 DEF ServerInv, TokensDrawn
    <3> QED BY <2>1, <3>1, <3>2, <3>3, <3>4, RequestMoves
  <2> QED BY <2>3, <2>4
<1> QED BY <1>1, <1>2

LEMMA CheckPasswordStep == ASSUME ServerInv, NEW a \in Actions, CheckPassword(a) PROVE ServerInv'
<1> DEFINE r == [step |-> "mark", level |-> action[a].level,
                 session |-> action[a].session, typed |-> password]
<1>1. CASE Refuse(a)
  BY <1>1, RefuseStep
<1>2. CASE action' = [action EXCEPT ![a] = r] /\ UNCHANGED <<password, session, used, login>>
  <2>1. r \in Action
    BY DEF CheckPassword, ServerInv, SessionTypeOK, Action
  <2>2. action[a].session \in used
    BY DEF CheckPassword, ServerInv, TokensDrawn
  <2> QED BY <1>2, <2>1, <2>2, RequestMoves
<1> QED BY <1>1, <1>2 DEF CheckPassword

\* A verification is recorded for a session that is there.
LEMMA VerificationMarked ==
  ASSUME ServerInv, NEW s \in Live, session' = [session EXCEPT ![s].age = "fresh"],
         UNCHANGED <<password, used, login, action>>
  PROVE  ServerInv' /\ Live' = Live /\ \A t \in Live : session'[t] = session[t] \/ session'[t].age = "fresh"
<1> USE DEF ServerInv
<1>1. "fresh" \in Ages
  BY DEF Ages
<1>2. /\ Live' = Live
      /\ \A t \in Live : session'[t] \in [password : Passwords, age : Ages, overtaken : BOOLEAN]
      /\ session'[s].age = "fresh"
      /\ \A t \in Live : t # s => session'[t] = session[t]
  BY <1>1, AgedRow
<1>3. SessionTypeOK' /\ NoSecondPrompt' /\ TokensDrawn' /\ MarksCurrent' /\ PromisesKept'
  BY <1>2 DEF SessionTypeOK, NoSecondPrompt, TokensDrawn, MarksCurrent, PromisesKept
<1>4. ServerInv'
  BY <1>1, <1>3, AgesStep
<1> QED BY <1>2, <1>4

\* The mark of an action is a verification and a move of the action.
LEMMA MarkStep ==
  ASSUME ServerInv, NEW a \in Actions, Mark(a)
  PROVE  /\ ServerInv' /\ Live' = Live /\ UNCHANGED used
         /\ \A t \in Live : session'[t] = session[t] \/ session'[t].age = "fresh"
<1> DEFINE s == action[a].session
<1>1. CASE s \notin Live
  BY <1>1, RefuseStep DEF Mark, Refuse, Live
<1>2. CASE s \in Live
  <2> USE DEF ServerInv
  <2>1. /\ action' = [action EXCEPT ![a] = Running(a)]
        /\ session' = [session EXCEPT ![s].age = "fresh"]
        /\ UNCHANGED <<password, used, login>>
    BY <1>2 DEF Mark
  <2>2. Running(a) \in Action /\ Running(a).step = "run"
    BY RunningRequest DEF Mark, Running
  <2>3. "fresh" \in Ages
    BY DEF Ages
  <2>4. /\ Live' = Live
        /\ \A t \in Live : session'[t] \in [password : Passwords, age : Ages, overtaken : BOOLEAN]
        /\ session'[s].age = "fresh"
        /\ \A t \in Live : t # s => session'[t] = session[t]
    BY <1>2, <2>1, <2>3, AgedRow
  <2>5. \A b \in Actions : action'[b] = action[b] \/ action'[b].step = "run"
    BY <2>1, <2>2 DEF SessionTypeOK
  <2>6. SessionTypeOK'
    BY <2>1, <2>2, <2>4 DEF SessionTypeOK
  <2>7. NoSecondPrompt' /\ TokensDrawn'
    BY <2>1, <2>5 DEF NoSecondPrompt, TokensDrawn
  <2>8. MarksCurrent' /\ PromisesKept'
    BY <2>1, <2>4, <2>5 DEF MarksCurrent, PromisesKept
  <2>9. ServerInv'
    BY <1>2, <2>1, <2>3, <2>6, <2>7, <2>8, AgesStep
  <2> QED BY <2>1, <2>4, <2>9
<1> QED BY <1>1, <1>2

LEMMA RunStep == ASSUME ServerInv, NEW a \in Actions, Run(a) PROVE ServerInv'
<1>1. Refuse(a)
  BY DEF Run, Refuse
<1> QED BY <1>1, RefuseStep

\* A form is sent with nothing promised, or on a promise that holds.
LEMMA SendStep ==
  ASSUME ServerInv, cookie \in used, NEW form, NEW csrf, NEW told \in Ages \cup {"nothing"},
         form.level \in Levels, Send(form, csrf, told),
         told # "nothing" /\ csrf = cookie =>
           /\ told = "fresh" /\ form.level = "password"
           /\ LoggedIn => session[cookie].age # "over"
  PROVE  ServerInv' /\ UNCHANGED <<session, used>>
<1>1. CASE form.attached /\ ValidCSRF(csrf, cookie)
  <2> DEFINE r == [step |-> "sent", level |-> form.level, session |-> cookie, told |-> told]
  <2>1. PICK a \in Actions : /\ action' = [action EXCEPT ![a] = r]
                             /\ UNCHANGED <<password, session, used, login>>
    BY <1>1 DEF Send
  <2>2. r \in Action
    BY DEF Action, ServerInv, SessionTypeOK
  <2> QED BY <1>1, <2>1, <2>2, RequestMoves DEF ValidCSRF, LoggedIn
<1>2. CASE ~ (form.attached /\ ValidCSRF(csrf, cookie))
  BY <1>2, ServerStutters DEF Send, serverVars
<1> QED BY <1>1, <1>2

-----------------------------------------------------------------------------
(* What the server does, seen from the page *)

LEMMA PageStutters ==
  ASSUME PageInv, UNCHANGED pageVars, cookie' \in used', ContextKept'
  PROVE  PageInv'
BY DEF PageInv, pageVars, PageTypeOK, Undecided, ConfirmedOnce, OpenDialogAnswers, IsOpen

\* The session of the browser does not lose a verification that the page holds.
LEMMA ContextSurvives ==
  ASSUME ServerInv, PageInv, UNCHANGED <<pageVars, cookie>>, used \subseteq used',
         Held(cookie) /\ cookie \in Live' =>
           /\ cookie \in Live
           /\ session[cookie].age # "over" => session'[cookie].age # "over"
  PROVE  PageInv'
<1>1. ContextKept'
  BY DEF PageInv, ContextKept, pageVars, LoggedIn, Held
<1>2. cookie' \in used'
  BY DEF PageInv, PageTypeOK
<1> QED BY <1>1, <1>2, PageStutters DEF pageVars

LEMMA LogInStep ==
  ASSUME IInv, LogIn, UNCHANGED pageVars PROVE IInv'
<1> USE DEF IInv
<1>1. ASSUME NEW l \in Logins, LoginCheck(l), UNCHANGED cookie PROVE IInv'
  <2>1. UNCHANGED <<session, used>>
    BY <1>1 DEF LoginCheck
  <2>2. PageInv'
    BY <1>1, <2>1, ContextSurvives DEF Live
  <2> QED BY <1>1, <2>2, LoginCheckStep
<1>2. ASSUME NEW l \in Logins, NEW s \in Sessions, LoginCreate(l, s), cookie' \in {s, cookie}
      PROVE  IInv'
  <2>1. ServerInv' /\ Live' = Live \cup {s} /\ \A t \in Live : session'[t] = session[t]
    BY <1>2, LoginCreateStep
  <2>2. s \notin used /\ used' = used \cup {s}
    BY <1>2 DEF LoginCreate
  <2>3. cookie \in used
    BY DEF PageInv, PageTypeOK
  <2>4. CASE cookie' = cookie
    BY <2>1, <2>2, <2>3, <2>4, ContextSurvives
  <2>5. CASE cookie' = s
    <3>1. ContextKept'
      BY <2>2, <2>5 DEF PageInv, ContextKept, pageVars
    <3> QED BY <2>1, <2>2, <2>5, <3>1, PageStutters
  <2> QED BY <1>2, <2>4, <2>5
<1> QED BY <1>1, <1>2 DEF LogIn

LEMMA RequestStep ==
  ASSUME IInv, NEW a \in Actions, ActionStep(a), UNCHANGED <<pageVars, cookie>> PROVE IInv'
<1> USE DEF IInv
<1>1. CASE Mark(a)
  <2>1. /\ ServerInv' /\ Live' = Live /\ UNCHANGED used
        /\ \A t \in Live : session'[t] = session[t] \/ session'[t].age = "fresh"
    BY <1>1, MarkStep
  <2> QED BY <2>1, ContextSurvives
<1>2. CASE Admit(a) \/ CheckPassword(a) \/ Run(a)
  <2>1. ServerInv'
    BY <1>2, AdmitStep, CheckPasswordStep, RunStep
  <2>2. UNCHANGED <<session, used>>
    BY <1>2 DEF Admit, CheckPassword, Run, Refuse
  <2> QED BY <2>1, <2>2, ContextSurvives DEF Live
<1> QED BY <1>1, <1>2 DEF ActionStep

LEMMA ServerStep == ASSUME IInv, Server, UNCHANGED pageVars PROVE IInv'
<1> USE DEF IInv
<1>1. ASSUME NEW s \in Sessions, End(s), UNCHANGED cookie PROVE IInv'
  <2>1. ServerInv' /\ Live' \subseteq Live /\ \A t \in Live' : session'[t] = session[t]
    BY <1>1, EndStep
  <2>2. UNCHANGED used
    BY <1>1 DEF End
  <2> QED BY <1>1, <2>1, <2>2, ContextSurvives
<1>2. ASSUME NEW s \in Sessions, Age(s, Held(s)), UNCHANGED cookie PROVE IInv'
  <2>1. Held(s) \in BOOLEAN
    BY DEF Held
  <2>2. /\ ServerInv' /\ Live' = Live /\ UNCHANGED used
        /\ \A t \in Live : t # s => session'[t] = session[t]
        /\ Held(s) => session'[s].age # "over"
    BY <1>2, <2>1, AgeStep
  <2> QED BY <1>2, <2>2, ContextSurvives DEF Held
<1>3. ASSUME ChangePassword, UNCHANGED cookie PROVE IInv'
  BY <1>3, ChangePasswordStep, ContextSurvives
<1> QED BY <1>1, <1>2, <1>3, LogInStep, RequestStep DEF Server

-----------------------------------------------------------------------------
(* The script of the page *)

LEMMA SubmitFormStep == ASSUME IInv, SubmitForm PROVE IInv'
<1> USE DEF IInv, PageInv, SubmitForm
<1>1. ServerInv'
  BY ServerStutters
<1>2. PageTypeOK'
  BY DEF PageTypeOK, serverVars
<1>3. ContextKept' /\ Undecided' /\ ConfirmedOnce' /\ OpenDialogAnswers'
  BY DEF ContextKept, Undecided, ConfirmedOnce, OpenDialogAnswers, IsOpen
<1> QED BY <1>1, <1>2, <1>3

LEMMA AnswerContextStep == ASSUME IInv, AnswerContext PROVE IInv'
<1> USE DEF IInv, PageInv, AnswerContext
<1>1. ServerInv'
  BY ServerStutters
<1>2. cookie \in Sessions /\ session[cookie].age \in Ages
  BY DEF PageTypeOK, ServerInv, SessionTypeOK, LoggedIn
<1>3. PageTypeOK'
  BY <1>2 DEF PageTypeOK, serverVars, Nothing
<1>4. ContextKept'
  BY DEF ContextKept, PageTypeOK, serverVars, StepUpActive, LoggedIn
<1>5. Undecided' /\ ConfirmedOnce' /\ OpenDialogAnswers'
  BY DEF Undecided, ConfirmedOnce, OpenDialogAnswers, IsOpen
<1> QED BY <1>1, <1>3, <1>4, <1>5

LEMMA ResolveStep == ASSUME IInv, Resolve PROVE IInv'
<1> USE DEF IInv, PageInv, Resolve
<1>1. /\ resolving.level \in Levels /\ resolving.attached \in BOOLEAN
      /\ resolving.told \in Ages \cup {"nothing"}
  BY DEF PageTypeOK, Nothing
<1>2. CASE resolving.told # "nothing"
  <2>1. ServerInv' /\ UNCHANGED <<session, used>>
    BY <1>1, <1>2, SendStep DEF ContextKept, PageTypeOK
  <2>2. PageTypeOK' /\ ContextKept' /\ Undecided' /\ ConfirmedOnce' /\ OpenDialogAnswers'
    BY <1>2, <2>1 DEF PageTypeOK, ContextKept, Undecided, ConfirmedOnce, OpenDialogAnswers, IsOpen
  <2> QED BY <2>1, <2>2
<1>3. CASE resolving.told = "nothing"
  <2>1. ServerInv'
    BY <1>3, ServerStutters
  <2>2. /\ opened < MaxOpenings /\ opened' = opened + 1 /\ dialog' = "open"
        /\ pending' = [level |-> resolving.level, attached |-> resolving.attached,
                       opening |-> opened']
        /\ UNCHANGED <<serverVars, cookie, closeEvents, chain, cancelled, submitted>>
        /\ resolving' = Nothing
    BY <1>3
  <2>3. opened' \in Openings /\ opened' \in 0 .. MaxOpenings
    BY <2>2, DialogAssumption DEF PageTypeOK, Openings
  <2>4. PageTypeOK'
    BY <1>1, <2>2, <2>3 DEF PageTypeOK, serverVars
  <2>5. Undecided'
    BY <2>2, <2>3 DEF PageTypeOK, Undecided, Openings
  <2>6. ContextKept' /\ ConfirmedOnce' /\ OpenDialogAnswers'
    BY <2>2 DEF ContextKept, ConfirmedOnce, OpenDialogAnswers, Nothing
  <2> QED BY <2>1, <2>4, <2>5, <2>6
<1> QED BY <1>2, <1>3

LEMMA ResolveFailsStep == ASSUME IInv, ResolveFails PROVE IInv'
<1> USE DEF IInv, PageInv, ResolveFails
<1>1. ServerInv'
  BY ServerStutters
<1>2. PageTypeOK'
  BY DEF PageTypeOK, serverVars
<1>3. ContextKept' /\ Undecided' /\ ConfirmedOnce' /\ OpenDialogAnswers'
  BY DEF ContextKept, Undecided, ConfirmedOnce, OpenDialogAnswers, IsOpen
<1> QED BY <1>1, <1>2, <1>3

LEMMA ConfirmStep == ASSUME IInv, Confirm PROVE IInv'
<1> USE DEF IInv, PageInv, Confirm
<1>1. ServerInv'
  BY ServerStutters
<1>2. PageTypeOK'
  BY DEF PageTypeOK, serverVars
<1>3. ContextKept' /\ Undecided' /\ ConfirmedOnce' /\ OpenDialogAnswers'
  BY DEF ContextKept, Undecided, ConfirmedOnce, OpenDialogAnswers, IsOpen, LoggedIn, Live, serverVars
<1> QED BY <1>1, <1>2, <1>3

\* The opening that is still wanted is undecided: it is submitted for the first time.
LEMMA SubmitStep ==
  ASSUME IInv, StillWanted, NEW csrf, Submit(csrf), chain # idle,
         UNCHANGED <<cookie, resolving, pending, opened, cancelled>>
  PROVE  IInv'
<1> USE DEF IInv, PageInv
<1>1. /\ pending.level \in Levels /\ pending.opening \in 1 .. opened
      /\ pending.opening \in Openings /\ chain.opening = pending.opening /\ IsOpen /\ pending # Nothing
  BY DialogAssumption DEF StillWanted, PageTypeOK, Openings
<1>2. ServerInv' /\ UNCHANGED <<session, used>>
  BY <1>1, SendStep DEF Submit, PageTypeOK
<1>3. /\ submitted' = [submitted EXCEPT ![pending.opening] = @ + 1]
      /\ dialog' = "closed" /\ chain' = idle
      /\ closeEvents' = closeEvents + 1 /\ closeEvents < MaxEvents
  BY <1>1 DEF Submit
<1>4. submitted[pending.opening] = 0 /\ pending.opening \notin cancelled
  BY <1>1 DEF Undecided
<1>5. PageTypeOK'
  <2>1. closeEvents' \in 0 .. MaxEvents
    BY <1>3, DialogAssumption DEF PageTypeOK
  <2>2. submitted' \in [Openings -> Nat]
    BY <1>1, <1>3, <1>4 DEF PageTypeOK
  <2> QED BY <1>2, <1>3, <2>1, <2>2 DEF PageTypeOK
<1>6. ContextKept'
  BY <1>2 DEF ContextKept, LoggedIn, Live
<1>7. Undecided'
  BY <1>1, <1>3, DialogAssumption DEF Undecided, PageTypeOK, Openings, IsOpen
<1>8. ConfirmedOnce'
  BY <1>1, <1>3, <1>4 DEF ConfirmedOnce, PageTypeOK
<1>9. OpenDialogAnswers'
  BY <1>3 DEF OpenDialogAnswers
<1> QED BY <1>2, <1>5, <1>6, <1>7, <1>8, <1>9

\* A callback that ends the confirmation leaves everything but chain as it is.
LEMMA ChainEnds ==
  ASSUME IInv, GiveUp, UNCHANGED <<cookie, resolving, pending, opened, cancelled>>
  PROVE  IInv'
<1> USE DEF IInv, PageInv, GiveUp
<1>1. ServerInv'
  BY ServerStutters
<1>2. PageTypeOK'
  BY DEF PageTypeOK, serverVars
<1>3. ContextKept' /\ Undecided' /\ ConfirmedOnce' /\ OpenDialogAnswers'
  BY DEF ContextKept, Undecided, ConfirmedOnce, OpenDialogAnswers, IsOpen, LoggedIn, Live, serverVars
<1> QED BY <1>1, <1>2, <1>3

\* A confirmation goes on.
LEMMA ChainMoves ==
  ASSUME IInv, chain # idle,
         chain' \in [step : {"answered", "verify", "mark", "verified"}, opening : 1 .. opened,
                     csrf : Sessions],
         UNCHANGED <<serverVars, cookie, resolving, pending, dialog, closeEvents, opened,
                     cancelled, submitted>>
  PROVE  IInv'
<1> USE DEF IInv, PageInv
<1>1. ServerInv'
  BY ServerStutters
<1>2. PageTypeOK'
  BY DEF PageTypeOK, serverVars
<1>3. ContextKept' /\ Undecided' /\ ConfirmedOnce' /\ OpenDialogAnswers'
  BY DEF ContextKept, Undecided, ConfirmedOnce, OpenDialogAnswers, IsOpen, LoggedIn, Live, serverVars
<1> QED BY <1>1, <1>2, <1>3

LEMMA AnswerConfirmStep == ASSUME IInv, AnswerConfirm PROVE IInv'
<1> USE DEF AnswerConfirm
<1>1. chain # idle /\ chain.opening \in 1 .. opened /\ cookie \in Sessions
  BY DEF IInv, PageInv, PageTypeOK, ServerInv, SessionTypeOK, idle
<1>2. CASE LoggedIn
  BY <1>1, <1>2, ChainMoves
<1>3. CASE ~ LoggedIn
  BY <1>3, ChainEnds
<1> QED BY <1>2, <1>3

LEMMA ChainContextStep == ASSUME IInv, ChainContext PROVE IInv'
<1> USE DEF ChainContext
<1>1. /\ chain # idle
      /\ chain \in [step : {"answered", "verify", "mark", "verified"}, opening : 1 .. opened,
                    csrf : Sessions]
  BY DEF IInv, PageInv, PageTypeOK, idle
<1>2. CASE ~ StillWanted
  BY <1>2, ChainEnds
<1>3. CASE StillWanted /\ pending.level = "confirm"
  BY <1>1, <1>3, SubmitStep
<1>4. CASE StillWanted /\ pending.level # "confirm"
  BY <1>1, <1>4, ChainMoves
<1> QED BY <1>2, <1>3, <1>4

LEMMA VerifyStep == ASSUME IInv, Verify PROVE IInv'
<1> USE DEF Verify
<1>1. /\ chain # idle
      /\ chain \in [step : {"answered", "verify", "mark", "verified"}, opening : 1 .. opened, csrf : Sessions]
  BY DEF IInv, PageInv, PageTypeOK, idle
<1>2. CASE LoggedIn /\ ValidCSRF(chain.csrf, cookie)
  BY <1>1, <1>2, ChainMoves
<1>3. CASE ~ (LoggedIn /\ ValidCSRF(chain.csrf, cookie))
  BY <1>3, ChainEnds
<1> QED BY <1>2, <1>3

LEMMA VerifyMarkStep == ASSUME IInv, VerifyMark PROVE IInv'
<1> USE DEF VerifyMark
<1>1. chain \in [step : {"answered", "verify", "mark", "verified"}, opening : 1 .. opened, csrf : Sessions]
  BY DEF IInv, PageInv, PageTypeOK, idle
<1>2. CASE chain.csrf \in Live
  <2> USE DEF IInv, PageInv
  <2>1. /\ ServerInv' /\ Live' = Live
        /\ \A t \in Live : session'[t] = session[t] \/ session'[t].age = "fresh"
    BY <1>2, VerificationMarked
  <2>2. PageTypeOK'
    BY <1>1, <1>2 DEF PageTypeOK
  <2>3. ContextKept'
    BY <1>2, <2>1 DEF ContextKept, LoggedIn
  <2>4. Undecided' /\ ConfirmedOnce' /\ OpenDialogAnswers'
    BY <1>2 DEF Undecided, ConfirmedOnce, OpenDialogAnswers, IsOpen
  <2> QED BY <2>1, <2>2, <2>3, <2>4
<1>3. CASE chain.csrf \notin Live
  BY <1>3, ChainEnds
<1> QED BY <1>2, <1>3

LEMMA VerifiedStep == ASSUME IInv, Verified PROVE IInv'
<1>1. CASE StillWanted
  BY <1>1, SubmitStep DEF Verified, idle
<1>2. CASE ~ StillWanted
  BY <1>2, ChainEnds DEF Verified
<1> QED BY <1>1, <1>2

LEMMA CancelStep == ASSUME IInv, Cancel PROVE IInv'
<1> USE DEF IInv, PageInv, Cancel
<1>1. ServerInv'
  BY ServerStutters
<1>2. \A o \in Given : o \in Openings /\ o <= opened /\ submitted[o] = 0
  BY DialogAssumption DEF Given, Undecided, PageTypeOK, Openings
<1>3. Given \subseteq Openings
  BY <1>2
<1>4. closeEvents' \in 0 .. MaxEvents
  BY DialogAssumption DEF PageTypeOK
<1>5. PageTypeOK'
  BY <1>3, <1>4 DEF PageTypeOK, serverVars
<1>6. Undecided'
  BY <1>2, DialogAssumption DEF Undecided, PageTypeOK, Openings, IsOpen
<1>7. ConfirmedOnce'
  BY <1>2 DEF ConfirmedOnce
<1>8. ContextKept' /\ OpenDialogAnswers'
  BY DEF ContextKept, OpenDialogAnswers, LoggedIn, Live, serverVars
<1> QED BY <1>1, <1>5, <1>6, <1>7, <1>8

LEMMA CloseEventStep == ASSUME IInv, CloseEvent PROVE IInv'
<1> USE DEF IInv, PageInv, CloseEvent
<1>1. ServerInv'
  BY ServerStutters
<1>2. closeEvents' \in 0 .. MaxEvents
  BY DialogAssumption DEF PageTypeOK
<1>3. PageTypeOK'
  BY <1>2 DEF PageTypeOK, serverVars
<1>4. ContextKept' /\ Undecided' /\ ConfirmedOnce' /\ OpenDialogAnswers'
  BY DEF ContextKept, Undecided, ConfirmedOnce, OpenDialogAnswers, IsOpen, LoggedIn, Live, serverVars
<1> QED BY <1>1, <1>3, <1>4

LEMMA SwapBodyStep == ASSUME IInv, SwapBody PROVE IInv'
<1> USE DEF IInv, PageInv, SwapBody
<1>1. ServerInv'
  BY ServerStutters
<1>2. pending' = Nothing <=> pending = Nothing
  BY DEF Detached, PageTypeOK, Nothing
<1>3. /\ pending # Nothing => /\ pending'.opening = pending.opening
                              /\ pending' \in [level : Levels, attached : BOOLEAN, opening : 1 .. opened]
      /\ pending = Nothing => pending' = Nothing
  BY DEF Detached, PageTypeOK, Nothing
<1>4. /\ resolving' \in
           {Nothing}
           \cup [level : Levels, attached : BOOLEAN, step : {"asked"}]
           \cup [level : Levels, attached : BOOLEAN, step : {"answered"}, csrf : Sessions,
                 told : Ages \cup {"nothing"}]
      /\ resolving # Nothing /\ resolving.step = "answered" =>
           /\ resolving'.csrf = resolving.csrf /\ resolving'.told = resolving.told
           /\ resolving'.level = resolving.level
      /\ resolving' # Nothing /\ resolving'.step = "answered" =>
           resolving # Nothing /\ resolving.step = "answered"
  BY DEF Detached, PageTypeOK, Nothing
<1>5. PageTypeOK'
  BY <1>3, <1>4 DEF PageTypeOK, serverVars
<1>6. ContextKept'
  BY <1>4 DEF ContextKept, LoggedIn, Live, serverVars
<1>7. Undecided' /\ ConfirmedOnce' /\ OpenDialogAnswers'
  BY <1>2, <1>3 DEF Undecided, ConfirmedOnce, OpenDialogAnswers, IsOpen
<1> QED BY <1>1, <1>5, <1>6, <1>7

LEMMA LoadStep == ASSUME IInv, Load PROVE IInv'
<1> USE DEF IInv, PageInv, Load
<1>1. ServerInv'
  BY ServerStutters
<1>2. PageTypeOK'
  BY DialogAssumption DEF PageTypeOK, serverVars
<1>3. ContextKept' /\ Undecided' /\ ConfirmedOnce' /\ OpenDialogAnswers'
  BY DEF ContextKept, Undecided, ConfirmedOnce, OpenDialogAnswers, IsOpen
<1> QED BY <1>1, <1>2, <1>3

LEMMA Inductive == IInv /\ [Next]_vars => IInv'
<1> SUFFICES ASSUME IInv, [Next]_vars PROVE IInv'
  OBVIOUS
<1>1. CASE UNCHANGED vars
  <2>1. ServerInv'
    BY <1>1, ServerStutters DEF vars, IInv
  <2>2. PageInv'
    BY <1>1, ContextSurvives DEF vars, serverVars, IInv, Live
  <2> QED BY <2>1, <2>2 DEF IInv
<1>2. CASE ChainFails
  BY <1>2, ChainEnds DEF ChainFails
<1>3. CASE Server /\ UNCHANGED pageVars
  BY <1>3, ServerStep
<1> QED BY <1>1, <1>2, <1>3, SubmitFormStep, AnswerContextStep, ResolveStep, ResolveFailsStep,
           ConfirmStep, AnswerConfirmStep, ChainContextStep, VerifyStep, VerifyMarkStep, VerifiedStep,
           CancelStep, CloseEventStep, SwapBodyStep, LoadStep DEF Next

-----------------------------------------------------------------------------
(* The results *)

LEMMA Invariance == Spec => []IInv
BY Initially, Inductive, PTL DEF Spec

\* A change of the password leaves no session of the old one, however many requests and
\* logins are under way, but those of logins that had compared it before.
THEOREM SessionsFollowPassword == Spec => []OldPasswordsEnd
<1>1. IInv => OldPasswordsEnd
  BY DEF IInv, ServerInv
<1> QED BY <1>1, Invariance, PTL

\* An irreversible action passes its gate only after the password in force at that very
\* moment has been compared.
THEOREM CriticalActionsVerified == Spec => CriticalNeedsPassword
<1> DEFINE Gated ==
      \A a \in Actions :
        action[a].step # "run" /\ action'[a].step = "run" /\ action[a].level = "critical"
          => action[a].step = "mark" /\ action[a].typed = password
<1>1. IInv /\ [Next]_vars => [Gated]_serverVars
  <2> SUFFICES ASSUME IInv, [Next]_vars, action' # action PROVE Gated
    BY DEF Gated, serverVars
  <2> USE DEF IInv, ServerInv
  <2>1. ASSUME NEW a \in Actions, ActionStep(a) PROVE Gated
    <3>1. \A b \in Actions : b # a => action'[b] = action[b]
      BY <2>1 DEF ActionStep, Admit, CheckPassword, Mark, Run, Refuse, SessionTypeOK
    <3>2. CASE Admit(a)
      <4>1. action'[a].step = "run" => action[a].level # "critical"
        BY <3>2 DEF Admit, Refuse, Gate, SessionTypeOK, Action, idle
      <4> QED BY <3>1, <4>1
    <3>3. CASE CheckPassword(a)
      <4>1. action'[a].step # "run"
        BY <3>3 DEF CheckPassword, Refuse, SessionTypeOK, idle
      <4> QED BY <3>1, <4>1
    <3>4. CASE Mark(a)
      <4>1. action'[a].step = "run" => action[a].typed = password /\ action[a].step = "mark"
        BY <3>4 DEF Mark, Refuse, SessionTypeOK, MarksCurrent, idle
      <4> QED BY <3>1, <4>1
    <3>5. CASE Run(a)
      BY <3>1, <3>5 DEF Run
    <3> QED BY <2>1, <3>2, <3>3, <3>4, <3>5 DEF ActionStep
  <2>2. ASSUME NEW form, NEW csrf, NEW told, Send(form, csrf, told) PROVE Gated
    <3>1. PICK a \in Actions : action' = [action EXCEPT ![a] =
            [step |-> "sent", level |-> form.level, session |-> cookie, told |-> told]]
      BY <2>2 DEF Send, serverVars
    <3> QED BY <3>1 DEF SessionTypeOK
  <2>3. CASE Resolve
    BY <2>2, <2>3 DEF Resolve, serverVars
  <2>4. CASE AnswerConfirm \/ ChainContext
    BY <2>2, <2>4 DEF AnswerConfirm, ChainContext, Submit, GiveUp, serverVars
  <2>5. CASE Verified
    BY <2>2, <2>5 DEF Verified, Submit, GiveUp, serverVars
  <2>6. CASE Server
    BY <2>1, <2>6 DEF Server, LogIn, LoginCheck, LoginCreate, End, Age, ChangePassword
  <2> QED BY <2>3, <2>4, <2>5, <2>6
        DEF Next, vars, serverVars, SubmitForm, AnswerContext, ResolveFails, Confirm, Verify,
            VerifyMark, ChainFails, GiveUp, Cancel, CloseEvent, SwapBody, Load
<1>2. [][Gated]_serverVars => CriticalNeedsPassword
  BY PTL DEF CriticalNeedsPassword, Gated
<1> QED BY <1>1, <1>2, Invariance, PTL DEF Spec

\* A form that the browser sends without a password is not asked for one, as long as its
\* way takes less than the thirty seconds kept in hand.
THEOREM PromptsAreNotRepeated == Spec => []NoSecondPrompt
<1>1. IInv => NoSecondPrompt
  BY DEF IInv, ServerInv
<1> QED BY <1>1, Invariance, PTL

\* Whatever answers are late, an opening of the dialog submits its form at most once, and
\* not at all when it has been cancelled.
THEOREM OpeningsSubmitOnce == Spec => []ConfirmedOnce
<1>1. IInv => ConfirmedOnce
  BY DEF IInv, PageInv
<1> QED BY <1>1, Invariance, PTL

\* An open dialog has something to answer, however late the close events of earlier ones.
THEOREM DialogsHaveForms == Spec => []OpenDialogAnswers
<1>1. IInv => OpenDialogAnswers
  BY DEF IInv, PageInv
<1> QED BY <1>1, Invariance, PTL

=============================================================================
