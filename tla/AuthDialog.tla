----------------------------- MODULE AuthDialog -----------------------------
(***************************************************************************)
(* The authorization prompts of one page of the Admin Console               *)
(* (web/auth-dialog.js) with the server of AdminSession.  Other tabs of the *)
(* browser share its cookie, other browsers only the server.                *)
(*                                                                          *)
(* Every callback of the script is one action.  A request and the callback  *)
(* of its answer are separate: in between the user cancels, presses Escape  *)
(* or changes the password field, the navigator replaces the body, or       *)
(* another tab logs in again.  What the user types is chosen when it is     *)
(* read.                                                                    *)
(***************************************************************************)
EXTENDS AdminSession

CONSTANTS
  MaxOpenings,   \* bound: dialogs opened on a page
  MaxEvents      \* bound: close events on their way

ASSUME DialogAssumption == MaxOpenings \in Nat /\ MaxEvents \in Nat

VARIABLES
  cookie,      \* the browser's token
  resolving,   \* the form whose submission has asked for its context
  pending,     \* what the dialog is open for
  dialog,      \* closed, open, or open with the notice that the server is unavailable
  closeEvents, \* close events of the dialog that have not been delivered
  chain,       \* the confirmation under way; it disables the button
  opened, cancelled, submitted   \* for the properties: openings and what became of them

pageVars == <<resolving, pending, dialog, closeEvents, chain, opened, cancelled, submitted>>
vars == <<serverVars, cookie, pageVars>>

Nothing == [level |-> "none"]
Openings == 1 .. MaxOpenings

Init ==
  /\ SessionInit
  /\ cookie \in Live
  /\ resolving = Nothing /\ pending = Nothing /\ chain = idle
  /\ dialog = "closed" /\ closeEvents = 0
  /\ opened = 0 /\ cancelled = {} /\ submitted = [o \in Openings |-> 0]

IsOpen == dialog # "closed"
LoggedIn == cookie \in Live

-----------------------------------------------------------------------------
(* Submitting a form of the page *)

\* The native submission of a form with the CSRF value it was given.  One whose body has
\* been replaced is not submitted.
Send(form, csrf, told) ==
  IF form.attached /\ ValidCSRF(csrf, cookie)
  THEN \E a \in Actions :
         /\ action[a] = idle
         /\ action' = [action EXCEPT ![a] =
              [step |-> "sent", level |-> form.level, session |-> cookie, told |-> told]]
         /\ UNCHANGED <<password, session, used, login>>
  ELSE UNCHANGED serverVars

\* The submit listener of the document.  An open dialog makes the page inert.
SubmitForm ==
  /\ ~ IsOpen
  /\ resolving = Nothing
  /\ \E level \in Levels : resolving' = [level |-> level, attached |-> TRUE, step |-> "asked"]
  /\ UNCHANGED <<serverVars, cookie, pending, dialog, closeEvents, chain,
                 opened, cancelled, submitted>>

\* Mutant: the browser is told of a verification until its very end.
ActiveToTheEnd(s) == session[s].age # "over"

\* adminAuthContext: stepUpActive
StepUpActive(s) == session[s].age = "fresh"

\* adminAuthContext answers with the CSRF value of the session.
AnswerContext ==
  /\ resolving # Nothing /\ resolving.step = "asked" /\ LoggedIn
  /\ resolving' = [level |-> resolving.level, attached |-> resolving.attached,
                   step |-> "answered", csrf |-> cookie,
                   told |-> IF resolving.level = "password" /\ StepUpActive(cookie)
                            THEN session[cookie].age ELSE "nothing"]
  /\ UNCHANGED <<serverVars, cookie, pending, dialog, closeEvents, chain,
                 opened, cancelled, submitted>>

\* The answer arrives: submit at once, or open the dialog.
Resolve ==
  /\ resolving # Nothing /\ resolving.step = "answered"
  /\ resolving' = Nothing
  /\ IF resolving.told # "nothing"
     THEN /\ Send(resolving, resolving.csrf, resolving.told)
          /\ UNCHANGED <<pending, dialog, opened>>
     ELSE /\ opened < MaxOpenings
          /\ opened' = opened + 1
          /\ pending' = [level |-> resolving.level, attached |-> resolving.attached,
                         opening |-> opened']
          /\ dialog' = "open"
          /\ UNCHANGED serverVars
  /\ UNCHANGED <<cookie, closeEvents, chain, cancelled, submitted>>

\* No session: the login page.  No answer: showUnavailable.
ResolveFails ==
  /\ resolving # Nothing
  /\ resolving' = Nothing
  /\ \/ /\ ~ LoggedIn
        /\ UNCHANGED <<pending, dialog>>
     \/ /\ pending' = Nothing
        /\ dialog' = "notice"
  /\ UNCHANGED <<serverVars, cookie, closeEvents, chain, opened, cancelled, submitted>>

-----------------------------------------------------------------------------
(* The dialog *)

\* The button of the dialog, or Enter; for a critical action the target is repeated.
Confirm ==
  /\ dialog = "open" /\ pending # Nothing
  /\ chain = idle
  /\ chain' = [step |-> "context", opening |-> pending.opening]
  /\ UNCHANGED <<serverVars, cookie, resolving, pending, dialog, closeEvents,
                 opened, cancelled, submitted>>

\* Mutant: any open dialog will do.
DialogIsOpen == pending # Nothing /\ IsOpen

\* pending === state and the dialog is open.
StillWanted == pending # Nothing /\ pending.opening = chain.opening /\ IsOpen

\* The dialog is closed and its form submitted, with what the password field holds by now.
Submit(csrf) ==
  /\ closeEvents < MaxEvents
  /\ dialog' = "closed"
  /\ closeEvents' = closeEvents + 1
  /\ chain' = idle
  /\ submitted' = [submitted EXCEPT ![chain.opening] = @ + 1]
  /\ Send(pending, csrf, "nothing")

\* A callback ends the confirmation: the button is enabled, the dialog stays as it is.
GiveUp ==
  /\ chain' = idle
  /\ UNCHANGED <<serverVars, dialog, closeEvents, submitted>>

\* adminAuthContext answers a confirmation.
AnswerConfirm ==
  /\ chain.step = "context"
  /\ IF LoggedIn
     THEN /\ chain' = [step |-> "answered", opening |-> chain.opening, csrf |-> cookie]
          /\ UNCHANGED <<serverVars, dialog, closeEvents, submitted>>
     ELSE GiveUp
  /\ UNCHANGED <<cookie, resolving, pending, opened, cancelled>>

\* The answer arrives.
ChainContext ==
  /\ chain.step = "answered"
  /\ IF ~ StillWanted THEN GiveUp
     ELSE IF pending.level = "confirm" THEN Submit(chain.csrf)
     ELSE /\ chain' = [chain EXCEPT !.step = "verify"]
          /\ UNCHANGED <<serverVars, dialog, closeEvents, submitted>>
  /\ UNCHANGED <<cookie, resolving, pending, opened, cancelled>>

\* adminVerifyPassword: the session, the CSRF value, the password.  The wrong password is
\* ChainFails.
Verify ==
  /\ chain.step = "verify"
  /\ IF LoggedIn /\ ValidCSRF(chain.csrf, cookie)
     THEN /\ chain' = [chain EXCEPT !.step = "mark"]
          /\ UNCHANGED <<serverVars, dialog, closeEvents, submitted>>
     ELSE GiveUp
  /\ UNCHANGED <<cookie, resolving, pending, opened, cancelled>>

VerifyMark ==
  /\ chain.step = "mark"
  /\ IF chain.csrf \in Live
     THEN /\ session' = [session EXCEPT ![chain.csrf].age = "fresh"]
          /\ chain' = [chain EXCEPT !.step = "verified"]
          /\ UNCHANGED <<password, used, login, action, dialog, closeEvents, submitted>>
     ELSE GiveUp
  /\ UNCHANGED <<cookie, resolving, pending, opened, cancelled>>

\* The verification arrives.
Verified ==
  /\ chain.step = "verified"
  /\ IF StillWanted THEN Submit(chain.csrf) ELSE GiveUp
  /\ UNCHANGED <<cookie, resolving, pending, opened, cancelled>>

\* A request of the confirmation fails.
ChainFails ==
  /\ chain # idle
  /\ GiveUp
  /\ UNCHANGED <<cookie, resolving, pending, opened, cancelled>>

Given == IF pending = Nothing THEN {} ELSE {pending.opening}

\* The cancel button clears pending at once, Escape leaves that to the close event.
Cancel ==
  /\ IsOpen /\ closeEvents < MaxEvents
  /\ pending' \in {Nothing, pending}
  /\ dialog' = "closed" /\ closeEvents' = closeEvents + 1
  /\ cancelled' = cancelled \cup Given
  /\ UNCHANGED <<serverVars, cookie, resolving, chain, opened, submitted>>

\* Mutant: the event does not ask whether the dialog was opened again.
CloseEventBlind ==
  /\ closeEvents > 0
  /\ closeEvents' = closeEvents - 1
  /\ pending' = Nothing
  /\ UNCHANGED <<serverVars, cookie, resolving, dialog, chain, opened, cancelled, submitted>>

\* The close event.
CloseEvent ==
  /\ closeEvents > 0
  /\ closeEvents' = closeEvents - 1
  /\ pending' = IF IsOpen THEN pending ELSE Nothing
  /\ UNCHANGED <<serverVars, cookie, resolving, dialog, chain, opened, cancelled, submitted>>

-----------------------------------------------------------------------------
(* The surroundings *)

Detached(form) == IF form = Nothing THEN form ELSE [form EXCEPT !.attached = FALSE]

\* The navigator replaces the body; the dialog hangs on the root element and stays.
SwapBody ==
  /\ resolving' = Detached(resolving)
  /\ pending' = Detached(pending)
  /\ UNCHANGED <<serverVars, cookie, dialog, closeEvents, chain, opened, cancelled, submitted>>

\* The answer of a submitted form, the login page or any other page is loaded.
Load ==
  /\ resolving' = Nothing /\ pending' = Nothing /\ chain' = idle
  /\ dialog' = "closed" /\ closeEvents' = 0
  /\ opened' = 0 /\ cancelled' = {} /\ submitted' = [o \in Openings |-> 0]
  /\ UNCHANGED <<serverVars, cookie>>

\* A login in this browser changes its cookie, in another it does not.
LogIn ==
  \E l \in Logins :
    \/ LoginCheck(l) /\ UNCHANGED cookie
    \/ \E s \in Sessions : LoginCreate(l, s) /\ cookie' \in {s, cookie}

\* The answer in hand tells of a verification that had more than thirty seconds left.
Held(s) ==
  resolving # Nothing /\ resolving.step = "answered" /\ resolving.told = "fresh" /\ cookie = s

Server ==
  \/ LogIn
  \/ \E s \in Sessions : (End(s) \/ Age(s, Held(s))) /\ UNCHANGED cookie
  \/ ChangePassword /\ UNCHANGED cookie
  \/ \E a \in Actions : ActionStep(a) /\ UNCHANGED cookie

Next ==
  \/ SubmitForm \/ AnswerContext \/ Resolve \/ ResolveFails
  \/ Confirm \/ AnswerConfirm \/ ChainContext
  \/ Verify \/ VerifyMark \/ Verified \/ ChainFails
  \/ Cancel \/ CloseEvent
  \/ SwapBody \/ Load
  \/ Server /\ UNCHANGED pageVars

Spec == Init /\ [][Next]_vars

-----------------------------------------------------------------------------
(* Properties *)

\* Every opening of the dialog submits its form at most once, and never after it has been
\* cancelled, whichever answer is still on its way (pending !== state).
ConfirmedOnce ==
  \A o \in Openings : submitted[o] <= 1 /\ (o \in cancelled => submitted[o] = 0)

\* An open dialog can be answered: the late close event of an earlier opening does not
\* take away what it is open for (the check of dialog.open in the close listener).
OpenDialogAnswers == dialog = "open" => pending # Nothing

-----------------------------------------------------------------------------
(* The inductive invariant of AuthDialogProofs *)

PageTypeOK ==
  /\ cookie \in used
  /\ resolving \in
       {Nothing}
       \cup [level : Levels, attached : BOOLEAN, step : {"asked"}]
       \cup [level : Levels, attached : BOOLEAN, step : {"answered"}, csrf : Sessions,
             told : Ages \cup {"nothing"}]
  /\ pending \in {Nothing} \cup [level : Levels, attached : BOOLEAN, opening : 1 .. opened]
  /\ dialog \in {"closed", "open", "notice"}
  /\ closeEvents \in 0 .. MaxEvents
  /\ chain \in {idle} \cup [step : {"context"}, opening : 1 .. opened]
       \cup [step : {"answered", "verify", "mark", "verified"}, opening : 1 .. opened,
           csrf : Sessions]
  /\ opened \in 0 .. MaxOpenings
  /\ cancelled \subseteq Openings
  /\ submitted \in [Openings -> Nat]

\* The context that the page holds: its token has been drawn, and what it says of a recent
\* verification still holds of the session, if that is still the browser's.
ContextKept ==
  resolving # Nothing /\ resolving.step = "answered" =>
    /\ resolving.csrf \in used
    /\ resolving.told # "nothing" =>
         /\ resolving.told = "fresh" /\ resolving.level = "password"
         /\ resolving.csrf = cookie /\ LoggedIn => session[cookie].age # "over"

\* Nothing has become of the opening on the screen, nor of those to come.
Undecided ==
  \A o \in Openings :
    o > opened \/ (IsOpen /\ pending # Nothing /\ pending.opening = o) =>
      submitted[o] = 0 /\ o \notin cancelled

ServerInv ==
  SessionTypeOK /\ OldPasswordsEnd /\ NoSecondPrompt
    /\ TokensDrawn /\ LoginsCurrent /\ MarksCurrent /\ PromisesKept
PageInv == PageTypeOK /\ ContextKept /\ Undecided /\ ConfirmedOnce /\ OpenDialogAnswers
IInv == ServerInv /\ PageInv

=============================================================================
