------------------------------ MODULE LoginScreens ------------------------------
(***************************************************************************)
(* The login and register screens on the navigation stacks of the Diary    *)
(* and the Profile tab, the alerts over them, and the callbacks that close *)
(* them.  Module Session has what the requests do to the account.          *)
(*                                                                         *)
(* A screen that has left its stack lives on in the callbacks of its       *)
(* requests, but has no navigation controller and presents nothing.  An    *)
(* alert covers the whole window, tab bar included; a second one is not    *)
(* presented over it.                                                      *)
(***************************************************************************)
EXTENDS Integers, Sequences, FiniteSets

CONSTANT Ids \* bound: what tells apart the requests and callbacks under way

VARIABLES
  tab,       \* the selected tab
  depth,     \* of each stack: 1 root, 2 login screen, 3 register screen on it
  alert,     \* what is presented
  signedIn,  \* Auth.auth().currentUser is not nil
  requests,  \* requests to Auth without an answer
  callbacks, \* answers whose callback has not run, in order
  unasked    \* history: Profile came up under an alert, or has lost its user

asyncVars == <<requests, callbacks>>
vars == <<tab, depth, alert, signedIn, requests, callbacks, unasked>>

Stacks == {"diary", "profile"}
Tabs == Stacks \cup {"test"}

\* "signIn" is the alert of Profile, "message" the one of a failed request,
\* "registered" the one of the register screen; it is "orphan" once that screen
\* has left its stack.
Alerts == {"none", "signIn", "message", "registered", "orphan"}

\* A request and its answer, made by the login screen (signIn) or the register
\* screen (create) of a stack, or of "gone" when that screen has left it.
Requests == [id : Ids, kind : {"signIn", "create"}, from : Stacks \cup {"gone"}]
Answers == [id : Ids, kind : {"signIn", "create"}, from : Stacks \cup {"gone"}, ok : BOOLEAN]

Init == /\ tab = "diary" /\ depth = [s \in Stacks |-> 1] /\ alert = "none"
        /\ signedIn \in BOOLEAN
        /\ requests = {} /\ callbacks = <<>>
        /\ unasked = FALSE

ScreenDepth(kind) == IF kind = "signIn" THEN 2 ELSE 3

\* Mutant of Detach: a popped screen keeps its place in the callbacks.
DetachMutant(r, s, d) == r

\* What a request or answer of stack s becomes when the stack is cut to depth d.
Detach(r, s, d) ==
  IF r.from = s /\ ScreenDepth(r.kind) > d THEN [r EXCEPT !.from = "gone"] ELSE r

\* Mutant of PopTo: answers on their way are not looked at.
PopToMutant(s, d, queued) ==
  /\ depth' = [depth EXCEPT ![s] = d]
  /\ requests' = {Detach(r, s, d) : r \in requests}
  /\ callbacks' = queued

\* Stack s is cut to depth d; queued are the callbacks still to run.
PopTo(s, d, queued) ==
  /\ depth' = [depth EXCEPT ![s] = d]
  /\ requests' = {Detach(r, s, d) : r \in requests}
  /\ callbacks' = [n \in 1..Len(queued) |-> Detach(queued[n], s, d)]

\* Mutant of Appear: the user is not asked on the way back.
AppearMutant(t, d, a) ==
  alert' = a /\ unasked' = IF t = "profile" /\ d = 1 THEN a # "none" ELSE unasked

\* ProfileViewController.viewWillAppear, if it is the screen at depth d of the
\* tab t that comes up, while alert a is presented.
Appear(t, d, a) ==
  IF t = "profile" /\ d = 1
  THEN /\ alert' = IF ~signedIn /\ a = "none" THEN "signIn" ELSE a
       /\ unasked' = (a # "none")
  ELSE alert' = a /\ UNCHANGED unasked

\* No alert keeps the user from the screens.
Touchable == alert = "none"

-------------------------------------------------------------------------------
SelectTab(t) ==
  /\ Touchable /\ t # tab
  /\ tab' = t
  /\ Appear(t, IF t \in Stacks THEN depth[t] ELSE 1, alert)
  /\ UNCHANGED <<depth, signedIn, asyncVars>>

\* The button of the diary, by the current user; an error of signOut is printed.
SignInOrOut ==
  /\ Touchable /\ tab = "diary" /\ depth["diary"] = 1
  /\ \/ /\ ~signedIn
        /\ depth' = [depth EXCEPT !["diary"] = 2]
        /\ UNCHANGED signedIn
     \/ /\ signedIn
        /\ signedIn' \in BOOLEAN
        /\ UNCHANGED depth
  /\ UNCHANGED <<tab, alert, asyncVars, unasked>>

OpenRegisterView ==
  /\ Touchable /\ tab \in Stacks /\ depth[tab] = 2
  /\ depth' = [depth EXCEPT ![tab] = 3]
  /\ UNCHANGED <<tab, alert, signedIn, asyncVars, unasked>>

\* The back button, or the selected tab tapped again.
Back(d) ==
  /\ Touchable /\ tab \in Stacks /\ d < depth[tab]
  /\ PopTo(tab, d, callbacks)
  /\ Appear(tab, d, alert)
  /\ UNCHANGED <<tab, signedIn>>

\* The buttons signIn and register.
Ask(kind, id) ==
  /\ Touchable /\ tab \in Stacks /\ depth[tab] = ScreenDepth(kind)
  /\ \A r \in requests : r.id # id
  /\ \A n \in 1..Len(callbacks) : callbacks[n].id # id
  /\ requests' = requests \cup {[id |-> id, kind |-> kind, from |-> tab]}
  /\ UNCHANGED <<tab, depth, alert, signedIn, callbacks, unasked>>

\* Auth answers a request: a success signs in at once, the callback is later.
Answer(r, ok) ==
  /\ requests' = requests \ {r}
  /\ callbacks' = Append(callbacks, [id |-> r.id, kind |-> r.kind, from |-> r.from, ok |-> ok])
  /\ signedIn' = (signedIn \/ ok)
  /\ UNCHANGED <<tab, depth, alert, unasked>>

\* A callback presents alert a on its screen, if that is on top of its stack,
\* in the window and covered by no other alert.
Present(answer, a) ==
  /\ callbacks' = Tail(callbacks)
  /\ alert' = IF /\ alert = "none" /\ answer.from = tab
                 /\ depth[tab] = ScreenDepth(answer.kind)
              THEN a ELSE alert
  /\ UNCHANGED <<tab, depth, signedIn, requests, unasked>>

Failed == /\ callbacks # <<>> /\ ~Head(callbacks).ok
          /\ Present(Head(callbacks), "message")

\* Mutant of Registered: the alert is presented on whatever is in the window.
RegisteredMutant ==
  /\ callbacks # <<>> /\ Head(callbacks).ok /\ Head(callbacks).kind = "create"
  /\ callbacks' = Tail(callbacks)
  /\ alert' = IF alert = "none" THEN "registered" ELSE alert
  /\ UNCHANGED <<tab, depth, signedIn, requests, unasked>>

\* The callback of createUser, whose writeData is in module Session.
Registered == /\ callbacks # <<>> /\ Head(callbacks).ok /\ Head(callbacks).kind = "create"
              /\ Present(Head(callbacks), "registered")

\* The callback of signIn pops the top of its screen's stack, which is the
\* register screen if that has been opened meanwhile.
SignedIn ==
  /\ callbacks # <<>> /\ Head(callbacks).ok /\ Head(callbacks).kind = "signIn"
  /\ LET s == Head(callbacks).from
     IN \/ /\ s = "gone"
           /\ callbacks' = Tail(callbacks)
           /\ UNCHANGED <<depth, alert, requests, unasked>>
        \/ /\ s \in Stacks
           /\ PopTo(s, depth[s] - 1, Tail(callbacks))
           /\ IF s = tab
              THEN Appear(s, depth[s] - 1, IF alert = "registered" THEN "orphan" ELSE alert)
              ELSE UNCHANGED <<alert, unasked>>
  /\ UNCHANGED <<tab, signedIn>>

\* The action of Profile's alert.
AskToSignIn ==
  /\ alert = "signIn"
  /\ alert' = "none"
  /\ depth' = [depth EXCEPT !["profile"] = 2]
  /\ UNCHANGED <<tab, signedIn, asyncVars, unasked>>

\* The action of a message, and of a registered alert that lost its screen.
CloseAlert ==
  /\ alert \in {"message", "orphan"}
  /\ alert' = "none"
  /\ UNCHANGED <<tab, depth, signedIn, asyncVars, unasked>>

\* Okay on the registered alert: back to the root of the stack.
ConfirmRegistered ==
  /\ alert = "registered"
  /\ PopTo(tab, 1, callbacks)
  /\ Appear(tab, 1, "none")
  /\ UNCHANGED <<tab, signedIn>>

Next == \/ \E t \in Tabs : SelectTab(t)
        \/ SignInOrOut \/ OpenRegisterView
        \/ \E d \in {1, 2} : Back(d)
        \/ \E kind \in {"signIn", "create"}, id \in Ids : Ask(kind, id)
        \/ \E r \in requests, ok \in BOOLEAN : Answer(r, ok)
        \/ Failed \/ Registered \/ SignedIn
        \/ AskToSignIn \/ CloseAlert \/ ConfirmRegistered

Spec == Init /\ [][Next]_vars

-------------------------------------------------------------------------------
TypeOK == /\ tab \in Tabs
          /\ depth \in [Stacks -> 1..3]
          /\ alert \in Alerts
          /\ signedIn \in BOOLEAN
          /\ requests \in SUBSET Requests
          /\ callbacks \in Seq(Answers)
          /\ unasked \in BOOLEAN

\* A callback finds its own screen on the stack or does not touch the stack:
\* late answers, also to a second tap of the button, never pop the root or a
\* screen opened anew.
CallbacksHaveScreens ==
  /\ \A r \in requests : r.from # "gone" => depth[r.from] >= ScreenDepth(r.kind)
  /\ \A n \in 1..Len(callbacks) :
       callbacks[n].from # "gone" => depth[callbacks[n].from] >= ScreenDepth(callbacks[n].kind)

\* Okay on the registered alert takes the user back from a register screen that
\* is on top of the visible stack.
RegisteredIsOnTop == alert = "registered" => tab \in Stacks /\ depth[tab] = 3

\* Nobody looks at Profile's chart without being signed in or asked to: signing
\* out is possible only on another tab, and each way back asks, unless another
\* alert was up.
ProfileAsks ==
  tab = "profile" /\ depth["profile"] = 1 /\ ~unasked =>
    signedIn \/ alert = "signIn"
================================================================================
