--------------------------- MODULE LoginScreensProofs ---------------------------
(***************************************************************************)
(* The safety properties of LoginScreens for every set of requests: the    *)
(* stacks never lose a screen that a callback will pop, the registered     *)
(* alert closes its own screen, and Profile asks for a user.               *)
(***************************************************************************)
EXTENDS LoginScreens, SequenceTheorems, TLAPS

\* The screen of a request or of an answer is on its stack, or has left it.
HasScreen(r, depths) == r.from # "gone" => depths[r.from] >= ScreenDepth(r.kind)

\* Profile's alert is up only over the root of Profile's stack, so that the
\* screen its action pushes is the second one.
AskedAtRoot == alert = "signIn" => tab = "profile" /\ depth["profile"] = 1

ScreensInv == /\ TypeOK /\ CallbacksHaveScreens /\ RegisteredIsOnTop /\ ProfileAsks
              /\ AskedAtRoot

-------------------------------------------------------------------------------
LEMMA ScreenDepthType == \A kind : ScreenDepth(kind) \in {2, 3}
BY DEF ScreenDepth

\* The head and the rest of a queue are answers of the queue.
LEMMA QueueProperties ==
  ASSUME NEW S, NEW q \in Seq(S), q # <<>>
  PROVE  /\ Head(q) \in S /\ Tail(q) \in Seq(S) /\ Len(q) \in Nat /\ Len(q) >= 1
         /\ Head(q) = q[1]
         /\ Len(Tail(q)) = Len(q) - 1
         /\ \A n \in 1..Len(Tail(q)) : n + 1 \in 1..Len(q) /\ Tail(q)[n] = q[n + 1]
<1>1. Len(q) \in Nat /\ Len(q) >= 1 /\ q[1] \in S
  BY EmptySeq, LenProperties, ElementOfSeq
<1>2. Head(q) \in S /\ Head(q) = q[1]
  BY <1>1, HeadTailProperties
<1>3. /\ Tail(q) \in Seq(S) /\ Len(Tail(q)) = Len(q) - 1
      /\ \A n \in 1..Len(Tail(q)) : Tail(q)[n] = q[n + 1]
  BY HeadTailProperties
<1>. QED
  BY <1>1, <1>2, <1>3

\* Cutting a stack leaves a request a request, and leaves it its screen.
LEMMA DetachRequest ==
  ASSUME NEW s \in Stacks, NEW d \in 1..3, NEW depths \in [Stacks -> 1..3],
         NEW r \in Requests, HasScreen(r, depths)
  PROVE  /\ Detach(r, s, d) \in Requests
         /\ HasScreen(Detach(r, s, d), [depths EXCEPT ![s] = d])
<1>1. CASE r.from = s /\ ScreenDepth(r.kind) > d
  <2>1. Detach(r, s, d) = [r EXCEPT !.from = "gone"]
    BY <1>1 DEF Detach
  <2>. QED
    BY <2>1 DEF HasScreen, Requests
<1>2. CASE ~(r.from = s /\ ScreenDepth(r.kind) > d)
  <2>1. Detach(r, s, d) = r
    BY <1>2 DEF Detach
  <2>2. ASSUME r.from # "gone"
        PROVE  [depths EXCEPT ![s] = d][r.from] >= ScreenDepth(r.kind)
    <3>1. r.from \in Stacks
      BY <2>2 DEF Requests
    <3>2. CASE r.from = s
      BY <1>2, <3>1, <3>2, ScreenDepthType
    <3>3. CASE r.from # s
      BY <2>2, <3>1, <3>3 DEF HasScreen
    <3>. QED
      BY <3>2, <3>3
  <2>. QED
    BY <2>1, <2>2 DEF HasScreen
<1>. QED
  BY <1>1, <1>2

\* The same of an answer.
LEMMA DetachAnswer ==
  ASSUME NEW s \in Stacks, NEW d \in 1..3, NEW depths \in [Stacks -> 1..3],
         NEW r \in Answers, HasScreen(r, depths)
  PROVE  /\ Detach(r, s, d) \in Answers
         /\ HasScreen(Detach(r, s, d), [depths EXCEPT ![s] = d])
<1>1. CASE r.from = s /\ ScreenDepth(r.kind) > d
  <2>1. Detach(r, s, d) = [r EXCEPT !.from = "gone"]
    BY <1>1 DEF Detach
  <2>. QED
    BY <2>1 DEF HasScreen, Answers
<1>2. CASE ~(r.from = s /\ ScreenDepth(r.kind) > d)
  <2>1. Detach(r, s, d) = r
    BY <1>2 DEF Detach
  <2>2. ASSUME r.from # "gone"
        PROVE  [depths EXCEPT ![s] = d][r.from] >= ScreenDepth(r.kind)
    <3>1. r.from \in Stacks
      BY <2>2 DEF Answers
    <3>2. CASE r.from = s
      BY <1>2, <3>1, <3>2, ScreenDepthType
    <3>3. CASE r.from # s
      BY <2>2, <3>1, <3>3 DEF HasScreen
    <3>. QED
      BY <3>2, <3>3
  <2>. QED
    BY <2>1, <2>2 DEF HasScreen
<1>. QED
  BY <1>1, <1>2

\* Cutting a stack keeps the types, and each callback its screen.
LEMMA PopToProperties ==
  ASSUME ScreensInv, NEW s \in Stacks, NEW d \in 1..3, NEW queued \in Seq(Answers),
         \A n \in 1..Len(queued) : HasScreen(queued[n], depth),
         PopTo(s, d, queued)
  PROVE  /\ depth' \in [Stacks -> 1..3] /\ depth' = [depth EXCEPT ![s] = d]
         /\ requests' \in SUBSET Requests /\ callbacks' \in Seq(Answers)
         /\ CallbacksHaveScreens'
<1>1. /\ depth' = [depth EXCEPT ![s] = d] /\ depth \in [Stacks -> 1..3]
      /\ requests' = {Detach(r, s, d) : r \in requests}
      /\ callbacks' = [n \in 1..Len(queued) |-> Detach(queued[n], s, d)]
      /\ requests \subseteq Requests
      /\ \A r \in requests : HasScreen(r, depth)
  BY DEF PopTo, ScreensInv, TypeOK, CallbacksHaveScreens, HasScreen
<1>2. \A r \in requests : Detach(r, s, d) \in Requests /\ HasScreen(Detach(r, s, d), depth')
  BY <1>1, DetachRequest, Zenon
<1>3. Len(queued) \in Nat /\ \A n \in 1..Len(queued) : queued[n] \in Answers
  BY LenProperties, ElementOfSeq
<1>4. \A n \in 1..Len(queued) :
        Detach(queued[n], s, d) \in Answers /\ HasScreen(Detach(queued[n], s, d), depth')
  BY <1>1, <1>3, DetachAnswer, Zenon
<1>5. callbacks' \in Seq(Answers) /\ Len(callbacks') = Len(queued)
  BY <1>1, <1>3, <1>4
<1>6. \A r \in requests' : HasScreen(r, depth')
  BY <1>1, <1>2, Zenon
<1>7. \A n \in 1..Len(callbacks') : HasScreen(callbacks'[n], depth')
  BY <1>1, <1>4, <1>5
<1>8. CallbacksHaveScreens'
  BY <1>6, <1>7 DEF CallbacksHaveScreens, HasScreen
<1>. QED
  BY <1>1, <1>2, <1>5, <1>8

\* What a screen that comes up does to the alert.
LEMMA AppearProperties ==
  ASSUME TypeOK, NEW t, NEW d, NEW a \in Alerts, Appear(t, d, a)
  PROVE  /\ alert' \in Alerts /\ unasked' \in BOOLEAN
         /\ t = "profile" /\ d = 1 => (unasked' \/ signedIn \/ alert' = "signIn")
         /\ alert' # a => t = "profile" /\ d = 1 /\ alert' = "signIn"
         /\ ~(t = "profile" /\ d = 1) => alert' = a /\ unasked' = unasked
<1>1. CASE t = "profile" /\ d = 1
  <2>1. /\ alert' = IF ~signedIn /\ a = "none" THEN "signIn" ELSE a
        /\ unasked' = (a # "none")
    BY <1>1 DEF Appear
  <2>. QED
    BY <1>1, <2>1 DEF Alerts, TypeOK
<1>2. CASE ~(t = "profile" /\ d = 1)
  BY <1>2, Zenon DEF Appear, TypeOK
<1>. QED
  BY <1>1, <1>2, Zenon

-------------------------------------------------------------------------------
LEMMA ScreensInit == Init => ScreensInv
<1> SUFFICES ASSUME Init PROVE ScreensInv
  OBVIOUS
<1>1. /\ tab = "diary" /\ depth = [s \in Stacks |-> 1] /\ alert = "none"
      /\ signedIn \in BOOLEAN /\ requests = {} /\ callbacks = <<>> /\ unasked = FALSE
  BY DEF Init
<1>2. callbacks \in Seq(Answers) /\ Len(callbacks) = 0
  BY <1>1, EmptySeq
<1>3. TypeOK
  <2>1. tab \in Tabs /\ alert \in Alerts
    BY <1>1 DEF Tabs, Stacks, Alerts
  <2>2. depth \in [Stacks -> 1..3] /\ requests \in SUBSET Requests
    BY <1>1
  <2>3. signedIn \in BOOLEAN /\ unasked \in BOOLEAN
    BY <1>1, Zenon
  <2>. QED
    BY <1>2, <2>1, <2>2, <2>3, Zenon DEF TypeOK
<1>4. CallbacksHaveScreens
  BY <1>1, <1>2 DEF CallbacksHaveScreens
<1>5. RegisteredIsOnTop /\ ProfileAsks /\ AskedAtRoot
  BY <1>1 DEF RegisteredIsOnTop, ProfileAsks, AskedAtRoot
<1>. QED
  BY <1>3, <1>4, <1>5 DEF ScreensInv

LEMMA SelectTabStep ==
  ASSUME ScreensInv, NEW t \in Tabs, SelectTab(t)
  PROVE  ScreensInv'
<1> DEFINE d == IF t \in Stacks THEN depth[t] ELSE 1
<1>1. /\ alert = "none" /\ tab' = t /\ Appear(t, d, alert)
      /\ UNCHANGED <<depth, signedIn, requests, callbacks>>
  BY DEF SelectTab, Touchable, asyncVars
<1>2. t = "profile" => d = depth["profile"]
  BY DEF Stacks
<1> HIDE DEF d
<1>3. /\ alert' \in Alerts /\ unasked' \in BOOLEAN
      /\ t = "profile" /\ d = 1 => (unasked' \/ signedIn \/ alert' = "signIn")
      /\ alert' # alert => t = "profile" /\ d = 1 /\ alert' = "signIn"
  <2>1. alert \in Alerts /\ TypeOK
    BY DEF ScreensInv, TypeOK
  <2>. QED
    BY <1>1, <2>1, AppearProperties, Zenon
<1>4. TypeOK'
  BY <1>1, <1>3 DEF ScreensInv, TypeOK
<1>5. CallbacksHaveScreens'
  BY <1>1 DEF ScreensInv, CallbacksHaveScreens
<1>6. RegisteredIsOnTop' /\ AskedAtRoot'
  BY <1>1, <1>2, <1>3 DEF RegisteredIsOnTop, AskedAtRoot
<1>7. ProfileAsks'
  BY <1>1, <1>2, <1>3, Zenon DEF ProfileAsks
<1>. QED
  BY <1>4, <1>5, <1>6, <1>7 DEF ScreensInv

\* Pushing a screen takes no callback its screen.
LEMMA PushedKeepsScreens ==
  ASSUME ScreensInv, NEW s \in Stacks, NEW d \in 1..3, d >= depth[s],
         depth' = [depth EXCEPT ![s] = d], UNCHANGED <<requests, callbacks>>
  PROVE  depth' \in [Stacks -> 1..3] /\ CallbacksHaveScreens'
<1>1. depth \in [Stacks -> 1..3] /\ requests \subseteq Requests /\ callbacks \in Seq(Answers)
  BY DEF ScreensInv, TypeOK
<1>2. \A e \in Stacks : depth'[e] >= depth[e] /\ depth'[e] \in 1..3
  BY <1>1
<1>3. ASSUME NEW r \in requests, r.from # "gone"
      PROVE  depth'[r.from] >= ScreenDepth(r.kind)
  <2>1. r.from \in Stacks /\ depth[r.from] >= ScreenDepth(r.kind)
    BY <1>1, <1>3 DEF Requests, ScreensInv, CallbacksHaveScreens
  <2>. QED
    BY <1>1, <1>2, <2>1, ScreenDepthType
<1>4. ASSUME NEW n \in 1..Len(callbacks), callbacks[n].from # "gone"
      PROVE  depth'[callbacks[n].from] >= ScreenDepth(callbacks[n].kind)
  <2>1. callbacks[n] \in Answers
    BY <1>1, ElementOfSeq
  <2>2. callbacks[n].from \in Stacks /\ depth[callbacks[n].from] >= ScreenDepth(callbacks[n].kind)
    BY <1>4, <2>1 DEF Answers, ScreensInv, CallbacksHaveScreens
  <2>. QED
    BY <1>1, <1>2, <2>2, ScreenDepthType
<1>. QED
  BY <1>1, <1>2, <1>3, <1>4 DEF CallbacksHaveScreens

LEMMA SignInOrOutStep ==
  ASSUME ScreensInv, SignInOrOut
  PROVE  ScreensInv'
<1>1. /\ alert = "none" /\ tab = "diary" /\ UNCHANGED <<tab, alert, unasked>>
      /\ signedIn' \in BOOLEAN /\ UNCHANGED <<requests, callbacks>>
  BY DEF SignInOrOut, Touchable, asyncVars, ScreensInv, TypeOK
<1>2. depth' \in [Stacks -> 1..3] /\ CallbacksHaveScreens'
  <2>1. CASE ~signedIn
    <3>1. depth' = [depth EXCEPT !["diary"] = 2] /\ depth["diary"] = 1
      BY <2>1 DEF SignInOrOut
    <3>2. "diary" \in Stacks /\ 2 \in 1..3 /\ 2 >= depth["diary"]
      BY <3>1 DEF Stacks
    <3>. QED
      BY <1>1, <3>1, <3>2, PushedKeepsScreens, Zenon
  <2>2. CASE signedIn
    <3>1. UNCHANGED depth
      BY <2>2 DEF SignInOrOut
    <3>. QED
      BY <1>1, <3>1 DEF ScreensInv, TypeOK, CallbacksHaveScreens
  <2>. QED
    BY <2>1, <2>2, Zenon
<1>. QED
  BY <1>1, <1>2 DEF ScreensInv, TypeOK, RegisteredIsOnTop, ProfileAsks, AskedAtRoot

LEMMA OpenRegisterViewStep ==
  ASSUME ScreensInv, OpenRegisterView
  PROVE  ScreensInv'
<1>1. /\ alert = "none" /\ tab \in Stacks /\ depth[tab] = 2
      /\ depth' = [depth EXCEPT ![tab] = 3]
      /\ UNCHANGED <<tab, alert, signedIn, requests, callbacks, unasked>>
  BY DEF OpenRegisterView, Touchable, asyncVars
<1>2. depth' \in [Stacks -> 1..3] /\ CallbacksHaveScreens'
  <2>1. 3 \in 1..3 /\ 3 >= depth[tab]
    BY <1>1
  <2>. QED
    BY <1>1, <2>1, PushedKeepsScreens, Zenon
<1>3. TypeOK' /\ RegisteredIsOnTop' /\ AskedAtRoot'
  BY <1>1, <1>2 DEF ScreensInv, TypeOK, RegisteredIsOnTop, AskedAtRoot
<1>4. ProfileAsks'
  <2>1. tab = "profile" => depth'["profile"] = 3
    BY <1>1 DEF ScreensInv, TypeOK
  <2>. QED
    BY <1>1, <2>1 DEF ProfileAsks
<1>. QED
  BY <1>2, <1>3, <1>4 DEF ScreensInv

\* A pop of the visible stack, and the screen under it, with an alert a that
\* stays up or has just been closed.
LEMMA PopAndAppear ==
  ASSUME ScreensInv, tab \in Stacks, NEW d \in 1..3, d < depth[tab],
         NEW a \in Alerts, a \notin {"signIn", "registered"},
         NEW queued \in Seq(Answers),
         \A n \in 1..Len(queued) : HasScreen(queued[n], depth),
         PopTo(tab, d, queued), Appear(tab, d, a), UNCHANGED <<tab, signedIn>>
  PROVE  ScreensInv'
<1>1. /\ depth' \in [Stacks -> 1..3] /\ depth' = [depth EXCEPT ![tab] = d]
      /\ requests' \in SUBSET Requests /\ callbacks' \in Seq(Answers)
      /\ CallbacksHaveScreens'
  BY PopToProperties
<1>2. /\ alert' \in Alerts /\ unasked' \in BOOLEAN
      /\ tab = "profile" /\ d = 1 => (unasked' \/ signedIn \/ alert' = "signIn")
      /\ alert' # a => tab = "profile" /\ d = 1 /\ alert' = "signIn"
  BY AppearProperties, Zenon DEF ScreensInv
<1>3. depth'[tab] = d
  BY <1>1 DEF ScreensInv, TypeOK
<1>4. TypeOK'
  BY <1>1, <1>2 DEF ScreensInv, TypeOK
<1>5. RegisteredIsOnTop' /\ AskedAtRoot'
  BY <1>2, <1>3 DEF RegisteredIsOnTop, AskedAtRoot
<1>6. ProfileAsks'
  BY <1>2, <1>3, Zenon DEF ProfileAsks
<1>. QED
  BY <1>1, <1>4, <1>5, <1>6 DEF ScreensInv

LEMMA BackStep ==
  ASSUME ScreensInv, NEW d \in {1, 2}, Back(d)
  PROVE  ScreensInv'
<1>1. /\ alert = "none" /\ tab \in Stacks /\ d \in 1..3 /\ d < depth[tab]
      /\ PopTo(tab, d, callbacks) /\ Appear(tab, d, alert) /\ UNCHANGED <<tab, signedIn>>
  BY DEF Back, Touchable
<1>2. callbacks \in Seq(Answers) /\ \A n \in 1..Len(callbacks) : HasScreen(callbacks[n], depth)
  BY DEF ScreensInv, TypeOK, CallbacksHaveScreens, HasScreen
<1>3. alert \in Alerts /\ alert \notin {"signIn", "registered"}
  BY <1>1 DEF Alerts
<1>. QED
  BY <1>1, <1>2, <1>3, PopAndAppear, Zenon

LEMMA AskStep ==
  ASSUME ScreensInv, NEW kind \in {"signIn", "create"}, NEW id \in Ids, Ask(kind, id)
  PROVE  ScreensInv'
<1> DEFINE new == [id |-> id, kind |-> kind, from |-> tab]
<1>1. /\ alert = "none" /\ tab \in Stacks /\ depth[tab] = ScreenDepth(kind)
      /\ requests' = requests \cup {new}
      /\ UNCHANGED <<tab, depth, alert, signedIn, callbacks, unasked>>
  BY DEF Ask, Touchable
<1>2. new \in Requests /\ new.from = tab /\ new.kind = kind
  BY <1>1 DEF Requests
<1> HIDE DEF new
<1>3. depth[new.from] >= ScreenDepth(new.kind)
  <2>1. depth[tab] \in 1..3
    BY <1>1 DEF ScreensInv, TypeOK
  <2>. QED
    BY <1>1, <1>2, <2>1
<1>4. TypeOK'
  BY <1>1, <1>2 DEF ScreensInv, TypeOK
<1>5. CallbacksHaveScreens'
  BY <1>1, <1>3 DEF ScreensInv, CallbacksHaveScreens
<1>. QED
  BY <1>1, <1>4, <1>5 DEF ScreensInv, RegisteredIsOnTop, ProfileAsks, AskedAtRoot

LEMMA AnswerStep ==
  ASSUME ScreensInv, NEW r \in requests, NEW ok \in BOOLEAN, Answer(r, ok)
  PROVE  ScreensInv'
<1> DEFINE new == [id |-> r.id, kind |-> r.kind, from |-> r.from, ok |-> ok]
<1>1. /\ requests' = requests \ {r} /\ callbacks' = Append(callbacks, new)
      /\ signedIn' = (signedIn \/ ok) /\ UNCHANGED <<tab, depth, alert, unasked>>
  BY DEF Answer
<1>2. r \in Requests /\ HasScreen(r, depth) /\ callbacks \in Seq(Answers)
  BY DEF ScreensInv, TypeOK, CallbacksHaveScreens, HasScreen
<1>3. new \in Answers /\ new.from = r.from /\ new.kind = r.kind
  BY <1>2 DEF Requests, Answers
<1> HIDE DEF new
<1>4. Len(callbacks) \in Nat
  BY <1>2, LenProperties
<1>5. /\ callbacks' \in Seq(Answers) /\ Len(callbacks') = Len(callbacks) + 1
      /\ \A n \in 1..Len(callbacks) : callbacks'[n] = callbacks[n]
      /\ callbacks'[Len(callbacks) + 1] = new
  BY <1>1, <1>2, <1>3, AppendProperties
<1>6. \A n \in 1..Len(callbacks') : HasScreen(callbacks'[n], depth)
  <2> SUFFICES ASSUME NEW n \in 1..Len(callbacks') PROVE HasScreen(callbacks'[n], depth)
    OBVIOUS
  <2>1. CASE n = Len(callbacks) + 1
    <3>1. callbacks'[n] = new
      BY <1>5, <2>1
    <3>. QED
      BY <1>2, <1>3, <3>1, Zenon DEF HasScreen
  <2>2. CASE n \in 1..Len(callbacks)
    BY <1>5, <2>2, Zenon DEF ScreensInv, CallbacksHaveScreens, HasScreen
  <2>3. n = Len(callbacks) + 1 \/ n \in 1..Len(callbacks)
    BY <1>4, <1>5
  <2>. QED
    BY <2>1, <2>2, <2>3, Zenon
<1>7. CallbacksHaveScreens'
  BY <1>1, <1>6 DEF ScreensInv, CallbacksHaveScreens, HasScreen
<1>8. TypeOK'
  <2>1. signedIn' \in BOOLEAN
    BY <1>1
  <2>. QED
    BY <1>1, <1>5, <2>1 DEF ScreensInv, TypeOK
<1>9. ProfileAsks'
  BY <1>1, Zenon DEF ScreensInv, ProfileAsks
<1>. QED
  BY <1>1, <1>7, <1>8, <1>9 DEF ScreensInv, RegisteredIsOnTop, AskedAtRoot

\* The rest of the queue keeps its screens when a callback runs.
LEMMA TailKeepsScreens ==
  ASSUME ScreensInv, callbacks # <<>>
  PROVE  /\ Head(callbacks) \in Answers /\ HasScreen(Head(callbacks), depth)
         /\ Tail(callbacks) \in Seq(Answers)
         /\ \A n \in 1..Len(Tail(callbacks)) : HasScreen(Tail(callbacks)[n], depth)
<1>1. /\ callbacks \in Seq(Answers)
      /\ \A n \in 1..Len(callbacks) : HasScreen(callbacks[n], depth)
  BY DEF ScreensInv, TypeOK, CallbacksHaveScreens, HasScreen
<1>2. /\ Head(callbacks) \in Answers /\ Tail(callbacks) \in Seq(Answers)
      /\ Len(callbacks) \in Nat /\ Len(callbacks) >= 1
      /\ Head(callbacks) = callbacks[1]
      /\ \A n \in 1..Len(Tail(callbacks)) :
           n + 1 \in 1..Len(callbacks) /\ Tail(callbacks)[n] = callbacks[n + 1]
  BY <1>1, QueueProperties
<1>3. 1 \in 1..Len(callbacks)
  BY <1>2
<1>4. HasScreen(Head(callbacks), depth)
  BY <1>1, <1>2, <1>3
<1>5. \A n \in 1..Len(Tail(callbacks)) : HasScreen(Tail(callbacks)[n], depth)
  BY <1>1, <1>2
<1>. QED
  BY <1>2, <1>4, <1>5

\* A callback that only presents an alert a, the registered one on its screen.
LEMMA PresentStep ==
  ASSUME ScreensInv, callbacks # <<>>, NEW a \in {"message", "registered"},
         Head(callbacks).kind = "create" \/ a = "message",
         Present(Head(callbacks), a)
  PROVE  ScreensInv'
<1> DEFINE top == Head(callbacks)
           shown == alert = "none" /\ top.from = tab /\ depth[tab] = ScreenDepth(top.kind)
<1>1. /\ callbacks' = Tail(callbacks) /\ alert' = (IF shown THEN a ELSE alert)
      /\ UNCHANGED <<tab, depth, signedIn, requests, unasked>>
  BY DEF Present
<1>2. /\ top \in Answers /\ Tail(callbacks) \in Seq(Answers)
      /\ \A n \in 1..Len(Tail(callbacks)) : HasScreen(Tail(callbacks)[n], depth)
  BY TailKeepsScreens
<1>3. shown => tab \in Stacks /\ depth[tab] \in {2, 3} /\ (a = "registered" => depth[tab] = 3)
  <2> SUFFICES ASSUME shown
               PROVE  tab \in Stacks /\ depth[tab] \in {2, 3} /\ (a = "registered" => depth[tab] = 3)
    OBVIOUS
  <2>1. tab \in Tabs /\ tab \in Stacks \cup {"gone"}
    BY <1>2 DEF Answers, ScreensInv, TypeOK
  <2>2. tab \in Stacks
    BY <2>1 DEF Tabs, Stacks
  <2>3. depth[tab] \in {2, 3}
    BY ScreenDepthType
  <2>4. a = "registered" => depth[tab] = 3
    BY DEF ScreenDepth
  <2>. QED
    BY <2>2, <2>3, <2>4, Zenon
<1> HIDE DEF top, shown
<1>4. alert' \in Alerts
  BY <1>1 DEF Alerts, ScreensInv, TypeOK
<1>5. TypeOK'
  BY <1>1, <1>2, <1>4 DEF ScreensInv, TypeOK
<1>6. CallbacksHaveScreens'
  BY <1>1, <1>2 DEF ScreensInv, CallbacksHaveScreens, HasScreen
<1>7. RegisteredIsOnTop' /\ AskedAtRoot'
  BY <1>1, <1>3 DEF ScreensInv, RegisteredIsOnTop, AskedAtRoot
<1>8. ProfileAsks'
  <2>1. CASE shown
    BY <1>1, <1>3, <2>1 DEF ProfileAsks
  <2>2. CASE ~shown
    BY <1>1, <2>2 DEF ScreensInv, ProfileAsks
  <2>. QED
    BY <2>1, <2>2, Zenon
<1>. QED
  BY <1>5, <1>6, <1>7, <1>8 DEF ScreensInv

LEMMA SignedInStep ==
  ASSUME ScreensInv, SignedIn
  PROVE  ScreensInv'
<1> DEFINE s == Head(callbacks).from
<1>1. callbacks # <<>> /\ Head(callbacks).kind = "signIn" /\ UNCHANGED <<tab, signedIn>>
  BY DEF SignedIn
<1>2. /\ Head(callbacks) \in Answers /\ HasScreen(Head(callbacks), depth)
      /\ Tail(callbacks) \in Seq(Answers)
      /\ \A n \in 1..Len(Tail(callbacks)) : HasScreen(Tail(callbacks)[n], depth)
  BY <1>1, TailKeepsScreens
<1>3. CASE s = "gone"
  <2>1. callbacks' = Tail(callbacks) /\ UNCHANGED <<depth, alert, requests, unasked>>
    BY <1>3 DEF SignedIn, Stacks
  <2>2. TypeOK'
    BY <1>1, <1>2, <2>1 DEF ScreensInv, TypeOK
  <2>3. CallbacksHaveScreens'
    BY <1>2, <2>1 DEF ScreensInv, CallbacksHaveScreens, HasScreen
  <2>. QED
    BY <1>1, <2>1, <2>2, <2>3 DEF ScreensInv, RegisteredIsOnTop, ProfileAsks, AskedAtRoot
<1>4. CASE s \in Stacks
  <2> DEFINE d == depth[s] - 1
             a == IF alert = "registered" THEN "orphan" ELSE alert
  <2>1. /\ PopTo(s, d, Tail(callbacks))
        /\ IF s = tab THEN Appear(s, d, a) ELSE UNCHANGED <<alert, unasked>>
    BY <1>4 DEF SignedIn, Stacks
  <2>2. depth[s] \in {2, 3}
    <3>1. s # "gone" /\ depth[s] \in 1..3
      BY <1>4 DEF Stacks, ScreensInv, TypeOK
    <3>2. depth[s] >= 2
      BY <1>1, <1>2, <3>1 DEF HasScreen, ScreenDepth
    <3>. QED
      BY <3>1, <3>2
  <2>3. d \in 1..3 /\ d < depth[s]
    BY <2>2
  <2> HIDE DEF d
  <2>4. CASE s = tab
    <3>1. a \in Alerts /\ a \notin {"signIn", "registered"}
      <4>1. alert # "signIn"
        BY <2>2, <2>4 DEF ScreensInv, AskedAtRoot
      <4>2. alert \in Alerts
        BY DEF ScreensInv, TypeOK
      <4>. QED
        BY <4>1, <4>2 DEF Alerts
    <3> HIDE DEF a
    <3>2. tab \in Stacks /\ d < depth[tab] /\ PopTo(tab, d, Tail(callbacks)) /\ Appear(tab, d, a)
      BY <1>4, <2>1, <2>3, <2>4
    <3>. QED
      BY <1>1, <1>2, <2>3, <3>1, <3>2, PopAndAppear, Zenon
  <2>5. CASE s # tab
    <3>1. UNCHANGED <<alert, unasked>>
      BY <2>1, <2>5
    <3>2. /\ depth' \in [Stacks -> 1..3] /\ depth' = [depth EXCEPT ![s] = d]
          /\ requests' \in SUBSET Requests /\ callbacks' \in Seq(Answers)
          /\ CallbacksHaveScreens'
      BY <1>2, <1>4, <2>1, <2>3, PopToProperties, Zenon
    <3>3. tab \in Stacks => depth'[tab] = depth[tab]
      BY <2>5, <3>2 DEF ScreensInv, TypeOK
    <3>4. TypeOK'
      BY <1>1, <3>1, <3>2 DEF ScreensInv, TypeOK
    <3>5. RegisteredIsOnTop' /\ AskedAtRoot' /\ ProfileAsks'
      <4>1. tab = "profile" => depth'["profile"] = depth["profile"]
        BY <3>3 DEF Stacks
      <4>. QED
        BY <1>1, <3>1, <3>3, <4>1 DEF ScreensInv, RegisteredIsOnTop, AskedAtRoot, ProfileAsks
    <3>. QED
      BY <3>2, <3>4, <3>5 DEF ScreensInv
  <2>. QED
    BY <2>4, <2>5, Zenon
<1>. QED
  BY <1>2, <1>3, <1>4 DEF Answers

LEMMA AskToSignInStep ==
  ASSUME ScreensInv, AskToSignIn
  PROVE  ScreensInv'
<1>1. /\ alert = "signIn" /\ alert' = "none" /\ depth' = [depth EXCEPT !["profile"] = 2]
      /\ UNCHANGED <<tab, signedIn, requests, callbacks, unasked>>
  BY DEF AskToSignIn, asyncVars
<1>2. depth["profile"] = 1 /\ depth \in [Stacks -> 1..3] /\ "profile" \in Stacks
  BY <1>1 DEF ScreensInv, AskedAtRoot, TypeOK, Stacks
<1>3. depth' \in [Stacks -> 1..3] /\ CallbacksHaveScreens'
  <2>1. 2 \in 1..3 /\ 2 >= depth["profile"]
    BY <1>2
  <2>. QED
    BY <1>1, <1>2, <2>1, PushedKeepsScreens, Zenon
<1>4. depth'["profile"] = 2
  BY <1>1, <1>2
<1>5. TypeOK'
  BY <1>1, <1>3 DEF ScreensInv, TypeOK, Alerts
<1>. QED
  BY <1>1, <1>3, <1>4, <1>5
     DEF ScreensInv, RegisteredIsOnTop, ProfileAsks, AskedAtRoot

LEMMA CloseAlertStep ==
  ASSUME ScreensInv, CloseAlert
  PROVE  ScreensInv'
<1>1. /\ alert \in {"message", "orphan"} /\ alert' = "none"
      /\ UNCHANGED <<tab, depth, signedIn, requests, callbacks, unasked>>
  BY DEF CloseAlert, asyncVars
<1>2. TypeOK'
  BY <1>1 DEF ScreensInv, TypeOK, Alerts
<1>3. CallbacksHaveScreens'
  BY <1>1 DEF ScreensInv, CallbacksHaveScreens
<1>. QED
  BY <1>1, <1>2, <1>3 DEF ScreensInv, RegisteredIsOnTop, ProfileAsks, AskedAtRoot

LEMMA ConfirmRegisteredStep ==
  ASSUME ScreensInv, ConfirmRegistered
  PROVE  ScreensInv'
<1>1. /\ PopTo(tab, 1, callbacks) /\ Appear(tab, 1, "none") /\ UNCHANGED <<tab, signedIn>>
      /\ alert = "registered"
  BY DEF ConfirmRegistered
<1>2. tab \in Stacks /\ 1 \in 1..3 /\ 1 < depth[tab]
  BY <1>1 DEF ScreensInv, RegisteredIsOnTop
<1>3. callbacks \in Seq(Answers) /\ \A n \in 1..Len(callbacks) : HasScreen(callbacks[n], depth)
  BY DEF ScreensInv, TypeOK, CallbacksHaveScreens, HasScreen
<1>4. "none" \in Alerts /\ "none" \notin {"signIn", "registered"}
  BY DEF Alerts
<1>. QED
  BY <1>1, <1>2, <1>3, <1>4, PopAndAppear, Zenon

LEMMA ScreensStutter ==
  ASSUME ScreensInv, UNCHANGED vars
  PROVE  ScreensInv'
BY DEF vars, asyncVars, ScreensInv, TypeOK, CallbacksHaveScreens, RegisteredIsOnTop,
       ProfileAsks, AskedAtRoot

\* The invariant that carries the properties below: the types, each callback's
\* screen, and where the alerts of Profile and of the register screen are up.
THEOREM ScreensInvariant == Spec => []ScreensInv
<1>1. ScreensInv /\ [Next]_vars => ScreensInv'
  <2> SUFFICES ASSUME ScreensInv, [Next]_vars PROVE ScreensInv'
    OBVIOUS
  <2>1. CASE \E t \in Tabs : SelectTab(t)
    BY <2>1, SelectTabStep
  <2>2. CASE SignInOrOut
    BY <2>2, SignInOrOutStep
  <2>3. CASE OpenRegisterView
    BY <2>3, OpenRegisterViewStep
  <2>4. CASE \E d \in {1, 2} : Back(d)
    BY <2>4, BackStep
  <2>5. CASE \E kind \in {"signIn", "create"}, id \in Ids : Ask(kind, id)
    BY <2>5, AskStep
  <2>6. CASE \E r \in requests, ok \in BOOLEAN : Answer(r, ok)
    BY <2>6, AnswerStep
  <2>7. CASE Failed
    <3>1. callbacks # <<>> /\ Present(Head(callbacks), "message")
      BY <2>7 DEF Failed
    <3>. QED
      BY <3>1, PresentStep
  <2>8. CASE Registered
    <3>1. /\ callbacks # <<>> /\ Head(callbacks).kind = "create"
          /\ Present(Head(callbacks), "registered")
      BY <2>8 DEF Registered
    <3>. QED
      BY <3>1, PresentStep
  <2>9. CASE SignedIn
    BY <2>9, SignedInStep
  <2>10. CASE AskToSignIn
    BY <2>10, AskToSignInStep
  <2>11. CASE CloseAlert
    BY <2>11, CloseAlertStep
  <2>12. CASE ConfirmRegistered
    BY <2>12, ConfirmRegisteredStep
  <2>13. CASE UNCHANGED vars
    BY <2>13, ScreensStutter
  <2>. QED
    BY <2>1, <2>2, <2>3, <2>4, <2>5, <2>6, <2>7, <2>8, <2>9, <2>10, <2>11, <2>12, <2>13
       DEF Next
<1>. QED
  BY <1>1, ScreensInit, PTL DEF Spec

\* Every variable of the login screens keeps its type.
THEOREM ScreensTypeOK == Spec => []TypeOK
<1>1. ScreensInv => TypeOK
  BY DEF ScreensInv
<1>. QED
  BY <1>1, ScreensInvariant, PTL

\* However many requests are under way and however late they are answered, a
\* callback of LoginViewController or RegisterViewController pops a stack only
\* while its own screen is on it, never the root of the tab.
THEOREM ScreensCallbacksHaveScreens == Spec => []CallbacksHaveScreens
<1>1. ScreensInv => CallbacksHaveScreens
  BY DEF ScreensInv
<1>. QED
  BY <1>1, ScreensInvariant, PTL

\* Okay on the alert of RegisterViewController leaves a register screen that is
\* on top of the selected tab.
THEOREM ScreensRegisteredIsOnTop == Spec => []RegisteredIsOnTop
<1>1. ScreensInv => RegisteredIsOnTop
  BY DEF ScreensInv
<1>. QED
  BY <1>1, ScreensInvariant, PTL

\* ProfileViewController shows its chart to a user who is signed in or asked to
\* sign in, unless it came up under another alert.
THEOREM ScreensProfileAsks == Spec => []ProfileAsks
<1>1. ScreensInv => ProfileAsks
  BY DEF ScreensInv
<1>. QED
  BY <1>1, ScreensInvariant, PTL
================================================================================
