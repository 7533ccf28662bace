---------------------------- MODULE DashPagesProofs ----------------------------
(***************************************************************************)
(* What holds of the dashboard's pages for any number of clients and of    *)
(* requests under way: a dialog is one at a time and its promise tells the *)
(* truth about the operator, so that nothing that needs a confirmation is  *)
(* sent without one; and a diagnostic report is of the last run.           *)
(***************************************************************************)
EXTENDS DashPages, TLAPS

\* One handler at a time has asked: none asks while another waits, save the next
\* question of the same chain.
Asked(q) == promise[q] # "none"
PromiseOK == promise \in [Questions -> {"none", "open", "yes", "no"}]
OneAsked == \A p, q \in Questions : Asked(p) /\ Asked(q) => p = q

\* A promise settled with yes was confirmed.
Consent == \A q \in Questions : promise[q] = "yes" => q \in consented

\* The chain of a rotation: who asks for the password has the warning confirmed, who
\* asks for the code has both.
Chain == /\ Asked(Question("password")) => Question("rotate") \in consented
         /\ Asked(Question("code")) => /\ Question("rotate") \in consented
                                       /\ Question("password") \in consented

DInv == PromiseOK /\ OneAsked /\ OneDialog /\ Consent /\ Chain

\* What a slot holds is a record of these fields.
CallShape(k) == k = [st |-> k.st, kind |-> k.kind, id |-> k.id, body |-> k.body, list |-> k.list]
PostShape(k) == k = [st |-> k.st, kind |-> k.kind, nth |-> k.nth, bind |-> k.bind, tele |-> k.tele,
                     run |-> k.run, who |-> k.who, answer |-> k.answer]
CallSlots == /\ calling = [s \in ClientSlots |-> calling[s]]
             /\ \A s \in ClientSlots : CallShape(calling[s])
PostSlots == /\ posts = [s \in SettingSlots |-> posts[s]]
             /\ \A s \in SettingSlots : PostShape(posts[s])

\* At most one diagnostic run is out, the flag says so, and it is the last one.
Diag(s) == posts[s].kind = "diag" /\ posts[s].st # "idle"
DiagInv == /\ \A s \in SettingSlots : Diag(s) => diagRunning /\ posts[s].run = diagRuns
           /\ \A s, t \in SettingSlots : Diag(s) /\ Diag(t) => s = t

PagePosts == PostSlots /\ DiagInv /\ LatestReport

IInv == DInv /\ CallSlots /\ PagePosts

-----------------------------------------------------------------------------
(* The dialog.                                                             *)

\* A question that only follows another.
Follows(q) == q \in {Question("password"), Question("code")}

\* Every step of the pages moves the dialog in one of these ways, or not at all.
DialogMove ==
    \/ \E q \in Questions : PageFree /\ ShowDialog(q) /\ ~Follows(q)
    \/ AskOn("rotate", "password") \/ AskOn("password", "code")
    \/ CancelDialog \/ ConfirmDialog
    \/ \E q \in Questions, r \in {"yes", "no"} : TakeAnswer(q, r)
    \/ UNCHANGED <<active, promise, consented>>

LEMMA SettingQuestion ==
    ASSUME NEW kind \in {"rotate", "password", "code", "restart", "upstream"}
    PROVE  Question(kind) \in Questions /\ Question(kind) \in SettingQuestions
                 /\ Question(kind).kind = kind
  BY SettingsAssumption DEF Question, SettingQuestions

LEMMA ShowKeeps ==
    ASSUME DInv, NEW q \in Questions, PageFree, ShowDialog(q), ~Follows(q) PROVE DInv'
<1>1. /\ \A p \in Questions : promise[p] = "none"
      /\ active = NoQuestion
  BY DEF PageFree
<1>2. Settle(promise, "no") = [p \in Questions |-> "none"]
  BY <1>1, DialogsAssumption DEF Settle
<1>3. promise' = [p \in Questions |-> IF p = q THEN "open" ELSE "none"] /\ active' = q
  BY <1>2 DEF ShowDialog
<1>4. PromiseOK' /\ OneAsked' /\ OneDialog' /\ Consent'
  BY <1>3 DEF PromiseOK, OneAsked, Asked, OneDialog, Consent
<1>5. ~Asked(Question("password"))' /\ ~Asked(Question("code"))'
  BY <1>3, SettingQuestion DEF Asked, Follows
<1>. QED
  BY <1>4, <1>5 DEF DInv, Chain

LEMMA AskOnKeeps ==
    ASSUME DInv, NEW from \in {"rotate", "password"}, NEW to \in {"password", "code"},
           from # to, AskOn(from, to),
           to = "code" => from = "password"
    PROVE  DInv'
<1>. DEFINE f == Question(from)
            t == Question(to)
<1>1. f \in Questions /\ t \in Questions /\ f # t /\ f.kind = from /\ t.kind = to
  BY SettingQuestion
<1>2. promise[f] = "yes" /\ promise[t] = "none"
  BY DEF AskOn
<1>3. \A p \in Questions : p # f => promise[p] = "none"
  BY <1>1, <1>2 DEF DInv, OneAsked, Asked
<1>4. active \notin Questions
  BY <1>1, <1>2, <1>3 DEF DInv, OneDialog
<1>5. Settle(promise, "no") = [p \in Questions |-> promise[p]]
  BY <1>4 DEF Settle
<1>6. promise' = [p \in Questions |-> IF p = t THEN "open" ELSE "none"]
  BY <1>1, <1>3, <1>5 DEF AskOn
<1>7. active' = t /\ consented' = consented \ {t}
  BY DEF AskOn
<1>8. PromiseOK' /\ OneAsked' /\ OneDialog' /\ Consent'
  BY <1>1, <1>6, <1>7 DEF PromiseOK, OneAsked, Asked, OneDialog, Consent
<1>9. f \in consented
  BY <1>1, <1>2 DEF DInv, Consent
<1>10. CASE from = "rotate"
  <2>1. to = "password"
    BY <1>10
  <2>2. Question("rotate") \in consented' /\ ~Asked(Question("code"))'
    BY <1>1, <1>6, <1>7, <1>9, <1>10, <2>1, SettingQuestion DEF Asked
  <2>. QED
    BY <1>8, <2>2 DEF DInv, Chain
<1>11. CASE from = "password"
  <2>1. to = "code"
    BY <1>11
  <2>2. Question("rotate") \in consented
    BY <1>2, <1>11 DEF DInv, Chain, Asked
  <2>3. Question("rotate") # t /\ Question("password") # t
    BY <1>1, <2>1, SettingQuestion
  <2>4. Question("rotate") \in consented' /\ Question("password") \in consented'
    BY <1>7, <1>9, <1>11, <2>2, <2>3
  <2>. QED
    BY <1>8, <2>4 DEF DInv, Chain
<1>. QED
  BY <1>10, <1>11

LEMMA SettleKeeps ==
    ASSUME DInv, CancelDialog \/ ConfirmDialog PROVE DInv'
<1>1. PICK r \in {"yes", "no"} :
         /\ promise' = Settle(promise, r) /\ active' = NoQuestion
         /\ consented' = IF r = "yes" THEN consented \cup {active} ELSE consented
  BY DEF CancelDialog, ConfirmDialog
<1>2. \A q \in Questions : promise'[q] = IF q = active THEN r ELSE promise[q]
  BY <1>1 DEF Settle
<1>3. \A q \in Questions : q = active => Asked(q)
  BY DEF DInv, OneDialog, Asked
<1>4. \A q \in Questions : Asked(q)' <=> Asked(q)
  BY <1>2, <1>3 DEF Asked
<1>5. PromiseOK'
  BY <1>1 DEF PromiseOK, Settle, DInv
<1>6. OneAsked'
  BY <1>4 DEF OneAsked, DInv
<1>7. OneDialog'
  BY <1>1, <1>2, DialogsAssumption DEF OneDialog, DInv
<1>8. Consent'
  BY <1>1, <1>2 DEF Consent, DInv
<1>9. consented \subseteq consented'
  BY <1>1
<1>10. Chain'
  BY <1>4, <1>9, SettingQuestion DEF Chain, DInv
<1>. QED
  BY <1>5, <1>6, <1>7, <1>8, <1>10 DEF DInv

LEMMA TakeKeeps ==
    ASSUME DInv, NEW q \in Questions, NEW r \in {"yes", "no"}, TakeAnswer(q, r) PROVE DInv'
<1>1. /\ promise[q] = r /\ promise' = [promise EXCEPT ![q] = "none"]
      /\ active' = active /\ consented' = consented
  BY DEF TakeAnswer
<1>2. \A p \in Questions : promise'[p] = IF p = q THEN "none" ELSE promise[p]
  BY <1>1 DEF DInv, PromiseOK
<1>3. \A p \in Questions : Asked(p)' => Asked(p)
  BY <1>2 DEF Asked
<1>4. PromiseOK'
  BY <1>1 DEF DInv, PromiseOK
<1>5. OneAsked'
  BY <1>3 DEF DInv, OneAsked
<1>6. OneDialog'
  BY <1>1, <1>2 DEF DInv, OneDialog
<1>7. Consent'
  BY <1>1, <1>2 DEF DInv, Consent
<1>8. Chain'
  BY <1>1, <1>3, SettingQuestion DEF DInv, Chain
<1>. QED
  BY <1>4, <1>5, <1>6, <1>7, <1>8 DEF DInv

LEMMA DialogKeeps == DInv /\ DialogMove => DInv'
<1>. SUFFICES ASSUME DInv, DialogMove PROVE DInv'
  OBVIOUS
<1>1. ASSUME NEW q \in Questions, PageFree, ShowDialog(q), ~Follows(q) PROVE DInv'
  BY <1>1, ShowKeeps
<1>2. CASE AskOn("rotate", "password")
  BY <1>2, AskOnKeeps
<1>3. CASE AskOn("password", "code")
  BY <1>3, AskOnKeeps
<1>4. CASE CancelDialog \/ ConfirmDialog
  BY <1>4, SettleKeeps
<1>5. ASSUME NEW q \in Questions, NEW r \in {"yes", "no"}, TakeAnswer(q, r) PROVE DInv'
  BY <1>5, TakeKeeps
<1>6. CASE UNCHANGED <<active, promise, consented>>
  BY <1>6 DEF DInv, PromiseOK, OneAsked, Asked, OneDialog, Consent, Chain
<1>. QED
  BY <1>1, <1>2, <1>3, <1>4, <1>5, <1>6 DEF DialogMove

-----------------------------------------------------------------------------
(* The clients page.                                                       *)

\* A request that cuts a subscriber off has the operator's consent.
Sent(k) == k.st = "sent" /\ k.kind \in {"delete", "setip", "removeip"}
Allowed(k) == Sent(k) => [kind |-> k.kind, id |-> k.id] \in consented

\* What a step of the pages does to the requests of the clients page.
CallMove ==
    \/ calling' = calling
    \/ \E s \in ClientSlots : \E k : /\ CallShape(k) /\ Allowed(k)
                                     /\ calling' = [calling EXCEPT ![s] = k]

LEMMA CallMoves ==
    ASSUME CallSlots, CallMove
    PROVE  /\ CallSlots'
           /\ \A s \in ClientSlots : calling'[s] # calling[s] => Allowed(calling'[s])
<1>1. CASE calling' = calling
  BY <1>1 DEF CallSlots, CallShape
<1>2. ASSUME NEW s \in ClientSlots, NEW k, CallShape(k), Allowed(k),
             calling' = [calling EXCEPT ![s] = k]
      PROVE  /\ CallSlots'
             /\ \A t \in ClientSlots : calling'[t] # calling[t] => Allowed(calling'[t])
  <2>1. /\ calling' = [t \in ClientSlots |-> calling'[t]]
        /\ \A t \in ClientSlots : calling'[t] = IF t = s THEN k ELSE calling[t]
    BY <1>2 DEF CallSlots
  <2>2. \A t \in ClientSlots : CallShape(calling'[t])
    BY <1>2, <2>1 DEF CallSlots
  <2>3. CallSlots'
    BY <2>1, <2>2 DEF CallSlots, CallShape
  <2>. QED
    BY <1>2, <2>1, <2>3
<1>. QED
  BY <1>1, <1>2 DEF CallMove

\* Writing one field of a record with these fields.
LEMMA CallEdit ==
    ASSUME NEW k, CallShape(k), NEW x
    PROVE  /\ [k EXCEPT !.st = x] = [st |-> x, kind |-> k.kind, id |-> k.id, body |-> k.body, list |-> k.list]
           /\ [k EXCEPT !.kind = x] = [st |-> k.st, kind |-> x, id |-> k.id, body |-> k.body, list |-> k.list]
           /\ [k EXCEPT !.id = x] = [st |-> k.st, kind |-> k.kind, id |-> x, body |-> k.body, list |-> k.list]
           /\ [k EXCEPT !.body = x] = [st |-> k.st, kind |-> k.kind, id |-> k.id, body |-> x, list |-> k.list]
           /\ [k EXCEPT !.list = x] = [st |-> k.st, kind |-> k.kind, id |-> k.id, body |-> k.body, list |-> x]
  BY DEF CallShape

LEMMA CallRecord ==
    ASSUME NEW a, NEW b, NEW c, NEW d, NEW e
    PROVE  CallShape([st |-> a, kind |-> b, id |-> c, body |-> d, list |-> e])
  BY DEF CallShape

\* An idle slot, and one that asks for the list.
LEMMA IdleForms ==
    ASSUME NEW x
    PROVE  /\ CallShape(IdleCall) /\ CallShape([IdleCall EXCEPT !.st = x])
           /\ IdleCall.st = "idle" /\ IdleCall.kind = "list"
           /\ [IdleCall EXCEPT !.st = x].kind = "list" /\ [IdleCall EXCEPT !.st = x].st = x
<1>. DEFINE i == CHOOSE c \in Clients : TRUE
<1>1. IdleCall = [st |-> "idle", kind |-> "list", id |-> i, body |-> NoAccount, list |-> Unread]
  BY DEF IdleCall
<1>. HIDE DEF i
<1>2. CallShape(IdleCall)
  BY <1>1, CallRecord
<1>3. [IdleCall EXCEPT !.st = x] =
         [st |-> x, kind |-> IdleCall.kind, id |-> IdleCall.id, body |-> IdleCall.body, list |-> IdleCall.list]
  BY <1>2, CallEdit
<1>4. CallShape([IdleCall EXCEPT !.st = x])
  BY <1>3, CallRecord
<1>. QED
  BY <1>1, <1>2, <1>3, <1>4

\* A read of the list, of either kind, or nothing, is no request of the dialogs'.
LEMMA ReadForms ==
    ASSUME NEW k, \/ k = IdleCall \/ k = Reading
                  \/ \E x \in {"list", "addlist"} : k = [Reading EXCEPT !.kind = x]
    PROVE  CallShape(k) /\ Allowed(k)
<1>1. CallShape(Reading) /\ Reading.kind = "list"
  BY IdleForms DEF Reading
<1>2. CASE k = IdleCall \/ k = Reading
  BY <1>1, <1>2, IdleForms DEF Allowed, Sent
<1>3. ASSUME NEW x \in {"list", "addlist"}, k = [Reading EXCEPT !.kind = x]
      PROVE  CallShape(k) /\ Allowed(k)
  <2>1. k = [st |-> Reading.st, kind |-> x, id |-> Reading.id, body |-> Reading.body, list |-> Reading.list]
    BY <1>1, <1>3, CallEdit
  <2>2. CallShape(k)
    BY <2>1, CallRecord
  <2>. QED
    BY <2>1, <2>2 DEF Allowed, Sent
<1>. QED
  BY <1>2, <1>3

\* A request of a kind that asks nothing, or one that was asked.
LEMMA PostMoves ==
    ASSUME NEW s \in ClientSlots, NEW kind, NEW c, NEW b, Post(s, kind, c, b),
           kind \in {"delete", "setip", "removeip"} => [kind |-> kind, id |-> c] \in consented
    PROVE  CallMove
<1>. DEFINE k0 == [IdleCall EXCEPT !.st = "sent"]
            k1 == [k0 EXCEPT !.kind = kind]
            k2 == [k1 EXCEPT !.id = c]
            k3 == [k2 EXCEPT !.body = b]
            k  == [IdleCall EXCEPT !.st = "sent", !.kind = kind, !.id = c, !.body = b]
<1>a. k = k3
  OBVIOUS
<1>b. CallShape(k0) /\ k0.st = "sent"
  BY IdleForms
<1>. HIDE DEF k0
<1>c. k1 = [st |-> "sent", kind |-> kind, id |-> k0.id, body |-> k0.body, list |-> k0.list]
  BY <1>b DEF CallShape
<1>d. CallShape(k1)
  BY <1>c, CallRecord
<1>. HIDE DEF k1
<1>e. k2 = [st |-> "sent", kind |-> kind, id |-> c, body |-> k1.body, list |-> k1.list]
  BY <1>c, <1>d DEF CallShape
<1>f. CallShape(k2)
  BY <1>e, CallRecord
<1>. HIDE DEF k2
<1>1. k3 = [st |-> "sent", kind |-> kind, id |-> c, body |-> b, list |-> k2.list]
  BY <1>e, <1>f DEF CallShape
<1>2. CallShape(k) /\ Allowed(k)
  BY <1>a, <1>1, CallRecord DEF Allowed, Sent
<1>3. calling' = [calling EXCEPT ![s] = k]
  BY DEF Post
<1>. QED
  BY <1>2, <1>3 DEF CallMove

LEMMA ClientsQuestion ==
    ASSUME NEW k \in {"delete", "setip", "removeip"}, NEW c \in Clients
    PROVE  [kind |-> k, id |-> c] \in Questions /\ ~Follows([kind |-> k, id |-> c])
<1>1. [kind |-> k, id |-> c].kind \notin {"password", "code"}
  OBVIOUS
<1>. QED
  BY <1>1, ClientsAssumption, SettingQuestion DEF Follows

\* The page's buttons and forms.
LEMMA ClientActs ==
    ASSUME DInv, NEW s \in ClientSlots,
           \/ \E c \in Clients : CardAction(s, c)
           \/ \E c \in Clients, ip \in BOOLEAN : SubmitAdd(s, c, ip)
           \/ \E kind \in {"regen", "reset", "save"} : EditPosts(s, kind)
    PROVE  CallMove /\ DialogMove
<1>1. UNCHANGED dialogVars
  BY DEF CardAction, SubmitAdd, EditPosts
<1>2. DialogMove
  BY <1>1 DEF DialogMove, dialogVars
<1>3. ASSUME NEW c \in Clients, CardAction(s, c) PROVE CallMove
  BY <1>3, PostMoves DEF CardAction
<1>4. ASSUME NEW c \in Clients, NEW ip \in BOOLEAN, SubmitAdd(s, c, ip) PROVE CallMove
  BY <1>4, PostMoves DEF SubmitAdd
<1>5. ASSUME NEW kind \in {"regen", "reset", "save"}, EditPosts(s, kind) PROVE CallMove
  BY <1>5, PostMoves DEF EditPosts
<1>. QED
  BY <1>2, <1>3, <1>4, <1>5

\* The handlers behind a dialog.
LEMMA CardDialogs ==
    ASSUME DInv, NEW k \in {"delete", "setip", "removeip"}, NEW c \in Clients,
           \/ CardAsks([kind |-> k, id |-> c]) \/ CardCancelled([kind |-> k, id |-> c])
           \/ \E s \in ClientSlots : CardConfirmed(s, [kind |-> k, id |-> c])
    PROVE  CallMove /\ DialogMove
<1>. DEFINE q == [kind |-> k, id |-> c]
<1>1. q \in Questions /\ ~Follows(q) /\ q.kind = k /\ q.id = c
  BY ClientsQuestion
<1>. HIDE DEF q
<1>2. CASE CardAsks(q)
  <2>1. PageFree /\ ShowDialog(q) /\ calling' = calling
    BY <1>2 DEF CardAsks, OnPage
  <2>. QED
    BY <1>1, <2>1 DEF CallMove, DialogMove
<1>3. CASE CardCancelled(q)
  <2>1. TakeAnswer(q, "no") /\ calling' = calling
    BY <1>3 DEF CardCancelled, clientsOnly
  <2>. QED
    BY <1>1, <2>1 DEF CallMove, DialogMove
<1>4. ASSUME NEW s \in ClientSlots, CardConfirmed(s, q) PROVE CallMove /\ DialogMove
  <2>1. TakeAnswer(q, "yes") /\ Post(s, k, c, NoAccount)
    BY <1>1, <1>4 DEF CardConfirmed
  <2>2. q \in consented
    BY <1>1, <2>1 DEF TakeAnswer, DInv, Consent
  <2>3. [kind |-> k, id |-> c] \in consented
    BY <2>2 DEF q
  <2>. QED
    BY <1>1, <2>1, <2>3, PostMoves DEF DialogMove
<1>. QED
  BY <1>2, <1>3, <1>4 DEF q

\* The daemon's answer changes what a slot waits for, never into a request.
LEMMA ClientServed ==
    ASSUME CallSlots, NEW s \in ClientSlots, Serve(s) \/ Refuse(s) PROVE CallMove /\ DialogMove
<1>. DEFINE k == calling[s]
<1>1. CallShape(k)
  BY DEF CallSlots
<1>2. UNCHANGED dialogVars
  BY DEF Serve, Refuse
<1>3. ASSUME NEW st \in {"ok", "lost", "refused", "expired"}
      PROVE  CallShape([k EXCEPT !.st = st]) /\ [k EXCEPT !.st = st].st = st
  <2>1. [k EXCEPT !.st = st] = [st |-> st, kind |-> k.kind, id |-> k.id, body |-> k.body, list |-> k.list]
    BY <1>1, CallEdit
  <2>. QED
    BY <2>1, CallRecord
<1>4. ASSUME NEW b, NEW l, calling' = [calling EXCEPT ![s].st = "ok", ![s].body = b, ![s].list = l]
      PROVE  CallMove
  <2>. DEFINE k1 == [k EXCEPT !.st = "ok"]
              k2 == [k1 EXCEPT !.body = b]
              k3 == [k2 EXCEPT !.list = l]
  <2>1. calling' = [calling EXCEPT ![s] = k3]
    BY <1>4 DEF CallSlots
  <2>2. CallShape(k1) /\ k1.st = "ok"
    BY <1>3
  <2>. HIDE DEF k1
  <2>3. k2 = [st |-> "ok", kind |-> k1.kind, id |-> k1.id, body |-> b, list |-> k1.list]
    BY <2>2, CallEdit
  <2>4. CallShape(k2)
    BY <2>3, CallRecord
  <2>. HIDE DEF k2
  <2>5. k3 = [st |-> "ok", kind |-> k2.kind, id |-> k2.id, body |-> k2.body, list |-> l]
    BY <2>3, <2>4, CallEdit
  <2>6. CallShape(k3) /\ Allowed(k3)
    BY <2>5, CallRecord DEF Allowed, Sent
  <2>. QED
    BY <2>1, <2>6 DEF CallMove
<1>5. ASSUME NEW st \in {"lost", "refused", "expired"}, calling' = [calling EXCEPT ![s].st = st]
      PROVE  CallMove
  <2>1. calling' = [calling EXCEPT ![s] = [k EXCEPT !.st = st]]
    BY <1>5
  <2>2. CallShape([k EXCEPT !.st = st]) /\ Allowed([k EXCEPT !.st = st])
    BY <1>3 DEF Allowed, Sent
  <2>. QED
    BY <2>1, <2>2 DEF CallMove
<1>6. CASE Serve(s)
  <2>. DEFINE b == accounts'[k.id]
              l == IF IsList(k) THEN accounts ELSE Unread
  <2>1. \/ calling' = [calling EXCEPT ![s].st = "ok", ![s].body = b, ![s].list = l]
        \/ calling' = [calling EXCEPT ![s].st = "lost"]
    BY <1>6 DEF Serve
  <2>. HIDE DEF b, l
  <2>2. CallMove
    <3>1. CASE calling' = [calling EXCEPT ![s].st = "ok", ![s].body = b, ![s].list = l]
      BY <1>4, <3>1
    <3>2. CASE calling' = [calling EXCEPT ![s].st = "lost"]
      BY <1>5, <3>2
    <3>. QED
      BY <2>1, <3>1, <3>2
  <2>. QED
    BY <2>2, <1>2 DEF DialogMove, dialogVars
<1>7. CASE Refuse(s)
  <2>1. \E st \in {"refused", "expired"} : calling' = [calling EXCEPT ![s].st = st]
    BY <1>7 DEF Refuse
  <2>. QED
    BY <1>5, <2>1, <1>2 DEF DialogMove, dialogVars
<1>. QED
  BY <1>6, <1>7

\* An answer frees its slot, or puts a read of the list into it.
LEMMA ClientAnswers ==
    ASSUME CallSlots, NEW s \in ClientSlots,
           ListAnswered(s) \/ ChangeAnswered(s) \/ RegenAnswered(s) \/ SignInAgain(s)
    PROVE  CallMove /\ DialogMove
<1>1. \/ calling' = [calling EXCEPT ![s] = IdleCall]
      \/ calling' = [calling EXCEPT ![s] = Reading]
      \/ \E x \in {"list", "addlist"} : calling' = [calling EXCEPT ![s] = [Reading EXCEPT !.kind = x]]
  BY DEF ListAnswered, ChangeAnswered, RegenAnswered, SignInAgain
<1>2. CallMove
  BY <1>1, ReadForms DEF CallMove
<1>3. UNCHANGED <<active, promise, consented>>
  BY DEF ListAnswered, ChangeAnswered, RegenAnswered, SignInAgain, OpenModal, CloseModal, Shown, dialogVars
<1>. QED
  BY <1>2, <1>3 DEF DialogMove

LEMMA ClientsSteps == ASSUME DInv, CallSlots, ClientsNext PROVE CallMove /\ DialogMove
<1>1. CASE SearchInput \/ SearchTimer \/ ClearSearch \/ EditEnabled
  <2>1. calling' = calling /\ UNCHANGED dialogVars
    BY <1>1 DEF SearchInput, SearchTimer, ClearSearch, EditEnabled
  <2>. QED
    BY <2>1 DEF CallMove, DialogMove, dialogVars
<1>2. CASE OpenAddForm \/ (\E c \in Clients : OpenEdit(c)) \/ (\E m \in ModalNames : CloseButton(m))
  <2>1. calling' = calling /\ UNCHANGED <<active, promise, consented>>
    BY <1>2 DEF OpenAddForm, OpenEdit, CloseButton, OpenModal, CloseModal, Shown, clientsOnly
  <2>. QED
    BY <2>1 DEF CallMove, DialogMove
<1>3. CASE PageKeys
  <2>1. calling' = calling
    BY <1>3 DEF PageKeys, clientsOnly
  <2>2. \/ CancelDialog \/ ConfirmDialog \/ UNCHANGED <<active, promise, consented>>
    BY <1>3 DEF PageKeys, EscapeModal, ToggleDatePicker
  <2>. QED
    BY <2>1, <2>2 DEF CallMove, DialogMove
<1>. QED
  BY <1>1, <1>2, <1>3, CardDialogs, ClientActs, ClientServed, ClientAnswers DEF ClientsNext

-----------------------------------------------------------------------------
(* The settings page.                                                      *)

\* What the operator must have confirmed for a request of this kind.
Granted(k) ==
    /\ k.kind \in {"restart", "upstream"} => Question(k.kind) \in consented
    /\ k.kind = "rotate" =>
          /\ Question("rotate") \in consented /\ Question("password") \in consented
          /\ totp => Question("code") \in consented

\* What a step does to the requests of the settings page and to the diagnostic run:
\* nothing; a request that starts no run; a run; the daemon's answer; its arrival.
Requests(s, k) == /\ PostShape(k) /\ k.st = "sent" /\ Granted(k)
                  /\ posts[s].st = "idle" /\ posts' = [posts EXCEPT ![s] = k]
Asks(s) == \E k : Requests(s, k) /\ k.kind # "diag" /\ UNCHANGED diagVars
Starts(s) == \E k : /\ Requests(s, k) /\ k.kind = "diag" /\ k.run = diagRuns + 1
                    /\ ~diagRunning /\ diagRunning' = TRUE /\ diagRuns' = diagRuns + 1
                    /\ diagShown' = 0
Replies(s) == \E k : /\ PostShape(k) /\ k.st \in {"ok", "lost", "refused"}
                     /\ k.kind = posts[s].kind /\ k.run = posts[s].run
                     /\ posts[s].st = "sent" /\ posts' = [posts EXCEPT ![s] = k]
                     /\ UNCHANGED diagVars
Arrives(s) == /\ posts[s].st # "idle" /\ posts' = [posts EXCEPT ![s] = IdlePost]
              /\ diagRunning' = (diagRunning /\ posts[s].kind # "diag")
              /\ diagShown' = IF posts[s].kind = "diag" THEN posts[s].run ELSE diagShown
              /\ diagRuns' = diagRuns
PostMove == \/ posts' = posts /\ UNCHANGED diagVars
            \/ \E s \in SettingSlots : Asks(s) \/ Starts(s) \/ Replies(s) \/ Arrives(s)

LEMMA PostRecord ==
    ASSUME NEW a, NEW b, NEW c, NEW d, NEW e, NEW f, NEW g, NEW h
    PROVE  PostShape([st |-> a, kind |-> b, nth |-> c, bind |-> d, tele |-> e, run |-> f,
                      who |-> g, answer |-> h])
  BY DEF PostShape

LEMMA IdlePostForm == PostShape(IdlePost) /\ IdlePost.st = "idle" /\ IdlePost.kind = "read"
<1>. DEFINE a == FirstSettings
<1>1. IdlePost = [st |-> "idle", kind |-> "read", nth |-> 0, bind |-> FALSE, tele |-> 0, run |-> 0,
                  who |-> "panel", answer |-> a]
  BY DEF IdlePost
<1>. HIDE DEF a
<1>. QED
  BY <1>1, PostRecord

\* Writing one field.
LEMMA Edit_st ==
    ASSUME NEW k, PostShape(k), NEW x
    PROVE  /\ PostShape([k EXCEPT !.st = x]) /\ [k EXCEPT !.st = x].st = x
           /\ [k EXCEPT !.st = x].kind = k.kind /\ [k EXCEPT !.st = x].run = k.run
<1>1. [k EXCEPT !.st = x] =
         [st |-> x, kind |-> k.kind, nth |-> k.nth, bind |-> k.bind,
          tele |-> k.tele, run |-> k.run, who |-> k.who, answer |-> k.answer]
  BY DEF PostShape
<1>. QED
  BY <1>1, PostRecord

LEMMA Edit_kind ==
    ASSUME NEW k, PostShape(k), NEW x
    PROVE  /\ PostShape([k EXCEPT !.kind = x]) /\ [k EXCEPT !.kind = x].st = k.st
           /\ [k EXCEPT !.kind = x].kind = x /\ [k EXCEPT !.kind = x].run = k.run
<1>1. [k EXCEPT !.kind = x] =
         [st |-> k.st, kind |-> x, nth |-> k.nth, bind |-> k.bind,
          tele |-> k.tele, run |-> k.run, who |-> k.who, answer |-> k.answer]
  BY DEF PostShape
<1>. QED
  BY <1>1, PostRecord

LEMMA Edit_nth ==
    ASSUME NEW k, PostShape(k), NEW x
    PROVE  /\ PostShape([k EXCEPT !.nth = x]) /\ [k EXCEPT !.nth = x].st = k.st
           /\ [k EXCEPT !.nth = x].kind = k.kind /\ [k EXCEPT !.nth = x].run = k.run
<1>1. [k EXCEPT !.nth = x] =
         [st |-> k.st, kind |-> k.kind, nth |-> x, bind |-> k.bind,
          tele |-> k.tele, run |-> k.run, who |-> k.who, answer |-> k.answer]
  BY DEF PostShape
<1>. QED
  BY <1>1, PostRecord

LEMMA Edit_bind ==
    ASSUME NEW k, PostShape(k), NEW x
    PROVE  /\ PostShape([k EXCEPT !.bind = x]) /\ [k EXCEPT !.bind = x].st = k.st
           /\ [k EXCEPT !.bind = x].kind = k.kind /\ [k EXCEPT !.bind = x].run = k.run
<1>1. [k EXCEPT !.bind = x] =
         [st |-> k.st, kind |-> k.kind, nth |-> k.nth, bind |-> x,
          tele |-> k.tele, run |-> k.run, who |-> k.who, answer |-> k.answer]
  BY DEF PostShape
<1>. QED
  BY <1>1, PostRecord

LEMMA Edit_tele ==
    ASSUME NEW k, PostShape(k), NEW x
    PROVE  /\ PostShape([k EXCEPT !.tele = x]) /\ [k EXCEPT !.tele = x].st = k.st
           /\ [k EXCEPT !.tele = x].kind = k.kind /\ [k EXCEPT !.tele = x].run = k.run
<1>1. [k EXCEPT !.tele = x] =
         [st |-> k.st, kind |-> k.kind, nth |-> k.nth, bind |-> k.bind,
          tele |-> x, run |-> k.run, who |-> k.who, answer |-> k.answer]
  BY DEF PostShape
<1>. QED
  BY <1>1, PostRecord

LEMMA Edit_run ==
    ASSUME NEW k, PostShape(k), NEW x
    PROVE  /\ PostShape([k EXCEPT !.run = x]) /\ [k EXCEPT !.run = x].st = k.st
           /\ [k EXCEPT !.run = x].kind = k.kind /\ [k EXCEPT !.run = x].run = x
<1>1. [k EXCEPT !.run = x] =
         [st |-> k.st, kind |-> k.kind, nth |-> k.nth, bind |-> k.bind,
          tele |-> k.tele, run |-> x, who |-> k.who, answer |-> k.answer]
  BY DEF PostShape
<1>. QED
  BY <1>1, PostRecord

LEMMA Edit_who ==
    ASSUME NEW k, PostShape(k), NEW x
    PROVE  /\ PostShape([k EXCEPT !.who = x]) /\ [k EXCEPT !.who = x].st = k.st
           /\ [k EXCEPT !.who = x].kind = k.kind /\ [k EXCEPT !.who = x].run = k.run
<1>1. [k EXCEPT !.who = x] =
         [st |-> k.st, kind |-> k.kind, nth |-> k.nth, bind |-> k.bind,
          tele |-> k.tele, run |-> k.run, who |-> x, answer |-> k.answer]
  BY DEF PostShape
<1>. QED
  BY <1>1, PostRecord

LEMMA Edit_answer ==
    ASSUME NEW k, PostShape(k), NEW x
    PROVE  /\ PostShape([k EXCEPT !.answer = x]) /\ [k EXCEPT !.answer = x].st = k.st
           /\ [k EXCEPT !.answer = x].kind = k.kind /\ [k EXCEPT !.answer = x].run = k.run
<1>1. [k EXCEPT !.answer = x] =
         [st |-> k.st, kind |-> k.kind, nth |-> k.nth, bind |-> k.bind,
          tele |-> k.tele, run |-> k.run, who |-> k.who, answer |-> x]
  BY DEF PostShape
<1>. QED
  BY <1>1, PostRecord

\* The moves keep what the invariant says of the slots and of the run.
LEMMA PutPost ==
    ASSUME PostSlots, NEW s \in SettingSlots, NEW k, PostShape(k), posts' = [posts EXCEPT ![s] = k]
    PROVE  /\ PostSlots'
           /\ \A t \in SettingSlots : posts'[t] = IF t = s THEN k ELSE posts[t]
<1>1. /\ posts' = [t \in SettingSlots |-> posts'[t]]
      /\ \A t \in SettingSlots : posts'[t] = IF t = s THEN k ELSE posts[t]
  BY DEF PostSlots
<1>2. \A t \in SettingSlots : PostShape(posts'[t])
  BY <1>1 DEF PostSlots
<1>3. PostSlots'
  BY <1>1, <1>2 DEF PostSlots, PostShape
<1>. QED
  BY <1>1, <1>3

\* Every request a step sends has its consent.
Permitted == \A s \in SettingSlots :
                posts'[s] # posts[s] /\ posts'[s].st = "sent" => Granted(posts'[s])

LEMMA AsksKeeps ==
    ASSUME PagePosts, NEW s \in SettingSlots, Asks(s) PROVE PagePosts' /\ Permitted
<1>1. PICK k : Requests(s, k) /\ k.kind # "diag" /\ UNCHANGED diagVars
  BY DEF Asks
<1>2. PostSlots' /\ \A t \in SettingSlots : posts'[t] = IF t = s THEN k ELSE posts[t]
  BY <1>1, PutPost DEF PagePosts, Requests
<1>3. Permitted
  BY <1>1, <1>2 DEF Permitted, Requests
<1>4. \A t \in SettingSlots : Diag(t)' => Diag(t) /\ posts'[t] = posts[t]
  BY <1>1, <1>2 DEF Diag
<1>5. DiagInv'
  BY <1>1, <1>4 DEF PagePosts, DiagInv, diagVars
<1>6. LatestReport'
  BY <1>1 DEF PagePosts, LatestReport, diagVars
<1>. QED
  BY <1>2, <1>3, <1>5, <1>6 DEF PagePosts

LEMMA StartsKeeps ==
    ASSUME PagePosts, NEW s \in SettingSlots, Starts(s) PROVE PagePosts' /\ Permitted
<1>1. PICK k : /\ Requests(s, k) /\ k.kind = "diag" /\ k.run = diagRuns + 1
               /\ ~diagRunning /\ diagRunning' = TRUE /\ diagRuns' = diagRuns + 1
               /\ diagShown' = 0
  BY DEF Starts
<1>2. PostSlots' /\ \A t \in SettingSlots : posts'[t] = IF t = s THEN k ELSE posts[t]
  BY <1>1, PutPost DEF PagePosts, Requests
<1>3. Permitted
  BY <1>1, <1>2 DEF Permitted, Requests
<1>4. \A t \in SettingSlots : ~Diag(t)
  BY <1>1 DEF PagePosts, DiagInv
<1>5. \A t \in SettingSlots : Diag(t)' => t = s
  BY <1>2, <1>4 DEF Diag
<1>6. posts'[s].run = diagRuns'
  BY <1>1, <1>2
<1>7. DiagInv'
  BY <1>1, <1>5, <1>6 DEF DiagInv
<1>8. LatestReport'
  BY <1>1 DEF LatestReport
<1>. QED
  BY <1>2, <1>3, <1>7, <1>8 DEF PagePosts

LEMMA RepliesKeeps ==
    ASSUME PagePosts, NEW s \in SettingSlots, Replies(s) PROVE PagePosts' /\ Permitted
<1>1. PICK k : /\ PostShape(k) /\ k.st \in {"ok", "lost", "refused"}
               /\ k.kind = posts[s].kind /\ k.run = posts[s].run
               /\ posts[s].st = "sent" /\ posts' = [posts EXCEPT ![s] = k]
               /\ UNCHANGED diagVars
  BY DEF Replies
<1>2. PostSlots' /\ \A t \in SettingSlots : posts'[t] = IF t = s THEN k ELSE posts[t]
  BY <1>1, PutPost DEF PagePosts
<1>3. Permitted
  BY <1>1, <1>2 DEF Permitted
<1>4. \A t \in SettingSlots : Diag(t)' => Diag(t) /\ posts'[t].run = posts[t].run
  BY <1>1, <1>2 DEF Diag
<1>5. DiagInv'
  BY <1>1, <1>4 DEF PagePosts, DiagInv, diagVars
<1>6. LatestReport'
  BY <1>1 DEF PagePosts, LatestReport, diagVars
<1>. QED
  BY <1>2, <1>3, <1>5, <1>6 DEF PagePosts

LEMMA ArrivesKeeps ==
    ASSUME PagePosts, NEW s \in SettingSlots, Arrives(s) PROVE PagePosts' /\ Permitted
<1>2. PostSlots' /\ \A t \in SettingSlots : posts'[t] = IF t = s THEN IdlePost ELSE posts[t]
  BY PutPost, IdlePostForm DEF PagePosts, Arrives
<1>3. Permitted
  BY <1>2, IdlePostForm DEF Permitted
<1>4. \A t \in SettingSlots : Diag(t)' => Diag(t) /\ t # s /\ posts'[t].run = posts[t].run
  BY <1>2, IdlePostForm DEF Diag
<1>5. CASE posts[s].kind = "diag"
  <2>1. Diag(s)
    BY <1>5 DEF Diag, Arrives
  <2>2. \A t \in SettingSlots : ~Diag(t)'
    BY <1>4, <2>1 DEF PagePosts, DiagInv
  <2>3. diagShown' = diagRuns'
    BY <1>5, <2>1 DEF PagePosts, DiagInv, Arrives
  <2>. QED
    BY <1>2, <1>3, <2>2, <2>3 DEF PagePosts, DiagInv, LatestReport
<1>6. CASE posts[s].kind # "diag"
  <2>2. diagRunning => diagRunning'
    BY <1>6 DEF Arrives
  <2>3. diagShown' = diagShown /\ diagRuns' = diagRuns
    BY <1>6 DEF Arrives
  <2>4. DiagInv'
    BY <1>4, <2>2, <2>3 DEF PagePosts, DiagInv
  <2>. QED
    BY <1>2, <1>3, <2>3, <2>4 DEF PagePosts, LatestReport
<1>. QED
  BY <1>5, <1>6

LEMMA PostKeeps == ASSUME PagePosts, PostMove PROVE PagePosts' /\ Permitted
<1>1. CASE posts' = posts /\ UNCHANGED diagVars
  BY <1>1 DEF PagePosts, Permitted, PostSlots, PostShape, DiagInv, Diag, LatestReport, diagVars
<1>. QED
  BY <1>1, AsksKeeps, StartsKeeps, RepliesKeeps, ArrivesKeeps DEF PostMove

\* PostSetting, with whatever fields the handler fills.
LEMMA PostForm ==
    ASSUME NEW s \in SettingSlots, NEW kind, NEW w, PostShape(w), PostSetting(s, kind, w)
    PROVE  \E k : /\ PostShape(k) /\ k.st = "sent" /\ k.kind = kind /\ k.run = w.run
                  /\ posts[s].st = "idle" /\ posts' = [posts EXCEPT ![s] = k]
<1>. DEFINE n  == settingActs + 1
            k0 == [w EXCEPT !.st = "sent"]
            k1 == [k0 EXCEPT !.kind = kind]
            k2 == [k1 EXCEPT !.nth = n]
<1>1. posts[s].st = "idle" /\ posts' = [posts EXCEPT ![s] = k2]
  BY DEF PostSetting
<1>. HIDE DEF n
<1>2. PostShape(k0) /\ k0.st = "sent" /\ k0.run = w.run
  BY Edit_st
<1>. HIDE DEF k0
<1>3. PostShape(k1) /\ k1.st = "sent" /\ k1.kind = kind /\ k1.run = w.run
  BY <1>2, Edit_kind
<1>. HIDE DEF k1
<1>4. PostShape(k2) /\ k2.st = "sent" /\ k2.kind = kind /\ k2.run = w.run
  BY <1>3, Edit_nth
<1>. QED
  BY <1>1, <1>4

\* A request that needs no consent, or has it.
LEMMA AsksForm ==
    ASSUME NEW s \in SettingSlots, NEW kind, NEW w, PostShape(w), PostSetting(s, kind, w),
           kind # "diag", UNCHANGED diagVars,
           kind \in {"restart", "upstream"} => Question(kind) \in consented,
           kind = "rotate" => /\ Question("rotate") \in consented
                              /\ Question("password") \in consented
                              /\ totp => Question("code") \in consented
    PROVE  PostMove
<1>1. PICK k : /\ PostShape(k) /\ k.st = "sent" /\ k.kind = kind /\ k.run = w.run
               /\ posts[s].st = "idle" /\ posts' = [posts EXCEPT ![s] = k]
  BY PostForm
<1>2. Granted(k)
  BY <1>1 DEF Granted
<1>3. Asks(s)
  BY <1>1, <1>2 DEF Asks, Requests
<1>. QED
  BY <1>3 DEF PostMove

LEMMA GuardedMoves ==
    ASSUME NEW kind \in {"rotate", "restart", "upstream"}, Guarded(kind)
    PROVE  PostMove /\ DialogMove
<1>1. /\ PageFree /\ ShowDialog(Question(kind)) /\ posts' = posts /\ UNCHANGED diagVars
  BY DEF Guarded, Pressed
<1>2. Question(kind) \in Questions /\ ~Follows(Question(kind))
  BY SettingQuestion DEF Follows
<1>. QED
  BY <1>1, <1>2 DEF PostMove, DialogMove

\* The requests behind a dialog, or behind the last of a chain.
LEMMA ConsentedMoves ==
    ASSUME DInv, NEW s \in SettingSlots, RotateKey(s) \/ Confirmed(s)
    PROVE  PostMove /\ DialogMove
<1>1. ASSUME NEW last \in {"restart", "upstream", "password", "code"}, NEW kind,
             GuardedPost(s, last, kind)
      PROVE  /\ Question(last) \in consented /\ Asked(Question(last)) /\ DialogMove
             /\ PostSetting(s, kind, IdlePost) /\ UNCHANGED diagVars
  <2>1. /\ TakeAnswer(Question(last), "yes") /\ PostSetting(s, kind, IdlePost)
        /\ UNCHANGED diagVars
    BY <1>1 DEF GuardedPost
  <2>2. Question(last) \in Questions
    BY SettingQuestion
  <2>3. promise[Question(last)] = "yes"
    BY <2>1 DEF TakeAnswer
  <2>. QED
    BY <2>1, <2>2, <2>3 DEF DInv, Consent, Asked, DialogMove
<1>2. CASE Confirmed(s)
  <2>1. PICK kind \in {"restart", "upstream"} : GuardedPost(s, kind, kind)
    BY <1>2 DEF Confirmed
  <2>2. /\ Question(kind) \in consented /\ DialogMove
        /\ PostSetting(s, kind, IdlePost) /\ UNCHANGED diagVars
    BY <1>1, <2>1
  <2>. QED
    BY <2>1, <2>2, AsksForm, IdlePostForm
<1>3. CASE RotateKey(s) /\ totp
  <2>1. GuardedPost(s, "code", "rotate")
    BY <1>3 DEF RotateKey
  <2>2. /\ Question("code") \in consented /\ Asked(Question("code")) /\ DialogMove
        /\ PostSetting(s, "rotate", IdlePost) /\ UNCHANGED diagVars
    BY <1>1, <2>1
  <2>3. Question("rotate") \in consented /\ Question("password") \in consented
    BY <2>2 DEF DInv, Chain
  <2>. QED
    BY <2>2, <2>3, AsksForm, IdlePostForm
<1>4. CASE RotateKey(s) /\ ~totp
  <2>1. GuardedPost(s, "password", "rotate")
    BY <1>4 DEF RotateKey
  <2>2. /\ Question("password") \in consented /\ Asked(Question("password")) /\ DialogMove
        /\ PostSetting(s, "rotate", IdlePost) /\ UNCHANGED diagVars
    BY <1>1, <2>1
  <2>3. Question("rotate") \in consented
    BY <2>2 DEF DInv, Chain
  <2>. QED
    BY <1>4, <2>2, <2>3, AsksForm, IdlePostForm
<1>. QED
  BY <1>2, <1>3, <1>4

\* The controls that ask nothing.
LEMMA PlainMoves ==
    ASSUME NEW s \in SettingSlots,
           \/ TogglePublic(s) \/ SaveTelegram(s) \/ RegenAdminPath(s)
           \/ \E p \in Surfaces : ReadSettings(s, p)
    PROVE  PostMove /\ DialogMove
<1>1. UNCHANGED dialogVars /\ UNCHANGED diagVars
  BY DEF TogglePublic, SaveTelegram, RegenAdminPath, ReadSettings
<1>2. DialogMove
  BY <1>1 DEF DialogMove, dialogVars
<1>3. \/ posts' = posts
      \/ \E kind \in {"bind", "telesave", "path", "read"}, x \in BOOLEAN \cup Surfaces \cup {teleForm.val} :
            \/ PostSetting(s, kind, IdlePost)
            \/ PostSetting(s, kind, [IdlePost EXCEPT !.bind = x])
            \/ PostSetting(s, kind, [IdlePost EXCEPT !.tele = x])
            \/ PostSetting(s, kind, [IdlePost EXCEPT !.who = x])
  <2>1. CASE TogglePublic(s)
    <3>1. posts' = posts \/ PostSetting(s, "bind", [IdlePost EXCEPT !.bind = ~box])
      BY <2>1 DEF TogglePublic
    <3>2. (~box) \in BOOLEAN
      OBVIOUS
    <3>. QED
      BY <3>1, <3>2
  <2>2. CASE SaveTelegram(s)
    BY <2>2 DEF SaveTelegram
  <2>3. CASE RegenAdminPath(s)
    BY <2>3 DEF RegenAdminPath
  <2>4. CASE \E p \in Surfaces : ReadSettings(s, p)
    BY <2>4 DEF ReadSettings
  <2>. QED
    BY <2>1, <2>2, <2>3, <2>4
<1>4. ASSUME NEW kind \in {"bind", "telesave", "path", "read"}, NEW w, PostShape(w),
             PostSetting(s, kind, w)
      PROVE  PostMove
  BY <1>1, <1>4, AsksForm
<1>5. CASE posts' = posts
  BY <1>1, <1>2, <1>5 DEF PostMove
<1>6. ASSUME NEW x
      PROVE  /\ PostShape([IdlePost EXCEPT !.bind = x]) /\ PostShape([IdlePost EXCEPT !.tele = x])
             /\ PostShape([IdlePost EXCEPT !.who = x]) /\ PostShape(IdlePost)
  BY Edit_bind, Edit_tele, Edit_who, IdlePostForm
<1>. QED
  BY <1>2, <1>3, <1>4, <1>5, <1>6

LEMMA DiagnoseMoves ==
    ASSUME NEW s \in SettingSlots, Diagnose(s) PROVE PostMove /\ DialogMove
<1>1. UNCHANGED <<active, promise, consented>> /\ RunFullDiagnostics(s)
  BY DEF Diagnose, OpenModal, Shown, dialogVars
<1>2. CASE diagRunning
  BY <1>1, <1>2 DEF RunFullDiagnostics, PostMove, DialogMove
<1>3. CASE ~diagRunning
  <2>. DEFINE r == diagRuns + 1
              w == [IdlePost EXCEPT !.run = r]
  <2>1. /\ diagRunning' = TRUE /\ diagRuns' = r /\ diagShown' = 0
        /\ PostSetting(s, "diag", w)
    BY <1>1, <1>3 DEF RunFullDiagnostics
  <2>2. PostShape(w) /\ w.run = r
    BY Edit_run, IdlePostForm
  <2>. HIDE DEF w
  <2>3. PICK k : /\ PostShape(k) /\ k.st = "sent" /\ k.kind = "diag" /\ k.run = w.run
                 /\ posts[s].st = "idle" /\ posts' = [posts EXCEPT ![s] = k]
    BY <2>1, <2>2, PostForm
  <2>4. Starts(s)
    BY <1>3, <2>1, <2>2, <2>3 DEF Starts, Requests, Granted
  <2>. QED
    BY <1>1, <2>4 DEF PostMove, DialogMove
<1>. QED
  BY <1>2, <1>3

LEMMA ReplyMoves ==
    ASSUME PostSlots, NEW s \in SettingSlots, ServeSetting(s) \/ RefuseSetting(s)
    PROVE  PostMove /\ DialogMove
<1>. DEFINE k == posts[s]
<1>1. PostShape(k) /\ k.st = "sent"
  BY DEF PostSlots, ServeSetting, RefuseSetting
<1>2. UNCHANGED dialogVars /\ UNCHANGED diagVars
  BY DEF ServeSetting, RefuseSetting
<1>3. \/ posts' = [posts EXCEPT ![s].st = "ok", ![s].answer = settings']
      \/ posts' = [posts EXCEPT ![s].st = "lost"]
      \/ posts' = [posts EXCEPT ![s].st = "refused"]
  BY DEF ServeSetting, RefuseSetting
<1>4. CASE posts' = [posts EXCEPT ![s].st = "ok", ![s].answer = settings']
  <2>. DEFINE k1 == [k EXCEPT !.st = "ok"]
              k2 == [k1 EXCEPT !.answer = settings']
  <2>1. posts' = [posts EXCEPT ![s] = k2]
    BY <1>4 DEF PostSlots
  <2>2. PostShape(k1) /\ k1.st = "ok" /\ k1.kind = k.kind /\ k1.run = k.run
    BY <1>1, Edit_st
  <2>. HIDE DEF k1
  <2>3. PostShape(k2) /\ k2.st = "ok" /\ k2.kind = k.kind /\ k2.run = k.run
    BY <2>2, Edit_answer
  <2>4. Replies(s)
    BY <1>1, <1>2, <2>1, <2>3 DEF Replies
  <2>. QED
    BY <1>2, <2>4 DEF PostMove, DialogMove, dialogVars
<1>5. ASSUME NEW st \in {"lost", "refused"}, posts' = [posts EXCEPT ![s].st = st]
      PROVE  PostMove /\ DialogMove
  <2>. DEFINE k1 == [k EXCEPT !.st = st]
  <2>1. posts' = [posts EXCEPT ![s] = k1]
    BY <1>5
  <2>2. PostShape(k1) /\ k1.st = st /\ k1.kind = k.kind /\ k1.run = k.run
    BY <1>1, Edit_st
  <2>. HIDE DEF k1
  <2>3. Replies(s)
    BY <1>1, <1>2, <2>1, <2>2 DEF Replies
  <2>. QED
    BY <1>2, <2>3 DEF PostMove, DialogMove, dialogVars
<1>. QED
  BY <1>3, <1>4, <1>5

LEMMA SettingsSteps ==
    ASSUME DInv, PostSlots, SettingsNext PROVE PostMove /\ DialogMove
<1>1. ASSUME NEW kind \in {"rotate", "restart", "upstream"}, Guarded(kind)
      PROVE  PostMove /\ DialogMove
  BY <1>1, GuardedMoves
<1>2. CASE RotatePassword \/ RotateCode
  BY <1>2 DEF RotatePassword, RotateCode, AskOn, settingsOnly, PostMove, DialogMove
<1>3. CASE Declined
  <2>1. PICK q \in SettingQuestions : TakeAnswer(q, "no") /\ UNCHANGED settingsOnly
    BY <1>3 DEF Declined
  <2>2. q \in Questions /\ posts' = posts /\ UNCHANGED diagVars
    BY <2>1, SettingsAssumption DEF settingsOnly
  <2>. QED
    BY <2>1, <2>2 DEF PostMove, DialogMove
<1>4. CASE SettingKeys
  <2>1. posts' = posts /\ UNCHANGED diagVars
    BY <1>4 DEF SettingKeys, settingsOnly
  <2>2. CancelDialog \/ ConfirmDialog \/ UNCHANGED <<active, promise, consented>>
    BY <1>4 DEF SettingKeys, EscapeModal
  <2>. QED
    BY <2>1, <2>2 DEF PostMove, DialogMove
<1>5. ASSUME NEW v \in 0 .. 2, TypeTelegram(v) PROVE PostMove /\ DialogMove
  BY <1>5 DEF TypeTelegram, PostMove, DialogMove, dialogVars
<1>6. ASSUME NEW p \in Surfaces, PressIssue(p) \/ IssueServed(p) \/ IssueFailed(p) \/ PollIssue(p)
      PROVE  PostMove /\ DialogMove
  <2>1. posts' = posts /\ UNCHANGED diagVars /\ UNCHANGED dialogVars
    BY <1>6 DEF PressIssue, IssueServed, IssueFailed, PollIssue, pageState
  <2>. QED
    BY <2>1 DEF PostMove, DialogMove, dialogVars
<1>7. CASE AcmeStep
  BY <1>7 DEF AcmeStep, PostMove, DialogMove, dialogVars
<1>8. ASSUME NEW s \in SettingSlots, RotateKey(s) \/ Confirmed(s) PROVE PostMove /\ DialogMove
  BY <1>8, ConsentedMoves
<1>9. ASSUME NEW s \in SettingSlots, NEW p \in Surfaces, ReadSettings(s, p)
      PROVE  PostMove /\ DialogMove
  BY <1>9, PlainMoves
<1>10. ASSUME NEW s \in SettingSlots, TogglePublic(s) \/ SaveTelegram(s) \/ RegenAdminPath(s)
       PROVE  PostMove /\ DialogMove
  BY <1>10, PlainMoves
<1>11. ASSUME NEW s \in SettingSlots, SettingAnswered(s) PROVE PostMove /\ DialogMove
  <2>1. Arrives(s) /\ UNCHANGED dialogVars
    BY <1>11 DEF SettingAnswered, Arrives
  <2>. QED
    BY <2>1 DEF PostMove, DialogMove, dialogVars
<1>. QED
  BY <1>1, <1>2, <1>3, <1>4, <1>5, <1>6, <1>7, <1>8, <1>9, <1>10, <1>11, DiagnoseMoves, ReplyMoves
     DEF SettingsNext

-----------------------------------------------------------------------------
(* The pages together.                                                     *)

LEMMA Moves ==
    ASSUME IInv, [PagesNext]_pagesVars PROVE CallMove /\ PostMove /\ DialogMove
<1>1. CASE OnClients
  <2>1. CallMove /\ DialogMove
    BY <1>1, ClientsSteps DEF IInv, OnClients
  <2>2. PostMove
    BY <1>1 DEF OnClients, settingsOnly, PostMove
  <2>. QED
    BY <2>1, <2>2
<1>2. CASE OnSettings
  <2>1. PostMove /\ DialogMove
    BY <1>2, SettingsSteps DEF IInv, PagePosts, OnSettings
  <2>2. CallMove
    BY <1>2 DEF OnSettings, clientsOnly, CallMove
  <2>. QED
    BY <2>1, <2>2
<1>3. CASE OnRules \/ OnPolicies \/ OnStream \/ UNCHANGED pagesVars
  <2>1. UNCHANGED <<dialogVars, clientsOnly, settingsOnly>>
    BY <1>3 DEF OnRules, OnPolicies, OnStream, pagesVars
  <2>. QED
    BY <2>1 DEF CallMove, PostMove, DialogMove, dialogVars, clientsOnly, settingsOnly
<1>. QED
  BY <1>1, <1>2, <1>3 DEF PagesNext

LEMMA Inductive == IInv /\ [PagesNext]_pagesVars => IInv'
  BY Moves, DialogKeeps, CallMoves, PostKeeps DEF IInv

LEMMA Initial == PagesInit => IInv
<1>. SUFFICES ASSUME PagesInit PROVE IInv
  OBVIOUS
<1>1. DInv
  <2>1. /\ active = NoQuestion /\ promise = [q \in Questions |-> "none"]
        /\ consented = {}
    BY DEF PagesInit, ClientsInit, DialogsInit
  <2>2. \A q \in Questions : promise[q] = "none"
    BY <2>1
  <2>3. PromiseOK /\ OneAsked /\ OneDialog /\ Consent
    BY <2>1, <2>2, DialogsAssumption DEF PromiseOK, OneAsked, Asked, OneDialog, Consent
  <2>4. Chain
    BY <2>2, SettingQuestion DEF Chain, Asked
  <2>. QED
    BY <2>3, <2>4 DEF DInv
<1>2. CallSlots
  <2>1. calling = [s \in ClientSlots |-> IdleCall]
    BY DEF PagesInit, ClientsInit
  <2>2. CallShape(IdleCall)
    BY IdleForms
  <2>. QED
    BY <2>1, <2>2 DEF CallSlots
<1>3. PagePosts
  <2>. DEFINE w1 == [IdlePost EXCEPT !.st = "sent"]
              w  == [w1 EXCEPT !.kind = "teleload"]
              first == CHOOSE x \in SettingSlots : TRUE
  <2>1. /\ posts = [x \in SettingSlots |-> IF x = first THEN w ELSE IdlePost]
        /\ diagShown = 0
    BY DEF PagesInit, SettingsInit
  <2>2. PostShape(w1)
    BY Edit_st, IdlePostForm
  <2>. HIDE DEF w1
  <2>3. PostShape(w) /\ w.kind = "teleload"
    BY <2>2, Edit_kind
  <2>. HIDE DEF w, first
  <2>4. \A x \in SettingSlots : PostShape(posts[x]) /\ ~Diag(x)
    BY <2>1, <2>3, IdlePostForm DEF Diag
  <2>5. posts = [x \in SettingSlots |-> posts[x]]
    BY <2>1
  <2>. QED
    BY <2>1, <2>4, <2>5 DEF PagePosts, PostSlots, DiagInv, LatestReport
<1>. QED
  BY <1>1, <1>2, <1>3 DEF IInv

LEMMA Invariance == PagesSpec => []IInv
  BY Initial, Inductive, PTL DEF PagesSpec

-----------------------------------------------------------------------------
(* The theorems.                                                           *)

\* No handler is left waiting for a dialog that is not on the screen, and none is there
\* that nobody waits for, through nested questions, Escape and the chain of a rotation
\* (app.js:4307-4451).
THEOREM OneDialogHolds == PagesSpec => []OneDialog
  BY Invariance, PTL DEF IInv, DInv

\* For any number of clients and requests, a deletion, a change of an address or its
\* removal is sent only after the confirm button of its own dialog (app.js:4137-4199).
THEOREM ConfirmedHolds == PagesSpec => ConfirmedOnly
<1>. DEFINE Confirms == \A s \in ClientSlots : LET k == calling'[s] IN
                k # calling[s] /\ k.st = "sent" /\ k.kind \in {"delete", "setip", "removeip"}
                    => [kind |-> k.kind, id |-> k.id] \in consented
<1>1. IInv /\ [PagesNext]_pagesVars => [Confirms]_clientVars
  <2>. SUFFICES ASSUME IInv, [PagesNext]_pagesVars PROVE Confirms
    OBVIOUS
  <2>. QED
    BY Moves, CallMoves DEF IInv, Allowed, Sent
<1>2. ConfirmedOnly <=> [][Confirms]_clientVars
  BY DEF ConfirmedOnly
<1>. QED
  BY <1>1, <1>2, Invariance, PTL DEF PagesSpec

\* The master key is rotated only after every dialog of its chain was confirmed, the
\* engine restarted or an upstream removed only after its own, however many requests are
\* under way (app.js:2410-2452).
THEOREM AuthorisedHolds == PagesSpec => Authorised
<1>. DEFINE Authorises == \A s \in SettingSlots : LET k == posts'[s] IN
                k # posts[s] /\ k.st = "sent" =>
                    /\ k.kind \in {"restart", "upstream"} => Question(k.kind) \in consented
                    /\ k.kind = "rotate" =>
                          /\ Question("rotate") \in consented /\ Question("password") \in consented
                          /\ totp => Question("code") \in consented
<1>1. IInv /\ [PagesNext]_pagesVars => [Authorises]_settingsVars
  <2>. SUFFICES ASSUME IInv, [PagesNext]_pagesVars PROVE Authorises
    OBVIOUS
  <2>. QED
    BY Moves, PostKeeps DEF IInv, Permitted, Granted
<1>2. Authorised <=> [][Authorises]_settingsVars
  BY DEF Authorised
<1>. QED
  BY <1>1, <1>2, Invariance, PTL DEF PagesSpec

\* The report on the screen is never that of a run before the last one started, for any
\* number of requests that settle in any order (app.js:3298-3345).
THEOREM LatestReportHolds == PagesSpec => []LatestReport
<1>1. IInv => LatestReport
  BY DEF IInv, PagePosts
<1>. QED
  BY <1>1, Invariance, PTL
=============================================================================
