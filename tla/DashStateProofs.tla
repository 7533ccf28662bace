---------------------------- MODULE DashStateProofs ----------------------------
(***************************************************************************)
(* What the dashboard's pages show, for any number of presets, policies,   *)
(* clients, requests under way and queries: where nothing failed and       *)
(* nothing overtook anything, each page agrees with the daemon; the table  *)
(* of the live log is its buffer; and a verdict on a certificate is that   *)
(* of the run it names.  Each page's section states what holds while       *)
(* requests are under way, which is what makes the agreement at rest       *)
(* inductive.                                                              *)
(***************************************************************************)
EXTENDS DashPagesProofs, FiniteSetTheorems, SequenceTheorems

-----------------------------------------------------------------------------
(* A step of the pages is a step of one of them.                           *)

LEMMA StreamMoves == [PagesNext]_pagesVars => StreamNext \/ UNCHANGED logVars
  BY DEF PagesNext, OnRules, OnPolicies, OnClients, OnSettings, OnStream, pagesVars

LEMMA PolicyMoves == [PagesNext]_pagesVars => PoliciesNext \/ UNCHANGED policyVars
  BY DEF PagesNext, OnRules, OnPolicies, OnClients, OnSettings, OnStream, pagesVars

LEMMA RuleMoves == [PagesNext]_pagesVars => RulesNext \/ UNCHANGED rulesVars
  BY DEF PagesNext, OnRules, OnPolicies, OnClients, OnSettings, OnStream, pagesVars

LEMMA ClientMoves == [PagesNext]_pagesVars => ClientsNext \/ UNCHANGED clientsOnly
  BY DEF PagesNext, OnRules, OnPolicies, OnClients, OnSettings, OnStream, pagesVars

LEMMA SettingMoves == [PagesNext]_pagesVars => SettingsNext \/ UNCHANGED settingsOnly
  BY DEF PagesNext, OnRules, OnPolicies, OnClients, OnSettings, OnStream, pagesVars

-----------------------------------------------------------------------------
(* The live log.                                                           *)

LEMMA TableInit == StreamInit => TableAgrees
  BY DEF StreamInit, TableAgrees, RenderOf

\* A step that leaves the table, what it is drawn from and both flags alone.
LEMMA TableStill ==
    TableAgrees /\ UNCHANGED <<table, streamBuffer, narrow, streamPendingRender, unpainted>> => TableAgrees'
  BY DEF TableAgrees

\* A paint shows the buffer and the filter of the step it happens in.
LEMMA Painted == ASSUME RenderQueryStream(streamBuffer', narrow') PROVE TableAgrees'
  BY DEF RenderQueryStream, TableAgrees

LEMMA TableStep == TableAgrees /\ StreamNext => TableAgrees'
<1>. SUFFICES ASSUME TableAgrees, StreamNext PROVE TableAgrees'
  OBVIOUS
<1>1. ASSUME \/ DrawNumber
             \/ \E h \in handling : StoreLog(h) \/ Broadcast(h)
             \/ Subscribe \/ SendHistory \/ SendFrame \/ Disconnect \/ TogglePause \/ HideOrShow
      PROVE  TableAgrees'
  <2>1. UNCHANGED <<table, streamBuffer, narrow, streamPendingRender, unpainted>>
    BY <1>1 DEF DrawNumber, StoreLog, Broadcast, Subscribe, SendHistory, SendFrame, Disconnect,
                TogglePause, HideOrShow, viewVars, controlVars
  <2>. QED
    BY <2>1, TableStill
<1>2. CASE SeedStreamQueries
  BY <1>2, Painted DEF SeedStreamQueries, controlVars
<1>3. CASE PushStreamQuery
  <2>1. CASE isStreamPaused
    BY <1>3, <2>1, TableStill DEF PushStreamQuery, controlVars
  <2>2. CASE ~isStreamPaused
    <3>1. streamPendingRender' \/ unpainted'
      BY <1>3, <2>2 DEF PushStreamQuery
    <3>. QED
      BY <3>1 DEF TableAgrees
  <2>. QED
    BY <2>1, <2>2
<1>4. CASE AnimationFrame
  <2>1. CASE InView
    BY <1>4, <2>1, Painted DEF AnimationFrame, RenderQueryStream, controlVars
  <2>2. CASE ~InView
    BY <1>4, <2>2 DEF AnimationFrame, TableAgrees
  <2>. QED
    BY <2>1, <2>2
<1>5. CASE SetFilter
  <2>1. RenderQueryStream(streamBuffer', narrow')
    BY <1>5 DEF SetFilter, RenderQueryStream
  <2>. QED
    BY <2>1, Painted
<1>6. CASE ShowAllQueries
  <2>1. RenderQueryStream(streamBuffer', narrow')
    BY <1>6 DEF ShowAllQueries, RenderQueryStream
  <2>. QED
    BY <2>1, Painted
<1>7. CASE ClearStream
  <2>1. RenderQueryStream(streamBuffer', narrow')
    BY <1>7 DEF ClearStream, RenderQueryStream, controlVars
  <2>. QED
    BY <2>1, Painted
<1>8. ASSUME NEW tab \in {"stream", "dashboard"}, SwitchTab(tab) PROVE TableAgrees'
  <2>1. CASE tab = "stream"
    <3>1. RenderQueryStream(streamBuffer', narrow')
      BY <1>8, <2>1 DEF SwitchTab, RenderQueryStream
    <3>. QED
      BY <3>1, Painted
  <2>2. CASE tab # "stream"
    BY <1>8, <2>2, TableStill DEF SwitchTab, viewVars
  <2>. QED
    BY <2>1, <2>2
<1>. QED
  BY <1>1, <1>2, <1>3, <1>4, <1>5, <1>6, <1>7, <1>8 DEF StreamNext

\* The table on the Logs page is the buffer seen through the filter, for any ring,
\* channel and buffer and any interleaving of arrivals, tabs, pauses, filters and
\* clears, unless a paint is due or an arrival was left unpainted (app.js:1878-2042).
THEOREM TableAgreesHolds == PagesSpec => []TableAgrees
<1>1. PagesInit => TableAgrees
  BY TableInit DEF PagesInit
<1>2. TableAgrees /\ [PagesNext]_pagesVars => TableAgrees'
  BY StreamMoves, TableStep, TableStill DEF logVars, viewVars, controlVars
<1>. QED
  BY <1>1, <1>2, PTL DEF PagesSpec
-----------------------------------------------------------------------------
(* The certificate buttons.                                                *)

Waits == {"idle", "asked", "polling", "reading", "read"}
Words == {"none", "issued", "failed", "unknown", "refused"}
AcmeTypes ==
    /\ issue \in [Surfaces -> Waits] /\ verdict \in [Surfaces -> Words]
    /\ acme \in [who : Surfaces, phase : {"none", "running", "applying", "done", "failed"}]
    /\ applied \subseteq Surfaces /\ mixed \subseteq Surfaces

\* A press takes the last word back, and nothing is said before the answer.
Wordless == \A p \in Surfaces : issue[p] \in {"asked", "polling"} => verdict[p] = "none"

\* The run under way was not said to have failed to the surface it is for.
Undecided == Gate /\ acme.who \notin mixed => verdict[acme.who] # "failed"

\* Who polls for a run of its own sees that run, and the surface is certified since the
\* press exactly if it is done.
OwnRun == \A p \in Surfaces \ mixed : issue[p] = "polling" =>
              /\ acme.who = p /\ acme.phase # "none"
              /\ p \in applied <=> acme.phase = "done"

AcmeInv == AcmeTypes /\ Wordless /\ Undecided /\ OwnRun /\ IssueVerdict

LEMMA AcmeInit == SettingsInit => AcmeInv
  BY DEF SettingsInit, AcmeInv, AcmeTypes, Wordless, Undecided, OwnRun, IssueVerdict, Gate, Surfaces,
         Waits, Words

LEMMA AcmeStill == AcmeInv /\ UNCHANGED acmeVars => AcmeInv'
  BY DEF AcmeInv, AcmeTypes, Wordless, Undecided, OwnRun, IssueVerdict, Gate, acmeVars

LEMMA PressKeeps == ASSUME AcmeInv, NEW p \in Surfaces, PressIssue(p) PROVE AcmeInv'
<1>1. /\ issue' = [issue EXCEPT ![p] = "asked"] /\ verdict' = [verdict EXCEPT ![p] = "none"]
      /\ mixed' = mixed \ {p} /\ acme' = acme /\ applied' = applied
  BY DEF PressIssue
<1>2. AcmeTypes'
  BY <1>1 DEF AcmeInv, AcmeTypes, Waits, Words
<1>3. Wordless' /\ Undecided' /\ OwnRun' /\ IssueVerdict'
  BY <1>1 DEF AcmeInv, AcmeTypes, Wordless, Undecided, OwnRun, IssueVerdict, Gate
<1>. QED
  BY <1>2, <1>3 DEF AcmeInv

LEMMA ServedKeeps == ASSUME AcmeInv, NEW p \in Surfaces, IssueServed(p) PROVE AcmeInv'
<1>0. issue[p] = "asked" /\ verdict[p] = "none"
  BY DEF IssueServed, AcmeInv, Wordless
<1>1. ASSUME issue' = [issue EXCEPT ![p] = "reading"], verdict' = [verdict EXCEPT ![p] = "issued"],
             applied' = applied \cup {p}, UNCHANGED <<acme, mixed>>
      PROVE  AcmeInv'
  <2>1. AcmeTypes'
    BY <1>1 DEF AcmeInv, AcmeTypes, Waits, Words
  <2>2. Wordless' /\ Undecided' /\ OwnRun' /\ IssueVerdict'
    BY <1>1 DEF AcmeInv, AcmeTypes, Wordless, Undecided, OwnRun, IssueVerdict, Gate
  <2>. QED
    BY <2>1, <2>2 DEF AcmeInv
<1>2. ASSUME acme' = [who |-> p, phase |-> "running"], issue' = [issue EXCEPT ![p] = "polling"],
             mixed' = (mixed \cup {q \in Surfaces : issue'[q] = "polling"}) \ {p},
             applied' = applied \ {p}, UNCHANGED verdict
      PROVE  AcmeInv'
  <2>1. AcmeTypes'
    BY <1>2 DEF AcmeInv, AcmeTypes, Waits, Words
  <2>2. acme'.who = p /\ acme'.phase = "running"
    BY <1>2
  <2>3. Wordless' /\ Undecided'
    BY <1>0, <1>2, <2>2 DEF AcmeInv, AcmeTypes, Wordless, Undecided, Gate
  <2>4. OwnRun' /\ IssueVerdict'
    BY <1>0, <1>2, <2>2 DEF AcmeInv, AcmeTypes, OwnRun, IssueVerdict
  <2>. QED
    BY <2>1, <2>3, <2>4 DEF AcmeInv
<1>3. ASSUME verdict' = [verdict EXCEPT ![p] = "refused"], UNCHANGED <<acme, applied, mixed>>,
             issue' = [issue EXCEPT ![p] = IF p = "panel" THEN "reading" ELSE "idle"]
      PROVE  AcmeInv'
  <2>1. AcmeTypes'
    BY <1>3 DEF AcmeInv, AcmeTypes, Waits, Words
  <2>2. Wordless' /\ Undecided' /\ OwnRun' /\ IssueVerdict'
    BY <1>3 DEF AcmeInv, AcmeTypes, Wordless, Undecided, OwnRun, IssueVerdict, Gate
  <2>. QED
    BY <2>1, <2>2 DEF AcmeInv
<1>. QED
  BY <1>1, <1>2, <1>3 DEF IssueServed

LEMMA FailedKeeps == ASSUME AcmeInv, NEW p \in Surfaces, IssueFailed(p) PROVE AcmeInv'
<1>1. /\ issue' = [issue EXCEPT ![p] = "idle"] /\ verdict' = [verdict EXCEPT ![p] = "refused"]
      /\ UNCHANGED <<mixed, acme, applied>>
  BY DEF IssueFailed
<1>2. AcmeTypes'
  BY <1>1 DEF AcmeInv, AcmeTypes, Waits, Words
<1>3. Wordless' /\ Undecided' /\ OwnRun' /\ IssueVerdict'
  BY <1>1 DEF AcmeInv, AcmeTypes, Wordless, Undecided, OwnRun, IssueVerdict, Gate
<1>. QED
  BY <1>2, <1>3 DEF AcmeInv

LEMMA AcmeKeeps == ASSUME AcmeInv, AcmeStep PROVE AcmeInv'
<1>0. UNCHANGED <<issue, verdict, mixed>>
  BY DEF AcmeStep
<1>1. PICK to \in {"applying", "failed", "done"} :
        /\ Gate /\ acme' = [acme EXCEPT !.phase = to]
        /\ to = "done" => acme.phase = "applying"
        /\ applied' = IF to = "done" THEN applied \cup {acme.who} ELSE applied
  BY DEF AcmeStep, Gate
<1>2. acme'.who = acme.who /\ acme'.phase = to
  BY <1>1 DEF AcmeInv, AcmeTypes
<1>3. AcmeTypes'
  BY <1>0, <1>1 DEF AcmeInv, AcmeTypes
<1>4. Wordless' /\ Undecided'
  BY <1>0, <1>1, <1>2 DEF AcmeInv, Wordless, Undecided, Gate
<1>5. OwnRun'
  BY <1>0, <1>1, <1>2 DEF AcmeInv, OwnRun, Gate
<1>6. IssueVerdict'
  BY <1>0, <1>1 DEF AcmeInv, IssueVerdict, Undecided
<1>. QED
  BY <1>3, <1>4, <1>5, <1>6 DEF AcmeInv

LEMMA PollKeeps == ASSUME AcmeInv, NEW p \in Surfaces, PollIssue(p) PROVE AcmeInv'
<1>1. PICK w \in {VerdictOf(acme.phase), "unknown"} :
        /\ issue[p] = "polling"
        /\ issue' = [issue EXCEPT ![p] = "reading"] /\ verdict' = [verdict EXCEPT ![p] = w]
        /\ UNCHANGED <<mixed, acme, applied>>
  BY DEF PollIssue
<1>2. /\ w \in {"issued", "failed", "unknown"}
      /\ w = "issued" => acme.phase = "done"
      /\ w = "failed" => acme.phase = "failed"
  BY DEF VerdictOf
<1>3. AcmeTypes'
  BY <1>1, <1>2 DEF AcmeInv, AcmeTypes, Waits, Words
<1>4. Wordless' /\ Undecided' /\ OwnRun'
  BY <1>1, <1>2 DEF AcmeInv, AcmeTypes, Wordless, Undecided, OwnRun, Gate
<1>5. IssueVerdict'
  BY <1>1, <1>2 DEF AcmeInv, AcmeTypes, OwnRun, IssueVerdict
<1>. QED
  BY <1>3, <1>4, <1>5 DEF AcmeInv

\* A handler that reads the configuration, or is done, says nothing more.
LEMMA DoneKeeps ==
    ASSUME AcmeInv, NEW p, NEW w \in {"idle", "read"}, issue' = [issue EXCEPT ![p] = w],
           UNCHANGED <<verdict, acme, applied, mixed>>
    PROVE  AcmeInv'
<1>1. AcmeTypes'
  BY DEF AcmeInv, AcmeTypes, Waits, Words
<1>2. Wordless' /\ Undecided' /\ OwnRun' /\ IssueVerdict'
  BY DEF AcmeInv, AcmeTypes, Wordless, Undecided, OwnRun, IssueVerdict, Gate
<1>. QED
  BY <1>1, <1>2 DEF AcmeInv

LEMMA AcmeMoves == ASSUME AcmeInv, SettingsNext PROVE AcmeInv'
<1>1. ASSUME \/ \E kind \in {"rotate", "restart", "upstream"} : Guarded(kind)
             \/ RotatePassword \/ RotateCode \/ Declined \/ SettingKeys
             \/ \E v \in 0 .. 2 : TypeTelegram(v)
      PROVE  AcmeInv'
  <2>1. UNCHANGED acmeVars
    BY <1>1 DEF Guarded, RotatePassword, RotateCode, Declined, SettingKeys, AskOn, TypeTelegram, settingsOnly
  <2>. QED
    BY <2>1, AcmeStill
<1>2. ASSUME NEW s \in SettingSlots,
             \/ RotateKey(s) \/ Confirmed(s) \/ TogglePublic(s) \/ SaveTelegram(s)
             \/ RegenAdminPath(s) \/ Diagnose(s) \/ ServeSetting(s) \/ RefuseSetting(s)
      PROVE  AcmeInv'
  <2>1. UNCHANGED acmeVars
    BY <1>2 DEF RotateKey, Confirmed, GuardedPost, TogglePublic, SaveTelegram, RegenAdminPath, Diagnose,
                ServeSetting, RefuseSetting
  <2>. QED
    BY <2>1, AcmeStill
<1>3. ASSUME NEW p \in Surfaces, PressIssue(p) \/ IssueServed(p) \/ IssueFailed(p) \/ PollIssue(p)
      PROVE  AcmeInv'
  BY <1>3, PressKeeps, ServedKeeps, FailedKeeps, PollKeeps
<1>4. CASE AcmeStep
  BY <1>4, AcmeKeeps
<1>5. ASSUME NEW s \in SettingSlots, NEW p \in Surfaces, ReadSettings(s, p) PROVE AcmeInv'
  BY <1>5, DoneKeeps DEF ReadSettings
<1>6. ASSUME NEW s \in SettingSlots, SettingAnswered(s) PROVE AcmeInv'
  <2>1. UNCHANGED <<verdict, acme, applied, mixed>>
    BY <1>6 DEF SettingAnswered
  <2>2. CASE posts[s].kind = "read"
    <3>1. issue' = [issue EXCEPT ![posts[s].who] = "idle"]
      BY <1>6, <2>2 DEF SettingAnswered
    <3>. QED
      BY <2>1, <3>1, DoneKeeps
  <2>3. CASE posts[s].kind # "read"
    BY <1>6, <2>1, <2>3, AcmeStill DEF SettingAnswered, acmeVars
  <2>. QED
    BY <2>2, <2>3
<1>. QED
  BY <1>1, <1>2, <1>3, <1>4, <1>5, <1>6 DEF SettingsNext

\* Three buttons share one issuance and one status: what the page says of a surface is
\* what became of the run its press began, however presses, runs, failures and polls
\* interleave, unless another surface's run started before it looked
\* (app.js:2954-3017, web/tls.go:366-420).
THEOREM IssueVerdictHolds == PagesSpec => []IssueVerdict
<1>1. PagesInit => AcmeInv
  BY AcmeInit DEF PagesInit
<1>2. AcmeInv /\ [PagesNext]_pagesVars => AcmeInv'
  BY SettingMoves, AcmeMoves, AcmeStill DEF settingsOnly
<1>3. AcmeInv => IssueVerdict
  BY DEF AcmeInv
<1>. QED
  BY <1>1, <1>2, <1>3, PTL DEF PagesSpec
-----------------------------------------------------------------------------
(* The custom policies.                                                    *)

\* Where there is no policy at all, the key of an idle slot is nobody's.
IdleKey == CHOOSE k \in Policies : TRUE
SlotAsk == [st : {"idle", "sent", "ok", "bad"}, kind : {"save", "toggle", "delete", "list"},
            key : Policies \cup {IdleKey}, policy : Policy \cup {Absent}, epoch : Nat, list : Table]
PolicyTypes ==
    /\ cache \in Table /\ store \in Table /\ intended \in Table
    /\ boxes \in [Policies -> BOOLEAN] /\ drawn \in Nat /\ errors \in Nat
    /\ form \in [open : BOOLEAN, key : Policies \cup {Blank}, body : Bodies \cup {Blank}, on : BOOLEAN]
    /\ asks \in [PolicySlots -> SlotAsk]

\* A form that adds has no key, one that edits has the key of its card.
FormFits == form.open => IF adding THEN form.key = Blank ELSE form.key \in Policies

Calm == errors = 0 /\ ~crossed
CardsAgree == \A k \in Policies : cache[k] # Absent => boxes[k] = cache[k].on
Agreed == store = intended /\ cache = store /\ CardsAgree

\* What a request under way still has to bring about: before the daemon has it, the
\* daemon lacks this change and no other; afterwards, the page's list may lag.
Underway(a) ==
    /\ a.st \in {"sent", "ok"}
    /\ a.kind = "list" => store = intended /\ (a.st = "ok" => a.list = store)
    /\ a.kind # "list" =>
          intended = IF a.st = "ok" THEN store ELSE [store EXCEPT ![a.key] = a.policy]
    /\ a.kind = "toggle" => cache = intended /\ CardsAgree

CalmPolicies == Calm =>
    /\ AsksQuiet => Agreed
    /\ \A s \in PolicySlots : asks[s].st # "idle" =>
          /\ Underway(asks[s])
          /\ \A t \in PolicySlots : asks[t].st # "idle" => t = s

PolicyInv == PolicyTypes /\ FormFits /\ CalmPolicies

LEMMA AbsentType == Absent \in [body : Bodies \cup {Blank}, on : BOOLEAN] /\ Absent.on = FALSE
  BY DEF Absent

LEMMA IdleAskType == IdleAsk \in SlotAsk /\ IdleAsk.st = "idle" /\ IdleAsk.kind = "list"
  BY DEF IdleAsk, SlotAsk, IdleKey, Table

LEMMA PolicyInit == PoliciesInit => PolicyInv
<1>. SUFFICES ASSUME PoliciesInit PROVE PolicyInv
  OBVIOUS
<1>1. /\ store \in Table /\ cache = store /\ intended = store
      /\ boxes = [k \in Policies |-> store[k].on] /\ drawn = 1 /\ errors = 0
      /\ form = [open |-> FALSE, key |-> Blank, body |-> Blank, on |-> TRUE]
      /\ asks = [s \in PolicySlots |-> IdleAsk]
  BY DEF PoliciesInit
<1>2. \A k \in Policies : store[k].on \in BOOLEAN
  BY <1>1, AbsentType DEF Table, Policy
<1>3. PolicyTypes
  BY <1>1, <1>2, IdleAskType DEF PolicyTypes
<1>4. FormFits /\ CalmPolicies
  BY <1>1, IdleAskType DEF FormFits, CalmPolicies, Agreed, CardsAgree
<1>. QED
  BY <1>3, <1>4 DEF PolicyInv

LEMMA PolicyStill == PolicyInv /\ UNCHANGED policyVars => PolicyInv'
  BY DEF policyVars, PolicyInv, PolicyTypes, FormFits, CalmPolicies, Calm, AsksQuiet, Agreed,
         CardsAgree, Underway

\* A step that only touches the form.
LEMMA FormKeeps ==
    ASSUME PolicyInv, PolicyTypes', FormFits',
           UNCHANGED <<cache, boxes, asks, store, errors, intended, crossed>>
    PROVE  PolicyInv'
  BY DEF PolicyInv, CalmPolicies, Calm, AsksQuiet, Agreed, CardsAgree, Underway

LEMMA FormSteps ==
    ASSUME PolicyInv,
           \/ OpenAdd \/ CloseForm \/ \E k \in Policies : OpenPolicy(k)
           \/ \E b \in Bodies : TypePolicy(b)
    PROVE  PolicyInv'
<1>1. UNCHANGED <<cache, boxes, drawn, asks, store, errors, intended, crossed>>
  BY DEF OpenAdd, CloseForm, OpenPolicy, TypePolicy
<1>2. CASE OpenAdd
  <2>1. form' = [open |-> TRUE, key |-> Blank, body |-> Blank, on |-> TRUE] /\ adding'
    BY <1>2 DEF OpenAdd
  <2>2. PolicyTypes' /\ FormFits'
    BY <1>1, <2>1 DEF PolicyInv, PolicyTypes, FormFits
  <2>. QED
    BY <1>1, <2>2, FormKeeps
<1>3. CASE CloseForm
  <2>1. form' = [form EXCEPT !.open = FALSE]
    BY <1>3 DEF CloseForm
  <2>2. PolicyTypes' /\ FormFits'
    BY <1>1, <2>1 DEF PolicyInv, PolicyTypes, FormFits
  <2>. QED
    BY <1>1, <2>2, FormKeeps
<1>4. ASSUME NEW k \in Policies, OpenPolicy(k) PROVE PolicyInv'
  <2>1. /\ form' = [open |-> TRUE, key |-> k, body |-> cache[k].body, on |-> cache[k].on]
        /\ adding' = FALSE
    BY <1>4 DEF OpenPolicy
  <2>2. cache[k].body \in Bodies \cup {Blank} /\ cache[k].on \in BOOLEAN
    BY AbsentType DEF PolicyInv, PolicyTypes, Table, Policy
  <2>3. PolicyTypes' /\ FormFits'
    BY <1>1, <2>1, <2>2 DEF PolicyInv, PolicyTypes, FormFits
  <2>. QED
    BY <1>1, <2>3, FormKeeps
<1>5. ASSUME NEW b \in Bodies, TypePolicy(b) PROVE PolicyInv'
  <2>1. form.open /\ form' = [form EXCEPT !.body = b] /\ adding' = adding
    BY <1>5 DEF TypePolicy
  <2>2. PolicyTypes' /\ FormFits'
    BY <1>1, <2>1 DEF PolicyInv, PolicyTypes, FormFits
  <2>. QED
    BY <1>1, <2>2, FormKeeps
<1>. QED
  BY <1>2, <1>3, <1>4, <1>5

\* A request is sent: where another was under way nothing is claimed any more.
LEMMA PostAsk ==
    ASSUME PolicyInv, NEW s \in PolicySlots, NEW kind \in {"save", "toggle", "delete"},
           NEW k \in Policies, NEW b \in Policy \cup {Absent}, PostPolicy(s, kind, k, b)
    PROVE  /\ asks' \in [PolicySlots -> SlotAsk]
           /\ asks'[s].st = "sent" /\ asks'[s].kind = kind /\ asks'[s].key = k /\ asks'[s].policy = b
           /\ \A t \in PolicySlots : t # s => asks'[t] = asks[t]
           /\ ~crossed' => ~crossed /\ AsksQuiet
<1>1. asks' = [asks EXCEPT ![s].st = "sent", ![s].kind = kind, ![s].key = k,
                           ![s].policy = b, ![s].epoch = drawn]
  BY DEF PostPolicy
<1>2. asks \in [PolicySlots -> SlotAsk] /\ drawn \in Nat
  BY DEF PolicyInv, PolicyTypes
<1>. DEFINE a  == asks[s]
            a1 == [a EXCEPT !.st = "sent"]
            a2 == [a1 EXCEPT !.kind = kind]
            a3 == [a2 EXCEPT !.key = k]
            a4 == [a3 EXCEPT !.policy = b]
            r  == [a4 EXCEPT !.epoch = drawn]
<1>3. asks' = [asks EXCEPT ![s] = r]
  BY <1>1, <1>2
<1>4. a = [st |-> a.st, kind |-> a.kind, key |-> a.key, policy |-> a.policy, epoch |-> a.epoch, list |-> a.list]
  BY <1>2 DEF SlotAsk
<1>. HIDE DEF a
<1>5. a1 = [st |-> "sent", kind |-> a.kind, key |-> a.key, policy |-> a.policy, epoch |-> a.epoch, list |-> a.list]
  BY <1>4
<1>. HIDE DEF a1
<1>6. a2 = [st |-> "sent", kind |-> kind, key |-> a.key, policy |-> a.policy, epoch |-> a.epoch, list |-> a.list]
  BY <1>5
<1>. HIDE DEF a2
<1>7. a3 = [st |-> "sent", kind |-> kind, key |-> k, policy |-> a.policy, epoch |-> a.epoch, list |-> a.list]
  BY <1>6
<1>. HIDE DEF a3
<1>8. a4 = [st |-> "sent", kind |-> kind, key |-> k, policy |-> b, epoch |-> a.epoch, list |-> a.list]
  BY <1>7
<1>. HIDE DEF a4
<1>9. r = [st |-> "sent", kind |-> kind, key |-> k, policy |-> b, epoch |-> drawn, list |-> a.list]
  BY <1>8
<1>10. r \in SlotAsk
  BY <1>2, <1>9 DEF SlotAsk, a
<1>11. r.st = "sent" /\ r.kind = kind /\ r.key = k /\ r.policy = b
  BY <1>9
<1>. HIDE DEF r
<1>12. /\ asks' \in [PolicySlots -> SlotAsk]
      /\ asks'[s].st = "sent" /\ asks'[s].kind = kind /\ asks'[s].key = k /\ asks'[s].policy = b
      /\ \A t \in PolicySlots : t # s => asks'[t] = asks[t]
  BY <1>2, <1>3, <1>10, <1>11
<1>13. ~crossed' => ~crossed /\ AsksQuiet
  BY DEF PostPolicy
<1>. QED
  BY <1>12, <1>13

\* The only request under way, whose change the daemon lacks.
LEMMA SentAsk ==
    ASSUME PolicyInv, NEW s \in PolicySlots, NEW kind \in {"save", "toggle", "delete"},
           NEW k \in Policies, NEW b \in Policy \cup {Absent}, PostPolicy(s, kind, k, b),
           PolicyTypes', FormFits', errors' = errors, store' = store,
           Agreed => /\ intended' = [store EXCEPT ![k] = b]
                     /\ kind = "toggle" => cache' = intended' /\ CardsAgree'
    PROVE  PolicyInv'
<1>1. SUFFICES ASSUME Calm' PROVE /\ ~AsksQuiet'
                                  /\ \A t \in PolicySlots : asks'[t].st # "idle" => t = s
                                  /\ Underway(asks[s])'
  BY DEF PolicyInv, CalmPolicies
<1>2. Calm /\ AsksQuiet
  BY <1>1, PostAsk DEF Calm
<1>3. Agreed
  BY <1>2 DEF PolicyInv, CalmPolicies
<1>4. \A t \in PolicySlots : asks'[t].st # "idle" => t = s
  BY <1>2, PostAsk DEF AsksQuiet
<1>5. ~AsksQuiet'
  BY PostAsk DEF AsksQuiet
<1>6. Underway(asks[s])'
  BY <1>3, PostAsk DEF Underway
<1>. QED
  BY <1>4, <1>5, <1>6

LEMMA SubmitKeeps ==
    ASSUME PolicyInv, NEW s \in PolicySlots, NEW k \in Policies, SubmitForm(s, k) PROVE PolicyInv'
<1>. DEFINE b == [body |-> form.body, on |-> form.on]
<1>1. /\ b \in Policy /\ PostPolicy(s, "save", k, b)
      /\ UNCHANGED <<cache, boxes, drawn, form, store, errors, adding>>
  BY DEF SubmitForm, PolicyInv, PolicyTypes, Policy
<1>2. Meant(k) = {k}
  BY PoliciesAssumption DEF SubmitForm, PolicyInv, FormFits, Meant
<1>3. intended' = [intended EXCEPT ![k] = b]
  BY <1>2 DEF SubmitForm
<1>. HIDE DEF b
<1>4. PolicyTypes' /\ FormFits'
  BY <1>1, <1>3, PostAsk DEF PolicyInv, PolicyTypes, FormFits, Table
<1>5. Agreed => intended' = [store EXCEPT ![k] = b]
  BY <1>3 DEF Agreed
<1>. QED
  BY <1>1, <1>4, <1>5, SentAsk

LEMMA DeleteKeeps ==
    ASSUME PolicyInv, NEW s \in PolicySlots, NEW k \in Policies, DeletePolicy(s, k) PROVE PolicyInv'
<1>1. /\ PostPolicy(s, "delete", k, Absent) /\ intended' = [intended EXCEPT ![k] = Absent]
      /\ UNCHANGED <<cache, boxes, drawn, form, store, errors, adding>>
  BY DEF DeletePolicy
<1>2. PolicyTypes' /\ FormFits'
  BY <1>1, PostAsk DEF PolicyInv, PolicyTypes, FormFits, Table
<1>3. Agreed => intended' = [store EXCEPT ![k] = Absent]
  BY <1>1 DEF Agreed
<1>. QED
  BY <1>1, <1>2, <1>3, SentAsk

LEMMA ToggleKeeps ==
    ASSUME PolicyInv, NEW s \in PolicySlots, NEW k \in Policies, TogglePolicy(s, k) PROVE PolicyInv'
<1>. DEFINE v == ~boxes[k]
            c == [cache[k] EXCEPT !.on = v]
<1>1. /\ boxes' = [boxes EXCEPT ![k] = v] /\ v \in BOOLEAN /\ cache[k] # Absent
      /\ cache' = [cache EXCEPT ![k].on = boxes'[k]] /\ PostPolicy(s, "toggle", k, cache'[k])
      /\ intended' = [intended EXCEPT ![k] = IF @ = Absent THEN @ ELSE [@ EXCEPT !.on = boxes'[k]]]
      /\ UNCHANGED <<drawn, form, store, errors, adding>>
  BY DEF TogglePolicy
<1>2. boxes'[k] = v
  BY <1>1 DEF PolicyInv, PolicyTypes
<1>3. cache[k] \in Policy
  BY <1>1 DEF PolicyInv, PolicyTypes, Table
<1>4. c \in Policy /\ c.on = v
  BY <1>1, <1>3 DEF Policy
<1>5. cache' = [cache EXCEPT ![k] = c]
  BY <1>1, <1>2
<1>6. cache'[k] = c /\ cache' \in Table
  BY <1>4, <1>5 DEF PolicyInv, PolicyTypes, Table
<1>7. intended' \in Table
  <2>1. intended[k] # Absent => [intended[k] EXCEPT !.on = boxes'[k]] \in Policy
    BY <1>1, <1>2 DEF PolicyInv, PolicyTypes, Table, Policy
  <2>. QED
    BY <1>1, <2>1 DEF PolicyInv, PolicyTypes, Table
<1>8. PolicyTypes' /\ FormFits'
  BY <1>1, <1>4, <1>6, <1>7, PostAsk DEF PolicyInv, PolicyTypes, FormFits
<1>9. ASSUME Agreed PROVE intended' = [store EXCEPT ![k] = c] /\ cache' = intended' /\ CardsAgree'
  <2>1. intended' = [intended EXCEPT ![k] = c]
    BY <1>1, <1>2, <1>9 DEF Agreed
  <2>2. CardsAgree'
    BY <1>1, <1>2, <1>4, <1>5, <1>6, <1>9 DEF Agreed, CardsAgree, PolicyInv, PolicyTypes, Table
  <2>. QED
    BY <1>5, <1>9, <2>1, <2>2 DEF Agreed
<1>. HIDE DEF c
<1>. QED
  BY <1>1, <1>4, <1>6, <1>8, <1>9, SentAsk

LEMMA DeliverKeeps == ASSUME PolicyInv, NEW s \in PolicySlots, DeliverAsk(s) PROVE PolicyInv'
<1>. DEFINE a == asks[s]
<1>0. /\ a.st = "sent" /\ a \in SlotAsk
      /\ UNCHANGED <<cache, boxes, drawn, form, intended, adding, crossed>>
  BY DEF DeliverAsk, PolicyInv, PolicyTypes
<1>1. ASSUME errors' = errors + 1, asks' = [asks EXCEPT ![s].st = "bad"], UNCHANGED store PROVE PolicyInv'
  <2>1. PolicyTypes' /\ FormFits'
    BY <1>0, <1>1 DEF PolicyInv, PolicyTypes, FormFits, SlotAsk
  <2>2. errors' # 0
    BY <1>1 DEF PolicyInv, PolicyTypes
  <2>. QED
    BY <2>1, <2>2 DEF PolicyInv, CalmPolicies, Calm
<1>2. ASSUME store' = IF a.kind = "list" THEN store ELSE [store EXCEPT ![a.key] = a.policy],
             asks' = [asks EXCEPT ![s].st = "ok", ![s].list = IF a.kind = "list" THEN store ELSE @],
             UNCHANGED errors
      PROVE  PolicyInv'
  <2>1. /\ asks' \in [PolicySlots -> SlotAsk] /\ \A t \in PolicySlots : t # s => asks'[t] = asks[t]
        /\ asks'[s].st = "ok" /\ asks'[s].kind = a.kind
        /\ a.kind = "list" => asks'[s].list = store
    BY <1>0, <1>2 DEF PolicyInv, PolicyTypes, SlotAsk
  <2>2. store' \in Table
    BY <1>0, <1>2 DEF PolicyInv, PolicyTypes, SlotAsk, Table
  <2>3. PolicyTypes' /\ FormFits'
    BY <1>0, <1>2, <2>1, <2>2 DEF PolicyInv, PolicyTypes, FormFits
  <2>4. ASSUME Calm' PROVE Underway(asks[s])' /\ ~AsksQuiet' /\ \A t \in PolicySlots : asks'[t].st # "idle" => t = s
    <3>1. Underway(a) /\ \A t \in PolicySlots : asks[t].st # "idle" => t = s
      BY <1>0, <1>2, <2>4 DEF PolicyInv, CalmPolicies, Calm
    <3>2. Underway(asks[s])'
      BY <1>0, <1>2, <2>1, <3>1 DEF Underway, CardsAgree
    <3>. QED
      BY <2>1, <3>1, <3>2 DEF AsksQuiet
  <2>. QED
    BY <2>3, <2>4 DEF PolicyInv, CalmPolicies
<1>. QED
  BY <1>0, <1>1, <1>2 DEF DeliverAsk

\* An answer frees its slot; nothing is under way any more.
LEMMA FreeAsk ==
    ASSUME PolicyInv, NEW s \in PolicySlots, asks[s].st # "idle", asks' = [asks EXCEPT ![s] = IdleAsk],
           PolicyTypes', FormFits', UNCHANGED <<errors, crossed>>,
           Calm /\ Underway(asks[s]) => Agreed'
    PROVE  PolicyInv'
<1>1. SUFFICES ASSUME Calm' PROVE AsksQuiet' /\ Agreed'
  BY DEF PolicyInv, CalmPolicies, AsksQuiet
<1>2. Calm /\ Underway(asks[s]) /\ \A t \in PolicySlots : asks[t].st # "idle" => t = s
  BY <1>1 DEF PolicyInv, CalmPolicies, Calm
<1>3. AsksQuiet'
  BY <1>2, IdleAskType DEF AsksQuiet, PolicyInv, PolicyTypes
<1>. QED
  BY <1>2, <1>3

LEMMA SaveAnsweredKeeps == ASSUME PolicyInv, NEW s \in PolicySlots, SaveAnswered(s) PROVE PolicyInv'
<1>. DEFINE a == asks[s]
            r == [IdleAsk EXCEPT !.st = "sent"]
<1>0. /\ a.st \in {"ok", "bad"} /\ a.kind \in {"save", "delete"} /\ a \in SlotAsk
      /\ UNCHANGED <<cache, boxes, drawn, store, errors, intended, adding, crossed>>
      /\ form' = IF a.st = "ok" /\ a.kind = "save" THEN [form EXCEPT !.open = FALSE] ELSE form
  BY DEF SaveAnswered, PolicyInv, PolicyTypes
<1>1. r \in SlotAsk /\ r.st = "sent" /\ r.kind = "list"
  BY IdleAskType DEF SlotAsk
<1>. HIDE DEF r
<1>2. asks' = [asks EXCEPT ![s] = IF a.st = "ok" THEN r ELSE IdleAsk]
  BY DEF SaveAnswered, r
<1>3. PolicyTypes' /\ FormFits'
  BY <1>0, <1>1, <1>2, IdleAskType DEF PolicyInv, PolicyTypes, FormFits
<1>4. ASSUME Calm' PROVE Underway(asks[s])' /\ ~AsksQuiet' /\ \A t \in PolicySlots : asks'[t].st # "idle" => t = s
  <2>1. Underway(a) /\ \A t \in PolicySlots : asks[t].st # "idle" => t = s
    BY <1>0, <1>4 DEF PolicyInv, CalmPolicies, Calm
  <2>2. a.st = "ok"
    BY <1>0, <2>1 DEF Underway
  <2>3. asks'[s] = r
    BY <1>2, <2>2 DEF PolicyInv, PolicyTypes
  <2>4. store = intended
    BY <1>0, <2>1, <2>2 DEF Underway
  <2>5. Underway(asks[s])'
    BY <1>0, <1>1, <2>3, <2>4 DEF Underway
  <2>6. \A t \in PolicySlots : t # s => asks'[t] = asks[t]
    BY <1>2 DEF PolicyInv, PolicyTypes
  <2>. QED
    BY <1>1, <2>1, <2>3, <2>5, <2>6 DEF AsksQuiet
<1>. QED
  BY <1>3, <1>4 DEF PolicyInv, CalmPolicies

LEMMA ToggleAnsweredKeeps == ASSUME PolicyInv, NEW s \in PolicySlots, ToggleAnswered(s) PROVE PolicyInv'
<1>. DEFINE a == asks[s]
<1>0. /\ a.st \in {"ok", "bad"} /\ a.kind = "toggle" /\ asks' = [asks EXCEPT ![s] = IdleAsk]
      /\ UNCHANGED <<cache, drawn, form, store, errors, intended, adding, crossed>>
      /\ boxes' = IF a.st = "bad" /\ a.epoch = drawn THEN [boxes EXCEPT ![a.key] = ~@] ELSE boxes
  BY DEF ToggleAnswered
<1>1. PolicyTypes' /\ FormFits'
  BY <1>0, IdleAskType DEF PolicyInv, PolicyTypes, FormFits
<1>2. Underway(a) => Agreed'
  BY <1>0 DEF Underway, Agreed, CardsAgree
<1>. QED
  BY <1>0, <1>1, <1>2, FreeAsk

LEMMA ReadKeeps == ASSUME PolicyInv, NEW s \in PolicySlots, PoliciesRead(s) PROVE PolicyInv'
<1>. DEFINE a == asks[s]
<1>0. /\ a.st \in {"ok", "bad"} /\ a.kind = "list" /\ asks' = [asks EXCEPT ![s] = IdleAsk] /\ a \in SlotAsk
      /\ UNCHANGED <<form, store, errors, intended, adding, crossed>>
  BY DEF PoliciesRead, PolicyInv, PolicyTypes
<1>1. CASE a.st = "bad"
  <2>1. UNCHANGED <<cache, drawn, boxes>>
    BY <1>1 DEF PoliciesRead
  <2>2. PolicyTypes' /\ FormFits'
    BY <1>0, <2>1, IdleAskType DEF PolicyInv, PolicyTypes, FormFits
  <2>3. ~Underway(a)
    BY <1>1 DEF Underway
  <2>. QED
    BY <1>0, <2>2, <2>3, FreeAsk
<1>2. CASE a.st = "ok"
  <2>1. /\ cache' = a.list /\ drawn' = drawn + 1
        /\ boxes' = [k \in Policies |-> a.list[k].on]
    BY <1>2 DEF PoliciesRead
  <2>2. a.list \in Table
    BY <1>0 DEF SlotAsk
  <2>3. \A k \in Policies : a.list[k].on \in BOOLEAN
    BY <2>2, AbsentType DEF Table, Policy
  <2>4. PolicyTypes' /\ FormFits'
    BY <1>0, <2>1, <2>2, <2>3, IdleAskType DEF PolicyInv, PolicyTypes, FormFits
  <2>5. Underway(a) => Agreed'
    BY <1>0, <1>2, <2>1 DEF Underway, Agreed, CardsAgree
  <2>. QED
    BY <1>0, <2>4, <2>5, FreeAsk
<1>. QED
  BY <1>0, <1>1, <1>2

LEMMA PolicyStep == PolicyInv /\ PoliciesNext => PolicyInv'
  BY FormSteps, SubmitKeeps, ToggleKeeps, DeleteKeeps, DeliverKeeps, SaveAnsweredKeeps,
     ToggleAnsweredKeeps, ReadKeeps DEF PoliciesNext

\* One form adds and edits every policy, and the cards send copies: an operator who lets
\* each request finish, and has none fail, finds every policy as last asked of that
\* policy and no other, for any number of policies (app.js:1033-1288).
THEOREM PolicyIntentHolds == PagesSpec => []PolicyIntent
<1>1. PagesInit => PolicyInv
  BY PolicyInit DEF PagesInit
<1>2. PolicyInv /\ [PagesNext]_pagesVars => PolicyInv'
  BY PolicyMoves, PolicyStep, PolicyStill
<1>3. PolicyInv => PolicyIntent
  BY DEF PolicyInv, CalmPolicies, Calm, Agreed, CardsAgree, PolicyIntent
<1>. QED
  BY <1>1, <1>2, <1>3, PTL DEF PagesSpec
-----------------------------------------------------------------------------
(* The rules page: types, and what a step does to the requests.            *)

LEMMA SomeRef == Refs # {}
<1>1. Cardinality(SaveSlots) \in Nat /\ Cardinality(Refs) > Cardinality(SaveSlots)
  BY RulesAssumption, FS_CardinalityType
<1>2. Cardinality({}) = 0
  BY FS_EmptySet
<1>. QED
  BY <1>1, <1>2

LEMMA IdleSaveType == IdleSave \in Save /\ IdleSave.st = "idle"
<1>1. (CHOOSE r \in Refs : TRUE) \in Refs
  BY SomeRef
<1>. QED
  BY <1>1, RulesAssumption DEF IdleSave, Save, Switches

\* A request body leaves on slot s.
Sending(s, b) ==
    /\ saves[s].st = "idle" /\ saves' = [saves EXCEPT ![s] = b] /\ b \in Save
    /\ b.st = "sent" /\ b.nth = edits + 1 /\ edits < MaxEdits /\ edits' = edits + 1
    /\ overlap' = (overlap \/ ~Quiet)
    /\ UNCHANGED <<server, refusals, overtaken>>
SendsRules(s, b) ==
    /\ Sending(s, b) /\ b.what = "rules" /\ b.ref = rules'.ref /\ b.names = heap'[rules'.ref]
    /\ b.records = records' /\ dohTokens' = dohTokens
SendsAccess(s, b) ==
    /\ Sending(s, b) /\ b.what = "access" /\ b.tokens = dohTokens'
    /\ UNCHANGED <<rules, heap, records, screen>>

LEMMA RulesBody ==
    ASSUME RulesTypeOK, NEW s \in SaveSlots, NEW sw \in Switches, SaveRules(s, sw),
           rules' \in [sw : Switches, ref : Refs], heap' \in [Refs -> SUBSET Names],
           records' \subseteq Records, dohTokens' = dohTokens
    PROVE  \E b \in Save : SendsRules(s, b) /\ b.sw = sw
<1>. DEFINE b == [st |-> "sent", nth |-> edits + 1, what |-> "rules", sw |-> sw, ref |-> rules'.ref,
                  names |-> heap'[rules'.ref], records |-> records', tokens |-> {}]
<1>1. Send(s, b)
  BY DEF SaveRules
<1>2. /\ b.st = "sent" /\ b.nth = edits + 1 /\ b.what = "rules" /\ b.sw = sw /\ b.ref = rules'.ref
      /\ b.names = heap'[rules'.ref] /\ b.records = records'
  OBVIOUS
<1>3. edits \in 0 .. MaxEdits /\ edits < MaxEdits
  BY <1>1 DEF RulesTypeOK, Send
<1>4. edits + 1 \in 0 .. MaxEdits
  BY <1>3, RulesAssumption
<1>5. rules'.ref \in Refs /\ heap'[rules'.ref] \subseteq Names
  OBVIOUS
<1>6. b \in Save
  BY <1>4, <1>5 DEF Save
<1>. HIDE DEF b
<1>7. Sending(s, b)
  BY <1>1, <1>2, <1>6 DEF Send, Sending
<1>. QED
  BY <1>2, <1>6, <1>7 DEF SendsRules

LEMMA AccessBody ==
    ASSUME RulesTypeOK, NEW s \in SaveSlots, SaveAccess(s), dohTokens' \subseteq DohTokens,
           UNCHANGED <<rules, heap, records, screen>>
    PROVE  \E b \in Save : SendsAccess(s, b)
<1>. DEFINE b == [st |-> "sent", nth |-> edits + 1, what |-> "access", sw |-> rules.sw, ref |-> rules.ref,
                  names |-> {}, records |-> {}, tokens |-> dohTokens']
<1>1. Send(s, b)
  BY DEF SaveAccess
<1>2. b.st = "sent" /\ b.nth = edits + 1 /\ b.what = "access" /\ b.tokens = dohTokens'
  OBVIOUS
<1>3. edits \in 0 .. MaxEdits /\ edits < MaxEdits /\ rules.sw \in Switches /\ rules.ref \in Refs
  BY <1>1 DEF RulesTypeOK, Send
<1>4. edits + 1 \in 0 .. MaxEdits
  BY <1>3, RulesAssumption
<1>5. b \in Save
  BY <1>3, <1>4 DEF Save
<1>. HIDE DEF b
<1>6. Sending(s, b)
  BY <1>1, <1>2, <1>5 DEF Send, Sending
<1>. QED
  BY <1>2, <1>5, <1>6 DEF SendsAccess

\* Sending keeps the types of what it touches.
LEMMA SendingTypes ==
    ASSUME RulesTypeOK, NEW s \in SaveSlots, NEW b \in Save, Sending(s, b)
    PROVE  /\ saves' \in [SaveSlots -> Save] /\ server' \in Whole /\ edits' \in 0 .. MaxEdits
           /\ refusals' \in 0 .. MaxRefusals /\ overlap' \in BOOLEAN /\ overtaken' \in BOOLEAN
           /\ saves'[s] = b /\ \A t \in SaveSlots : t # s => saves'[t] = saves[t]
<1>1. saves' = [saves EXCEPT ![s] = b] /\ edits < MaxEdits /\ edits' = edits + 1
      /\ overlap' = (overlap \/ ~Quiet) /\ UNCHANGED <<server, refusals, overtaken>>
  BY DEF Sending
<1>2. /\ saves \in [SaveSlots -> Save] /\ edits \in 0 .. MaxEdits /\ server \in Whole
      /\ refusals \in 0 .. MaxRefusals /\ overtaken \in BOOLEAN /\ overlap \in BOOLEAN
  BY DEF RulesTypeOK
<1>3. edits' \in 0 .. MaxEdits
  BY <1>1, <1>2, RulesAssumption
<1>4. overlap' \in BOOLEAN
  BY <1>1, Zenon
<1>. QED
  BY <1>1, <1>2, <1>3, <1>4

\* A click flips the switch on the screen; one that has a handler is sent.
LEMMA ToggleSends ==
    ASSUME RulesTypeOK, NEW p \in Presets, NEW s \in SaveSlots, Toggle(p, s)
    PROVE  /\ RulesTypeOK'
           /\ p \in Wired => \E b \in Save : SendsRules(s, b) /\ b.sw = screen'.sw
           /\ p \notin Wired => /\ edits' = edits + 1 /\ UNCHANGED <<saves, server, refusals, overlap, overtaken>>
<1>. DEFINE f == [screen.sw EXCEPT ![p] = ~@]
<1>1. /\ screen' = [screen EXCEPT !.sw = f] /\ wanted' = [wanted EXCEPT !.sw[p] = f[p]]
      /\ UNCHANGED <<rules, heap, records, dohTokens>>
  BY DEF Toggle
<1>2. f \in Switches /\ f[p] \in BOOLEAN
  <2>1. screen.sw \in Switches
    BY DEF RulesTypeOK
  <2>2. f \in Switches
    BY <2>1 DEF Switches
  <2>. QED
    BY <2>2 DEF Switches
<1>. HIDE DEF f
<1>3. screen'.sw = f /\ screen' \in [sw : Switches, names : SUBSET Names, tokens : SUBSET DohTokens]
  BY <1>1, <1>2 DEF RulesTypeOK
<1>4. wanted' \in Whole
  BY <1>1, <1>2 DEF RulesTypeOK, Whole, Switches
<1>5. CASE p \in Wired
  <2>1. SaveRules(s, f)
    BY <1>5 DEF Toggle, f
  <2>2. PICK b \in Save : SendsRules(s, b) /\ b.sw = f
    BY <1>1, <1>2, <2>1, RulesBody DEF RulesTypeOK
  <2>3. RulesTypeOK'
    BY <1>1, <1>3, <1>4, <2>2, SendingTypes DEF RulesTypeOK, SendsRules
  <2>. QED
    BY <1>3, <1>5, <2>2, <2>3
<1>6. CASE p \notin Wired
  <2>1. /\ edits < MaxEdits /\ edits' = edits + 1
        /\ UNCHANGED <<saves, server, refusals, overlap, overtaken>>
    BY <1>6 DEF Toggle, ghostVars
  <2>2. edits' \in 0 .. MaxEdits
    BY <2>1, RulesAssumption DEF RulesTypeOK
  <2>3. RulesTypeOK'
    BY <1>1, <1>3, <1>4, <2>1, <2>2 DEF RulesTypeOK
  <2>. QED
    BY <1>6, <2>1, <2>3
<1>. QED
  BY <1>5, <1>6
LEMMA ProfileSends ==
    ASSUME RulesTypeOK, NEW s \in SaveSlots, ActivateProfile(s)
    PROVE  RulesTypeOK' /\ \E b \in Save : SendsRules(s, b) /\ b.sw = screen'.sw
<1>. DEFINE f == [p \in Presets |-> p \in Profile \/ screen.sw[p]]
            w == [p \in Presets |-> p \in Profile \/ wanted.sw[p]]
<1>1. /\ screen' = [screen EXCEPT !.sw = f] /\ wanted' = [wanted EXCEPT !.sw = w]
      /\ UNCHANGED <<rules, heap, records, dohTokens>>
  BY DEF ActivateProfile
<1>2. f \in Switches /\ w \in Switches
  <2>1. \A p \in Presets : (p \in Profile \/ screen.sw[p]) \in BOOLEAN /\ (p \in Profile \/ wanted.sw[p]) \in BOOLEAN
    BY Zenon
  <2>. QED
    BY <2>1 DEF Switches
<1>. HIDE DEF f, w
<1>3. screen'.sw = f /\ screen' \in [sw : Switches, names : SUBSET Names, tokens : SUBSET DohTokens]
  BY <1>1, <1>2 DEF RulesTypeOK
<1>4. wanted' \in Whole
  BY <1>1, <1>2 DEF RulesTypeOK, Whole
<1>5. SaveRules(s, f)
  BY <1>3 DEF ActivateProfile
<1>6. PICK b \in Save : SendsRules(s, b) /\ b.sw = f
  BY <1>1, <1>2, <1>5, RulesBody DEF RulesTypeOK
<1>7. RulesTypeOK'
  BY <1>1, <1>3, <1>4, <1>6, SendingTypes DEF RulesTypeOK, SendsRules
<1>. QED
  BY <1>3, <1>6, <1>7

\* A list edit is sent with the switches of the screen, which is then drawn.
LEMMA ListSends ==
    ASSUME RulesTypeOK, NEW s \in SaveSlots, SaveRules(s, screen.sw), RenderConfig, dohTokens' = dohTokens,
           rules' \in [sw : Switches, ref : Refs], heap' \in [Refs -> SUBSET Names],
           records' \subseteq Records, wanted' \in Whole
    PROVE  /\ RulesTypeOK' /\ \E b \in Save : SendsRules(s, b) /\ b.sw = screen.sw
           /\ screen'.sw = rules'.sw /\ screen'.names = heap'[rules'.ref] /\ screen'.tokens = dohTokens'
<1>1. screen.sw \in Switches
  BY DEF RulesTypeOK
<1>2. PICK b \in Save : SendsRules(s, b) /\ b.sw = screen.sw
  BY <1>1, RulesBody
<1>3. screen' = [sw |-> rules'.sw, names |-> heap'[rules'.ref], tokens |-> dohTokens']
  BY DEF RenderConfig
<1>4. RulesTypeOK'
  BY <1>2, <1>3, SendingTypes DEF RulesTypeOK, SendsRules
<1>. QED
  BY <1>2, <1>3, <1>4

LEMMA AddSends ==
    ASSUME RulesTypeOK, NEW s \in SaveSlots, NEW n \in Names, AddName(n, s)
    PROVE  /\ RulesTypeOK' /\ \E b \in Save : SendsRules(s, b) /\ b.sw = screen.sw
           /\ screen'.sw = rules'.sw /\ screen'.names = heap'[rules'.ref] /\ screen'.tokens = dohTokens'
           /\ rules'.sw = rules.sw /\ heap'[rules'.ref] = heap[rules.ref] \cup {n}
           /\ wanted' = [wanted EXCEPT !.names = @ \cup {n}] /\ records' = records
<1>1. /\ heap' = [heap EXCEPT ![rules.ref] = @ \cup {n}] /\ wanted' = [wanted EXCEPT !.names = @ \cup {n}]
      /\ UNCHANGED <<rules, records, dohTokens>> /\ SaveRules(s, screen.sw) /\ RenderConfig
  BY DEF AddName
<1>2. heap' \in [Refs -> SUBSET Names] /\ wanted' \in Whole /\ heap'[rules'.ref] = heap[rules.ref] \cup {n}
  BY <1>1 DEF RulesTypeOK, Whole
<1>. QED
  BY <1>1, <1>2, ListSends DEF RulesTypeOK

LEMMA RemoveSends ==
    ASSUME RulesTypeOK, NEW s \in SaveSlots, NEW n \in Names, RemoveName(n, s)
    PROVE  /\ RulesTypeOK' /\ \E b \in Save : SendsRules(s, b) /\ b.sw = screen.sw
           /\ screen'.sw = rules'.sw /\ screen'.names = heap'[rules'.ref] /\ screen'.tokens = dohTokens'
           /\ rules'.sw = rules.sw /\ heap'[rules'.ref] = heap[rules.ref] \ {n}
           /\ wanted' = [wanted EXCEPT !.names = @ \ {n}] /\ records' = records
<1>. DEFINE r == CHOOSE x \in Refs : x \notin InUse
<1>1. /\ rules' = [rules EXCEPT !.ref = r] /\ heap' = [heap EXCEPT ![r] = heap[rules.ref] \ {n}]
      /\ Refs \ InUse # {} /\ wanted' = [wanted EXCEPT !.names = @ \ {n}]
      /\ UNCHANGED <<records, dohTokens>> /\ SaveRules(s, screen.sw) /\ RenderConfig
  BY DEF RemoveName
<1>2. r \in Refs
  BY <1>1
<1>. HIDE DEF r
<1>3. /\ rules' \in [sw : Switches, ref : Refs] /\ rules'.sw = rules.sw /\ rules'.ref = r
      /\ heap' \in [Refs -> SUBSET Names] /\ heap'[r] = heap[rules.ref] \ {n} /\ wanted' \in Whole
  BY <1>1, <1>2 DEF RulesTypeOK, Whole
<1>. QED
  BY <1>1, <1>3, ListSends DEF RulesTypeOK

LEMMA RecordSends ==
    ASSUME RulesTypeOK, NEW s \in SaveSlots, NEW r \in Records, EditRecord(r, s)
    PROVE  /\ RulesTypeOK' /\ \E b \in Save : SendsRules(s, b) /\ b.sw = screen.sw
           /\ screen'.sw = rules'.sw /\ screen'.names = heap'[rules'.ref] /\ screen'.tokens = dohTokens'
           /\ rules' = rules /\ heap' = heap /\ wanted' = [wanted EXCEPT !.records = records']
<1>1. /\ records' = IF r \in records THEN records \ {r} ELSE records \cup {r}
      /\ wanted' = [wanted EXCEPT !.records = records']
      /\ UNCHANGED <<rules, heap, dohTokens>> /\ SaveRules(s, screen.sw) /\ RenderConfig
  BY DEF EditRecord
<1>2. records' \subseteq Records
  BY <1>1 DEF RulesTypeOK
<1>3. wanted' \in Whole
  BY <1>1, <1>2 DEF RulesTypeOK, Whole
<1>. QED
  BY <1>1, <1>2, <1>3, ListSends DEF RulesTypeOK

LEMMA TokenSends ==
    ASSUME RulesTypeOK, NEW s \in SaveSlots, NEW t \in DohTokens, EditToken(t, s)
    PROVE  RulesTypeOK' /\ \E b \in Save : SendsAccess(s, b)
<1>1. /\ dohTokens' = IF t \in screen.tokens THEN dohTokens \ {t} ELSE dohTokens \cup {t}
      /\ wanted' = [wanted EXCEPT !.tokens = IF t \in screen.tokens THEN @ \ {t} ELSE @ \cup {t}]
      /\ UNCHANGED <<rules, heap, records, screen>> /\ SaveAccess(s)
  BY DEF EditToken
<1>2. dohTokens' \subseteq DohTokens /\ wanted' \in Whole
  BY <1>1 DEF RulesTypeOK, Whole
<1>3. PICK b \in Save : SendsAccess(s, b)
  BY <1>1, <1>2, AccessBody
<1>4. RulesTypeOK'
  BY <1>1, <1>2, <1>3, SendingTypes DEF RulesTypeOK, SendsAccess
<1>. QED
  BY <1>3, <1>4

\* The daemon's part, which the page does not see.
LEMMA DeliverTypes ==
    ASSUME RulesTypeOK, NEW s \in SaveSlots, Deliver(s)
    PROVE  /\ RulesTypeOK'
           /\ \A t \in SaveSlots : t # s => saves'[t] = saves[t]
           /\ saves'[s] = [saves[s] EXCEPT !.st = saves'[s].st] /\ saves'[s].st \in {"ok", "refused"}
           /\ saves'[s].st = "ok" => Store(s)
           /\ saves'[s].st = "refused" => refusals' > 0
<1>1. UNCHANGED <<rules, heap, records, dohTokens, screen, edits, wanted, overlap>>
      /\ overtaken' = (overtaken \/ Older(s, {"sent"})) /\ saves[s].st = "sent"
  BY DEF Deliver
<1>2. overtaken' \in BOOLEAN
  BY <1>1, Zenon
<1>3. saves[s] \in Save /\ server \in Whole /\ refusals \in 0 .. MaxRefusals
  BY DEF RulesTypeOK
<1>4. Store(s) => server' \in Whole
  BY <1>3 DEF Store, Save, Whole
<1>5. PICK st \in {"ok", "refused"} :
        /\ saves' = [saves EXCEPT ![s].st = st] /\ server' \in Whole
        /\ st = "ok" => Store(s) /\ refusals' = refusals
        /\ st = "refused" => refusals < MaxRefusals /\ refusals' = refusals + 1
  BY <1>3, <1>4 DEF Deliver
<1>6. refusals' \in 0 .. MaxRefusals
  BY <1>3, <1>5, RulesAssumption
<1>7. /\ saves' \in [SaveSlots -> Save] /\ saves'[s].st = st /\ saves'[s] = [saves[s] EXCEPT !.st = st]
      /\ \A t \in SaveSlots : t # s => saves'[t] = saves[t]
  <2>. DEFINE a == [saves[s] EXCEPT !.st = st]
  <2>1. a \in Save /\ a.st = st
    BY <1>3 DEF Save
  <2>2. saves \in [SaveSlots -> Save] /\ saves' = [saves EXCEPT ![s] = a]
    BY <1>5 DEF RulesTypeOK
  <2>3. saves'[s] = a
    BY <2>2
  <2>4. saves' \in [SaveSlots -> Save] /\ \A t \in SaveSlots : t # s => saves'[t] = saves[t]
    BY <2>1, <2>2
  <2>. QED
    BY <2>1, <2>3, <2>4
<1>8. RulesTypeOK'
  BY <1>1, <1>2, <1>5, <1>6, <1>7 DEF RulesTypeOK
<1>9. st = "refused" => refusals' > 0
  BY <1>3, <1>5, RulesAssumption
<1>. QED
  BY <1>5, <1>7, <1>8, <1>9

LEMMA AnswerTypes ==
    ASSUME RulesTypeOK, NEW s \in SaveSlots, RulesAnswered(s) \/ AccessAnswered(s)
    PROVE  /\ RulesTypeOK' /\ saves' = [saves EXCEPT ![s] = IdleSave]
           /\ saves'[s] = IdleSave /\ \A t \in SaveSlots : t # s => saves'[t] = saves[t]
<1>1. /\ saves' = [saves EXCEPT ![s] = IdleSave]
      /\ overtaken' = (overtaken \/ Older(s, {"sent", "ok", "refused"}))
      /\ UNCHANGED <<heap, records, dohTokens, server, edits, refusals, wanted, overlap>>
  BY DEF RulesAnswered, AccessAnswered
<1>2. overtaken' \in BOOLEAN
  BY <1>1, Zenon
<1>3. /\ saves' \in [SaveSlots -> Save] /\ saves'[s] = IdleSave
      /\ \A t \in SaveSlots : t # s => saves'[t] = saves[t]
  BY <1>1, IdleSaveType DEF RulesTypeOK
<1>4. saves[s] \in Save
  BY DEF RulesTypeOK
<1>5. rules' \in [sw : Switches, ref : Refs]
  BY <1>4 DEF RulesAnswered, AccessAnswered, RulesTypeOK, Save
<1>6. screen' \in [sw : Switches, names : SUBSET Names, tokens : SUBSET DohTokens]
  BY <1>1, <1>5 DEF RulesAnswered, AccessAnswered, RenderConfig, RulesTypeOK
<1>. QED
  BY <1>1, <1>2, <1>3, <1>5, <1>6 DEF RulesTypeOK
-----------------------------------------------------------------------------
(* The rules page: saves that overlap and arrive in order.                 *)

Busy(s) == saves[s].st # "idle"
Out(s, what) == Busy(s) /\ saves[s].what = what
LastOut(s, what) == Out(s, what) /\ \A t \in SaveSlots : Out(t, what) => saves[t].nth <= saves[s].nth

\* Saves are numbered in the order in which they leave.
Numbered == \A s \in SaveSlots : Busy(s) =>
                /\ saves[s].nth <= edits
                /\ \A t \in SaveSlots : Busy(t) /\ saves[t].nth = saves[s].nth => t = s

Orderly == refusals = 0 /\ ~overtaken
InOrder == \A s, t \in SaveSlots :
              saves[s].st = "ok" /\ saves[t].st = "sent" => saves[s].nth < saves[t].nth

\* The last save of the rules under way carries the lists the object has by now, though
\* an earlier answer may have turned the object back to an older array; once the daemon
\* has it, the daemon has exactly that.
RulesCarried(m) ==
    /\ heap[m.ref] = m.names /\ records = m.records
    /\ m.st = "ok" => server.sw = m.sw /\ server.names = m.names /\ server.records = m.records
TokensCarried(m) == dohTokens = m.tokens /\ (m.st = "ok" => server.tokens = m.tokens)
RulesAtRest == rules.sw = server.sw /\ heap[rules.ref] = server.names /\ records = server.records

OrderlySaves == Orderly =>
    /\ InOrder /\ \A s \in SaveSlots : saves[s].st # "refused"
    /\ \A s \in SaveSlots : LastOut(s, "rules") => RulesCarried(saves[s])
    /\ \A s \in SaveSlots : LastOut(s, "access") => TokensCarried(saves[s])
    /\ (\A s \in SaveSlots : ~Out(s, "rules")) => RulesAtRest
    /\ (\A s \in SaveSlots : ~Out(s, "access")) => dohTokens = server.tokens

SavedInv == RulesTypeOK /\ Numbered /\ OrderlySaves

LEMMA SaveFields ==
    ASSUME RulesTypeOK, NEW s \in SaveSlots
    PROVE  saves[s].nth \in Nat /\ edits \in Nat /\ saves[s].what \in {"rules", "access"}
<1>1. saves[s] \in Save /\ edits \in 0 .. MaxEdits
  BY DEF RulesTypeOK
<1>. QED
  BY <1>1, RulesAssumption DEF Save

LEMMA SavedInit == RulesInit => SavedInv
<1>. SUFFICES ASSUME RulesInit PROVE SavedInv
  OBVIOUS
<1>. DEFINE r == CHOOSE x \in Refs : TRUE
<1>1. r \in Refs
  BY SomeRef
<1>2. PICK sw \in Switches, ns \in SUBSET Names :
        /\ rules = [sw |-> sw, ref |-> r] /\ heap = [x \in Refs |-> ns]
        /\ records = {} /\ dohTokens = {}
        /\ screen = [sw |-> sw, names |-> ns, tokens |-> {}]
        /\ server = [sw |-> sw, names |-> ns, records |-> {}, tokens |-> {}]
        /\ wanted = server
        /\ saves = [s \in SaveSlots |-> IdleSave]
        /\ edits = 0 /\ refusals = 0 /\ overlap = FALSE /\ overtaken = FALSE
  BY DEF RulesInit
<1>. HIDE DEF r
<1>3. RulesTypeOK
  <2>1. server \in Whole
    BY <1>2 DEF Whole
  <2>2. rules \in [sw : Switches, ref : Refs] /\ screen \in [sw : Switches, names : SUBSET Names, tokens : SUBSET DohTokens]
    BY <1>1, <1>2
  <2>3. 0 \in 0 .. MaxEdits /\ 0 \in 0 .. MaxRefusals
    BY RulesAssumption
  <2>4. saves \in [SaveSlots -> Save] /\ heap \in [Refs -> SUBSET Names]
    BY <1>2, IdleSaveType
  <2>. QED
    BY <1>2, <2>1, <2>2, <2>3, <2>4 DEF RulesTypeOK
<1>4. \A s \in SaveSlots : saves[s].st = "idle"
  BY <1>2, IdleSaveType
<1>5. RulesAtRest /\ dohTokens = server.tokens
  BY <1>1, <1>2 DEF RulesAtRest
<1>. QED
  BY <1>3, <1>4, <1>5 DEF SavedInv, Numbered, Busy, OrderlySaves, InOrder, LastOut, Out

LEMMA SavedStill == SavedInv /\ UNCHANGED rulesVars => SavedInv'
  BY DEF rulesVars, SavedInv, RulesTypeOK, Numbered, OrderlySaves, Orderly, InOrder, LastOut, Out, Busy,
         RulesCarried, TokensCarried, RulesAtRest

\* A save that leaves is the last one of its kind.
LEMMA SendingOrder ==
    ASSUME SavedInv, NEW s \in SaveSlots, NEW b \in Save, Sending(s, b)
    PROVE  /\ Numbered' /\ (Orderly' <=> Orderly)
           /\ Orderly => InOrder' /\ \A t \in SaveSlots : saves'[t].st # "refused"
           /\ Out(s, b.what)' /\ \A t \in SaveSlots : LastOut(t, b.what)' => t = s
           /\ \A w \in {"rules", "access"} : w # b.what =>
                 \A t \in SaveSlots : (Out(t, w)' <=> Out(t, w)) /\ (LastOut(t, w)' => t # s /\ LastOut(t, w))
<1>1. /\ saves[s].st = "idle" /\ b.st = "sent" /\ b.nth = edits + 1 /\ edits' = edits + 1
      /\ UNCHANGED <<refusals, overtaken>>
      /\ saves'[s] = b /\ \A t \in SaveSlots : t # s => saves'[t] = saves[t]
  BY SendingTypes DEF SavedInv, Sending
<1>2. \A t \in SaveSlots : saves[t].nth \in Nat /\ edits \in Nat
  BY SaveFields DEF SavedInv
<1>3. \A t \in SaveSlots : Busy(t) => saves[t].nth <= edits
  BY DEF SavedInv, Numbered
<1>4. Numbered'
  BY <1>1, <1>2 DEF SavedInv, Numbered, Busy
<1>5. Orderly => InOrder' /\ \A t \in SaveSlots : saves'[t].st # "refused"
  BY <1>1, <1>2, <1>3 DEF SavedInv, OrderlySaves, InOrder, Busy
<1>6. Out(s, b.what)' /\ \A t \in SaveSlots : LastOut(t, b.what)' => t = s
  BY <1>1, <1>2, <1>3 DEF LastOut, Out, Busy
<1>7. \A w \in {"rules", "access"} : w # b.what =>
         \A t \in SaveSlots : (Out(t, w)' <=> Out(t, w)) /\ (LastOut(t, w)' => t # s /\ LastOut(t, w))
  BY <1>1 DEF LastOut, Out, Busy
<1>. QED
  BY <1>1, <1>4, <1>5, <1>6, <1>7 DEF Orderly

LEMMA RulesSentKeeps ==
    ASSUME SavedInv, NEW s \in SaveSlots, NEW b \in Save, SendsRules(s, b), RulesTypeOK' PROVE SavedInv'
<1>1. Sending(s, b) /\ b.what = "rules" /\ b.names = heap'[b.ref] /\ b.records = records' /\ dohTokens' = dohTokens
  BY DEF SendsRules
<1>2. saves'[s] = b /\ b.st = "sent" /\ server' = server
  BY <1>1, SendingTypes DEF SavedInv, Sending
<1>3. \A t \in SaveSlots : t # s => saves'[t] = saves[t]
  BY <1>1, SendingTypes DEF SavedInv
<1>4. \A t \in SaveSlots : LastOut(t, "rules")' => RulesCarried(saves[t])'
  BY <1>1, <1>2, SendingOrder DEF RulesCarried
<1>5. Orderly' => \A t \in SaveSlots : LastOut(t, "access")' => TokensCarried(saves[t])'
  BY <1>1, <1>2, <1>3, SendingOrder DEF TokensCarried, SavedInv, OrderlySaves
<1>6. Orderly' => ((\A t \in SaveSlots : ~Out(t, "access")') => dohTokens' = server'.tokens)
  BY <1>1, <1>2, SendingOrder DEF SavedInv, OrderlySaves
<1>7. ~(\A t \in SaveSlots : ~Out(t, "rules")')
  BY <1>1, SendingOrder
<1>. QED
  BY <1>1, <1>4, <1>5, <1>6, <1>7, SendingOrder DEF SavedInv, OrderlySaves

LEMMA AccessSentKeeps ==
    ASSUME SavedInv, NEW s \in SaveSlots, NEW b \in Save, SendsAccess(s, b), RulesTypeOK' PROVE SavedInv'
<1>1. Sending(s, b) /\ b.what = "access" /\ b.tokens = dohTokens' /\ UNCHANGED <<rules, heap, records>>
  BY DEF SendsAccess
<1>2. saves'[s] = b /\ b.st = "sent" /\ server' = server
  BY <1>1, SendingTypes DEF SavedInv, Sending
<1>3. \A t \in SaveSlots : t # s => saves'[t] = saves[t]
  BY <1>1, SendingTypes DEF SavedInv
<1>4. \A t \in SaveSlots : LastOut(t, "access")' => TokensCarried(saves[t])'
  BY <1>1, <1>2, SendingOrder DEF TokensCarried
<1>5. Orderly' => \A t \in SaveSlots : LastOut(t, "rules")' => RulesCarried(saves[t])'
  BY <1>1, <1>2, <1>3, SendingOrder DEF RulesCarried, SavedInv, OrderlySaves
<1>6. Orderly' => ((\A t \in SaveSlots : ~Out(t, "rules")') => RulesAtRest')
  BY <1>1, <1>2, SendingOrder DEF SavedInv, OrderlySaves, RulesAtRest
<1>7. ~(\A t \in SaveSlots : ~Out(t, "access")')
  BY <1>1, SendingOrder
<1>. QED
  BY <1>1, <1>4, <1>5, <1>6, <1>7, SendingOrder DEF SavedInv, OrderlySaves

\* A click on a switch without a handler sends nothing.
LEMMA UnsentKeeps ==
    ASSUME SavedInv, RulesTypeOK', edits' = edits + 1,
           UNCHANGED <<saves, server, refusals, overtaken, rules, heap, records, dohTokens>>
    PROVE  SavedInv'
<1>1. \A s \in SaveSlots : saves[s].nth \in Nat /\ edits \in Nat
  BY SaveFields DEF SavedInv
<1>2. Numbered'
  BY <1>1 DEF SavedInv, Numbered, Busy
<1>3. OrderlySaves'
  BY DEF SavedInv, OrderlySaves, Orderly, InOrder, LastOut, Out, Busy, RulesCarried, TokensCarried, RulesAtRest
<1>. QED
  BY <1>2, <1>3 DEF SavedInv

LEMMA DeliverSaved == ASSUME SavedInv, NEW s \in SaveSlots, Deliver(s) PROVE SavedInv'
<1>1. /\ saves[s].st = "sent" /\ overtaken' = (overtaken \/ Older(s, {"sent"}))
      /\ UNCHANGED <<rules, heap, records, dohTokens, screen, edits, wanted, overlap>>
      /\ saves[s] \in Save /\ server \in Whole
  BY DEF Deliver, SavedInv, RulesTypeOK
<1>2. /\ RulesTypeOK' /\ \A t \in SaveSlots : t # s => saves'[t] = saves[t]
      /\ saves'[s] = [saves[s] EXCEPT !.st = saves'[s].st] /\ saves'[s].st \in {"ok", "refused"}
      /\ saves'[s].st = "ok" => Store(s)
      /\ saves'[s].st = "refused" => refusals' > 0
  BY DeliverTypes DEF SavedInv
<1>3. /\ saves'[s].what = saves[s].what /\ saves'[s].nth = saves[s].nth /\ saves'[s].sw = saves[s].sw
      /\ saves'[s].ref = saves[s].ref /\ saves'[s].names = saves[s].names
      /\ saves'[s].records = saves[s].records /\ saves'[s].tokens = saves[s].tokens
  BY <1>1, <1>2 DEF Save
<1>4. \A t \in SaveSlots : saves[t].nth \in Nat
  BY SaveFields DEF SavedInv
<1>5. \A t \in SaveSlots : /\ Busy(t)' <=> Busy(t)
                           /\ saves'[t].nth = saves[t].nth /\ saves'[t].what = saves[t].what
  BY <1>1, <1>2, <1>3 DEF Busy
<1>6. \A t \in SaveSlots, w \in {"rules", "access"} : (Out(t, w)' <=> Out(t, w)) /\ (LastOut(t, w)' <=> LastOut(t, w))
  BY <1>5 DEF LastOut, Out
<1>7. Numbered'
  BY <1>1, <1>5 DEF SavedInv, Numbered
<1>8. SUFFICES ASSUME Orderly' PROVE OrderlySaves'
  BY <1>2, <1>7 DEF SavedInv, OrderlySaves
<1>9. Orderly /\ saves'[s].st = "ok" /\ ~Older(s, {"sent"})
  <2>1. ~overtaken /\ ~Older(s, {"sent"})
    BY <1>1, <1>8, Zenon DEF Orderly
  <2>2. saves'[s].st = "ok"
    BY <1>2, <1>8 DEF Orderly
  <2>3. refusals = 0
    BY <1>8, <2>2, <1>2 DEF Orderly, Deliver, SavedInv, RulesTypeOK
  <2>. QED
    BY <2>1, <2>3, <2>2 DEF Orderly
<1>10. InOrder /\ \A t \in SaveSlots : saves[t].st # "refused"
  BY <1>9 DEF SavedInv, OrderlySaves
<1>11. InOrder' /\ \A t \in SaveSlots : saves'[t].st # "refused"
  <2>1. \A t \in SaveSlots : t # s /\ saves[t].st = "sent" => saves[s].nth < saves[t].nth
    BY <1>1, <1>4, <1>9 DEF Older, SavedInv, Numbered, Busy
  <2>. QED
    BY <1>2, <1>5, <1>9, <1>10, <2>1 DEF InOrder
<1>12. ASSUME NEW w \in {"rules", "access"}, saves[s].what = w, NEW t \in SaveSlots, LastOut(t, w), t # s
       PROVE  saves[t].st # "ok"
  BY <1>1, <1>4, <1>10, <1>12 DEF InOrder, LastOut, Out, Busy
<1>13. CASE saves[s].what = "rules"
  <2>1. /\ server'.sw = saves[s].sw /\ server'.names = saves[s].names
        /\ server'.records = saves[s].records /\ server'.tokens = server.tokens
    BY <1>1, <1>2, <1>9, <1>13 DEF Store, Whole
  <2>2. ASSUME NEW t \in SaveSlots, LastOut(t, "rules")' PROVE RulesCarried(saves[t])'
    <3>1. LastOut(t, "rules") /\ RulesCarried(saves[t])
      BY <1>6, <1>9, <2>2 DEF SavedInv, OrderlySaves
    <3>2. CASE t = s
      BY <1>1, <1>3, <2>1, <3>1, <3>2 DEF RulesCarried
    <3>3. CASE t # s
      BY <1>1, <1>2, <1>12, <1>13, <3>1, <3>3 DEF RulesCarried
    <3>. QED
      BY <3>2, <3>3
  <2>3. \A t \in SaveSlots : LastOut(t, "access")' => TokensCarried(saves[t])'
    BY <1>1, <1>2, <1>6, <1>9, <1>13, <2>1 DEF SavedInv, OrderlySaves, TokensCarried, LastOut, Out
  <2>4. Out(s, "rules")'
    BY <1>1, <1>6, <1>13 DEF Out, Busy
  <2>5. (\A t \in SaveSlots : ~Out(t, "access")') => dohTokens' = server'.tokens
    BY <1>1, <1>6, <1>9, <2>1 DEF SavedInv, OrderlySaves
  <2>. QED
    BY <1>11, <2>2, <2>3, <2>4, <2>5 DEF OrderlySaves
<1>14. CASE saves[s].what = "access"
  <2>1. /\ server'.sw = server.sw /\ server'.names = server.names
        /\ server'.records = server.records /\ server'.tokens = saves[s].tokens
    BY <1>1, <1>2, <1>9, <1>14 DEF Store, Whole
  <2>2. ASSUME NEW t \in SaveSlots, LastOut(t, "access")' PROVE TokensCarried(saves[t])'
    <3>1. LastOut(t, "access") /\ TokensCarried(saves[t])
      BY <1>6, <1>9, <2>2 DEF SavedInv, OrderlySaves
    <3>2. CASE t = s
      BY <1>1, <1>3, <2>1, <3>1, <3>2 DEF TokensCarried
    <3>3. CASE t # s
      BY <1>1, <1>2, <1>12, <1>14, <3>1, <3>3 DEF TokensCarried
    <3>. QED
      BY <3>2, <3>3
  <2>3. \A t \in SaveSlots : LastOut(t, "rules")' => RulesCarried(saves[t])'
    BY <1>1, <1>2, <1>6, <1>9, <1>14, <2>1 DEF SavedInv, OrderlySaves, RulesCarried, LastOut, Out
  <2>4. Out(s, "access")'
    BY <1>1, <1>6, <1>14 DEF Out, Busy
  <2>5. (\A t \in SaveSlots : ~Out(t, "rules")') => RulesAtRest'
    BY <1>1, <1>6, <1>9, <2>1 DEF SavedInv, OrderlySaves, RulesAtRest
  <2>. QED
    BY <1>11, <2>2, <2>3, <2>4, <2>5 DEF OrderlySaves
<1>. QED
  BY <1>1, <1>13, <1>14 DEF Save

LEMMA AnswerSaved ==
    ASSUME SavedInv, NEW s \in SaveSlots, RulesAnswered(s) \/ AccessAnswered(s) PROVE SavedInv'
<1>1. /\ RulesTypeOK' /\ saves'[s] = IdleSave /\ \A t \in SaveSlots : t # s => saves'[t] = saves[t]
      /\ saves'[s].st = "idle"
  BY AnswerTypes, IdleSaveType DEF SavedInv
<1>2. /\ saves[s].st \in {"ok", "refused"} /\ overtaken' = (overtaken \/ Older(s, {"sent", "ok", "refused"}))
      /\ UNCHANGED <<heap, records, dohTokens, server, edits, refusals>>
  BY DEF RulesAnswered, AccessAnswered
<1>3. \A t \in SaveSlots : saves[t].nth \in Nat /\ saves[t].st \in {"idle", "sent", "ok", "refused"}
  BY SaveFields DEF SavedInv, RulesTypeOK, Save
<1>4. Numbered'
  BY <1>1, <1>2 DEF SavedInv, Numbered, Busy
<1>5. SUFFICES ASSUME Orderly' PROVE OrderlySaves'
  BY <1>1, <1>4 DEF SavedInv, OrderlySaves
<1>6. Orderly /\ ~Older(s, {"sent", "ok", "refused"})
  BY <1>2, <1>5 DEF Orderly
<1>7. saves[s].st = "ok" /\ InOrder' /\ \A t \in SaveSlots : saves'[t].st # "refused"
  BY <1>1, <1>2, <1>6 DEF SavedInv, OrderlySaves, InOrder
<1>8. \A t \in SaveSlots : t # s /\ Busy(t) => saves[s].nth < saves[t].nth
  BY <1>2, <1>3, <1>6 DEF Older, SavedInv, Numbered, Busy
<1>9. \A t \in SaveSlots, w \in {"rules", "access"} :
         /\ Out(t, w)' <=> t # s /\ Out(t, w)
         /\ LastOut(t, w)' => t # s /\ LastOut(t, w)
  <2>1. \A t \in SaveSlots, w \in {"rules", "access"} : Out(t, w)' <=> t # s /\ Out(t, w)
    BY <1>1 DEF Out, Busy
  <2>. QED
    BY <1>1, <1>3, <1>8, <2>1 DEF LastOut, Out
<1>10. ASSUME NEW w \in {"rules", "access"}, \A t \in SaveSlots : ~Out(t, w)', saves[s].what = w PROVE LastOut(s, w)
  BY <1>2, <1>3, <1>9, <1>10 DEF LastOut, Out, Busy
<1>11. CASE RulesAnswered(s)
  <2>1. saves[s].what = "rules" /\ rules' = [sw |-> saves[s].sw, ref |-> saves[s].ref]
    BY <1>7, <1>11 DEF RulesAnswered
  <2>2. \A t \in SaveSlots : LastOut(t, "rules")' => RulesCarried(saves[t])'
    BY <1>1, <1>2, <1>6, <1>9 DEF SavedInv, OrderlySaves, RulesCarried
  <2>3. \A t \in SaveSlots : LastOut(t, "access")' => TokensCarried(saves[t])'
    BY <1>1, <1>2, <1>6, <1>9 DEF SavedInv, OrderlySaves, TokensCarried
  <2>4. ASSUME \A t \in SaveSlots : ~Out(t, "rules")' PROVE RulesAtRest'
    <3>1. RulesCarried(saves[s])
      BY <1>6, <1>10, <2>1, <2>4 DEF SavedInv, OrderlySaves
    <3>. QED
      BY <1>2, <1>7, <2>1, <3>1 DEF RulesCarried, RulesAtRest
  <2>5. (\A t \in SaveSlots : ~Out(t, "access")') => dohTokens' = server'.tokens
    <3>1. ~Out(s, "access")
      BY <2>1 DEF Out
    <3>. QED
      BY <1>2, <1>6, <1>9, <3>1 DEF SavedInv, OrderlySaves
  <2>. QED
    BY <1>7, <2>2, <2>3, <2>4, <2>5 DEF OrderlySaves
<1>12. CASE AccessAnswered(s)
  <2>1. saves[s].what = "access" /\ rules' = rules
    BY <1>12 DEF AccessAnswered
  <2>2. \A t \in SaveSlots : LastOut(t, "rules")' => RulesCarried(saves[t])'
    BY <1>1, <1>2, <1>6, <1>9 DEF SavedInv, OrderlySaves, RulesCarried
  <2>3. \A t \in SaveSlots : LastOut(t, "access")' => TokensCarried(saves[t])'
    BY <1>1, <1>2, <1>6, <1>9 DEF SavedInv, OrderlySaves, TokensCarried
  <2>4. ASSUME \A t \in SaveSlots : ~Out(t, "access")' PROVE dohTokens' = server'.tokens
    <3>1. TokensCarried(saves[s])
      BY <1>6, <1>10, <2>1, <2>4 DEF SavedInv, OrderlySaves
    <3>. QED
      BY <1>2, <1>7, <3>1 DEF TokensCarried
  <2>5. (\A t \in SaveSlots : ~Out(t, "rules")') => RulesAtRest'
    <3>1. ~Out(s, "rules")
      BY <2>1 DEF Out
    <3>. QED
      BY <1>2, <1>6, <1>9, <2>1, <3>1 DEF SavedInv, OrderlySaves, RulesAtRest
  <2>. QED
    BY <1>7, <2>2, <2>3, <2>4, <2>5 DEF OrderlySaves
<1>. QED
  BY <1>11, <1>12

LEMMA SavedStep == ASSUME SavedInv, RulesNext PROVE SavedInv'
<1>0. RulesTypeOK
  BY DEF SavedInv
<1>1. ASSUME NEW s \in SaveSlots, NEW p \in Presets, Toggle(p, s) PROVE SavedInv'
  <2>1. UNCHANGED <<rules, heap, records, dohTokens>>
    BY <1>1 DEF Toggle
  <2>2. CASE p \in Wired
    BY <1>0, <1>1, <2>2, ToggleSends, RulesSentKeeps
  <2>3. CASE p \notin Wired
    BY <1>0, <1>1, <2>1, <2>3, ToggleSends, UnsentKeeps
  <2>. QED
    BY <2>2, <2>3
<1>2. ASSUME NEW s \in SaveSlots, ActivateProfile(s) PROVE SavedInv'
  BY <1>0, <1>2, ProfileSends, RulesSentKeeps
<1>3. ASSUME NEW s \in SaveSlots, NEW n \in Names, AddName(n, s) \/ RemoveName(n, s) PROVE SavedInv'
  BY <1>0, <1>3, AddSends, RemoveSends, RulesSentKeeps
<1>4. ASSUME NEW s \in SaveSlots, NEW r \in Records, EditRecord(r, s) PROVE SavedInv'
  BY <1>0, <1>4, RecordSends, RulesSentKeeps
<1>5. ASSUME NEW s \in SaveSlots, NEW t \in DohTokens, EditToken(t, s) PROVE SavedInv'
  BY <1>0, <1>5, TokenSends, AccessSentKeeps
<1>6. ASSUME NEW s \in SaveSlots, Deliver(s) \/ RulesAnswered(s) \/ AccessAnswered(s) PROVE SavedInv'
  BY <1>6, DeliverSaved, AnswerSaved
<1>. QED
  BY <1>1, <1>2, <1>3, <1>4, <1>5, <1>6 DEF RulesNext

LEMMA SavedInvariance == PagesSpec => []SavedInv
<1>1. PagesInit => SavedInv
  BY SavedInit DEF PagesInit
<1>2. SavedInv /\ [PagesNext]_pagesVars => SavedInv'
  BY RuleMoves, SavedStep, SavedStill
<1>. QED
  BY <1>1, <1>2, PTL DEF PagesSpec

\* Saves share their arrays with the object they become, and several are under way:
\* delivered and answered in order, none refused, they leave the object equal to what the
\* daemon stores, for any number of them and of arrays (app.js:968-1026).
THEOREM SavedAgreesHolds == PagesSpec => []SavedAgrees
<1>1. SavedInv => SavedAgrees
  <2>. SUFFICES ASSUME SavedInv, Quiet, refusals = 0, ~overtaken PROVE Held = server
    BY DEF SavedAgrees
  <2>1. RulesAtRest /\ dohTokens = server.tokens
    BY DEF SavedInv, OrderlySaves, Orderly, Quiet, Out, Busy
  <2>2. server \in Whole
    BY DEF SavedInv, RulesTypeOK
  <2>. QED
    BY <2>1, <2>2 DEF Held, RulesAtRest, Whole
<1>. QED
  BY <1>1, SavedInvariance, PTL
-----------------------------------------------------------------------------
(* The rules page: an operator who waits for each save.                    *)

Unhurried == refusals = 0 /\ ~overlap

\* The object and the screen hold the operator's last word on the lists throughout, the
\* screen on the switches that have a handler.
PageMeant ==
    /\ screen.names = wanted.names /\ heap[rules.ref] = wanted.names
    /\ records = wanted.records /\ dohTokens = wanted.tokens
    /\ \A p \in Wired : screen.sw[p] = wanted.sw[p]
ListsKept == server.names = wanted.names /\ server.records = wanted.records
SwitchesKept == \A p \in Wired : rules.sw[p] = wanted.sw[p] /\ server.sw[p] = wanted.sw[p]
TokensKept == server.tokens = wanted.tokens /\ screen.tokens = dohTokens

\* The one save under way carries it to the daemon, and leaves the rest alone.
RulesMeant(m) ==
    /\ TokensKept /\ m.ref = rules.ref /\ m.names = wanted.names /\ m.records = wanted.records
    /\ \A p \in Wired : m.sw[p] = wanted.sw[p]
    /\ m.st = "ok" => server.sw = m.sw /\ ListsKept
TokensMeant(m) ==
    /\ ListsKept /\ SwitchesKept /\ m.tokens = wanted.tokens
    /\ m.st = "ok" => server.tokens = wanted.tokens

CalmSaves == Unhurried =>
    /\ PageMeant /\ (Quiet => ListsKept /\ SwitchesKept /\ TokensKept)
    /\ \A s \in SaveSlots : Busy(s) =>
          /\ saves[s].st # "refused" /\ \A t \in SaveSlots : Busy(t) => t = s
          /\ saves[s].what = "rules" => RulesMeant(saves[s])
          /\ saves[s].what = "access" => TokensMeant(saves[s])

CalmInv == RulesTypeOK /\ CalmSaves

LEMMA CalmInit == RulesInit => CalmInv
<1>. SUFFICES ASSUME RulesInit PROVE CalmInv
  OBVIOUS
<1>1. RulesTypeOK
  BY SavedInit DEF SavedInv
<1>2. \A s \in SaveSlots : ~Busy(s)
  BY IdleSaveType DEF RulesInit, Busy
<1>3. (CHOOSE x \in Refs : TRUE) \in Refs
  BY SomeRef
<1>4. PageMeant /\ ListsKept /\ SwitchesKept /\ TokensKept
  BY <1>3 DEF RulesInit, PageMeant, ListsKept, SwitchesKept, TokensKept
<1>. QED
  BY <1>1, <1>2, <1>4 DEF CalmInv, CalmSaves

LEMMA CalmStill == CalmInv /\ UNCHANGED rulesVars => CalmInv'
  BY DEF rulesVars, CalmInv, RulesTypeOK, CalmSaves, Unhurried, Quiet, Busy, PageMeant, ListsKept,
         SwitchesKept, TokensKept, RulesMeant, TokensMeant

\* What is sent while nothing else is under way is the only save.
LEMMA SendingCalm ==
    ASSUME CalmInv, NEW s \in SaveSlots, NEW b \in Save, Sending(s, b), Unhurried'
    PROVE  /\ PageMeant /\ ListsKept /\ SwitchesKept /\ TokensKept /\ server' = server
           /\ saves'[s] = b /\ ~Quiet' /\ \A t \in SaveSlots : Busy(t)' => t = s
<1>1. saves'[s] = b /\ \A t \in SaveSlots : t # s => saves'[t] = saves[t]
  BY SendingTypes DEF CalmInv
<1>2. /\ b.st = "sent" /\ overlap' = (overlap \/ ~Quiet)
      /\ UNCHANGED <<server, refusals, overtaken>>
  BY DEF Sending
<1>3. ~overlap /\ Quiet
  BY <1>2, Zenon DEF Unhurried
<1>4. Unhurried
  BY <1>2, <1>3 DEF Unhurried
<1>. QED
  BY <1>1, <1>2, <1>3, <1>4 DEF CalmInv, CalmSaves, Quiet, Busy

\* A save of the rules that carries what the page now means.
LEMMA RulesSentCalm ==
    ASSUME CalmInv, NEW s \in SaveSlots, NEW b \in Save, SendsRules(s, b), RulesTypeOK',
           PageMeant /\ SwitchesKept /\ TokensKept =>
              /\ PageMeant' /\ wanted'.tokens = wanted.tokens /\ screen'.tokens = dohTokens'
              /\ \A p \in Wired : b.sw[p] = wanted'.sw[p]
    PROVE  CalmInv'
<1>1. SUFFICES ASSUME Unhurried' PROVE CalmSaves'
  BY DEF CalmInv, CalmSaves
<1>2. /\ PageMeant /\ SwitchesKept /\ TokensKept /\ server' = server
      /\ saves'[s] = b /\ ~Quiet' /\ \A t \in SaveSlots : Busy(t)' => t = s
  BY <1>1, SendingCalm DEF SendsRules
<1>3. /\ PageMeant' /\ wanted'.tokens = wanted.tokens /\ screen'.tokens = dohTokens'
      /\ \A p \in Wired : b.sw[p] = wanted'.sw[p]
  BY <1>2
<1>4. /\ b.st = "sent" /\ b.what = "rules" /\ b.ref = rules'.ref /\ b.names = heap'[rules'.ref]
      /\ b.records = records' /\ dohTokens' = dohTokens
  BY DEF SendsRules, Sending
<1>5. TokensKept'
  BY <1>2, <1>3 DEF TokensKept
<1>6. RulesMeant(saves[s])'
  BY <1>2, <1>3, <1>4, <1>5 DEF RulesMeant, PageMeant
<1>. QED
  BY <1>2, <1>3, <1>4, <1>6 DEF CalmSaves

LEMMA ToggleCalm ==
    ASSUME CalmInv, NEW p \in Presets, NEW s \in SaveSlots, Toggle(p, s) PROVE CalmInv'
<1>0. /\ RulesTypeOK /\ wanted \in Whole /\ screen \in [sw : Switches, names : SUBSET Names, tokens : SUBSET DohTokens]
      /\ Wired \subseteq Presets
  BY RulesAssumption DEF CalmInv, RulesTypeOK
<1>. DEFINE f == [screen.sw EXCEPT ![p] = ~@]
            w == [wanted.sw EXCEPT ![p] = f[p]]
<1>1. /\ screen' = [screen EXCEPT !.sw = f] /\ wanted' = [wanted EXCEPT !.sw[p] = f[p]]
      /\ UNCHANGED <<rules, heap, records, dohTokens>>
  BY DEF Toggle
<1>2. \A q \in Wired : (screen.sw[q] = wanted.sw[q] => f[q] = w[q]) /\ (q # p => w[q] = wanted.sw[q])
  BY <1>0 DEF Whole, Switches
<1>. HIDE DEF f
<1>3. wanted' = [wanted EXCEPT !.sw = w]
  BY <1>1
<1>. HIDE DEF w
<1>4. /\ screen'.sw = f /\ screen'.names = screen.names /\ screen'.tokens = screen.tokens
      /\ wanted'.sw = w /\ wanted'.names = wanted.names /\ wanted'.records = wanted.records
      /\ wanted'.tokens = wanted.tokens
  BY <1>0, <1>1, <1>3 DEF Whole
<1>5. PageMeant => PageMeant'
  BY <1>1, <1>2, <1>4 DEF PageMeant
<1>6. CASE p \in Wired
  <2>1. PICK b \in Save : SendsRules(s, b) /\ b.sw = screen'.sw
    BY <1>0, <1>6, ToggleSends
  <2>2. PageMeant' => \A q \in Wired : b.sw[q] = wanted'.sw[q]
    BY <2>1 DEF PageMeant
  <2>. QED
    BY <1>0, <1>1, <1>4, <1>5, <2>1, <2>2, ToggleSends, RulesSentCalm DEF TokensKept
<1>7. CASE p \notin Wired
  <2>1. RulesTypeOK' /\ UNCHANGED <<saves, server, refusals, overlap, overtaken>>
    BY <1>0, <1>7, ToggleSends
  <2>2. SwitchesKept => SwitchesKept'
    BY <1>1, <1>2, <1>4, <1>7, <2>1 DEF SwitchesKept
  <2>3. (ListsKept => ListsKept') /\ (TokensKept => TokensKept')
    BY <1>1, <1>4, <2>1 DEF ListsKept, TokensKept
  <2>4. \A q \in Wired : wanted'.sw[q] = wanted.sw[q]
    BY <1>2, <1>4, <1>7
  <2>5. ASSUME NEW m PROVE (RulesMeant(m) => RulesMeant(m)') /\ (TokensMeant(m) => TokensMeant(m)')
    BY <1>1, <1>4, <2>1, <2>2, <2>3, <2>4 DEF RulesMeant, TokensMeant
  <2>. QED
    BY <1>5, <2>1, <2>2, <2>3, <2>5 DEF CalmInv, CalmSaves, Unhurried, Quiet, Busy
<1>. QED
  BY <1>6, <1>7

LEMMA ProfileCalm == ASSUME CalmInv, NEW s \in SaveSlots, ActivateProfile(s) PROVE CalmInv'
<1>0. /\ RulesTypeOK /\ wanted \in Whole /\ screen \in [sw : Switches, names : SUBSET Names, tokens : SUBSET DohTokens]
      /\ Wired \subseteq Presets
  BY RulesAssumption DEF CalmInv, RulesTypeOK
<1>. DEFINE f == [p \in Presets |-> p \in Profile \/ screen.sw[p]]
            w == [p \in Presets |-> p \in Profile \/ wanted.sw[p]]
<1>1. /\ screen' = [screen EXCEPT !.sw = f] /\ wanted' = [wanted EXCEPT !.sw = w]
      /\ UNCHANGED <<rules, heap, records, dohTokens>>
  BY DEF ActivateProfile
<1>2. \A q \in Wired : screen.sw[q] = wanted.sw[q] => f[q] = w[q]
  BY <1>0
<1>. HIDE DEF f, w
<1>3. /\ screen'.sw = f /\ screen'.names = screen.names /\ screen'.tokens = screen.tokens
      /\ wanted'.sw = w /\ wanted'.names = wanted.names /\ wanted'.records = wanted.records
      /\ wanted'.tokens = wanted.tokens
  BY <1>0, <1>1 DEF Whole
<1>4. PageMeant => PageMeant'
  BY <1>1, <1>2, <1>3 DEF PageMeant
<1>5. PICK b \in Save : SendsRules(s, b) /\ b.sw = screen'.sw
  BY <1>0, ProfileSends
<1>6. PageMeant' => \A q \in Wired : b.sw[q] = wanted'.sw[q]
  BY <1>5 DEF PageMeant
<1>. QED
  BY <1>0, <1>1, <1>3, <1>4, <1>5, <1>6, ProfileSends, RulesSentCalm DEF TokensKept

\* The list edits.
LEMMA ListCalm ==
    ASSUME CalmInv, NEW s \in SaveSlots,
           \/ \E n \in Names : AddName(n, s) \/ RemoveName(n, s)
           \/ \E r \in Records : EditRecord(r, s)
    PROVE  CalmInv'
<1>0. RulesTypeOK /\ wanted \in Whole
  BY DEF CalmInv, RulesTypeOK
<1>1. dohTokens' = dohTokens
  BY DEF AddName, RemoveName, EditRecord
<1>2. /\ RulesTypeOK' /\ \E b \in Save : SendsRules(s, b) /\ b.sw = screen.sw
      /\ screen'.sw = rules'.sw /\ screen'.names = heap'[rules'.ref] /\ screen'.tokens = dohTokens'
      /\ rules'.sw = rules.sw
  BY <1>0, AddSends, RemoveSends, RecordSends
<1>3. /\ wanted'.sw = wanted.sw /\ wanted'.tokens = wanted.tokens
      /\ PageMeant => heap'[rules'.ref] = wanted'.names /\ records' = wanted'.records
  <2>1. ASSUME NEW n \in Names, AddName(n, s)
        PROVE  /\ wanted'.sw = wanted.sw /\ wanted'.tokens = wanted.tokens
               /\ PageMeant => heap'[rules'.ref] = wanted'.names /\ records' = wanted'.records
    <3>1. /\ heap'[rules'.ref] = heap[rules.ref] \cup {n} /\ wanted' = [wanted EXCEPT !.names = @ \cup {n}]
          /\ records' = records
      BY <1>0, <2>1, AddSends
    <3>. QED
      BY <1>0, <3>1 DEF Whole, PageMeant
  <2>2. ASSUME NEW n \in Names, RemoveName(n, s)
        PROVE  /\ wanted'.sw = wanted.sw /\ wanted'.tokens = wanted.tokens
               /\ PageMeant => heap'[rules'.ref] = wanted'.names /\ records' = wanted'.records
    <3>1. /\ heap'[rules'.ref] = heap[rules.ref] \ {n} /\ wanted' = [wanted EXCEPT !.names = @ \ {n}]
          /\ records' = records
      BY <1>0, <2>2, RemoveSends
    <3>. QED
      BY <1>0, <3>1 DEF Whole, PageMeant
  <2>3. ASSUME NEW r \in Records, EditRecord(r, s)
        PROVE  /\ wanted'.sw = wanted.sw /\ wanted'.tokens = wanted.tokens
               /\ PageMeant => heap'[rules'.ref] = wanted'.names /\ records' = wanted'.records
    <3>1. rules' = rules /\ heap' = heap /\ wanted' = [wanted EXCEPT !.records = records']
      BY <1>0, <2>3, RecordSends
    <3>. QED
      BY <1>0, <3>1 DEF Whole, PageMeant
  <2>. QED
    BY <2>1, <2>2, <2>3
<1>4. PICK b \in Save : SendsRules(s, b) /\ b.sw = screen.sw
  BY <1>2
<1>5. PageMeant /\ SwitchesKept => PageMeant' /\ \A p \in Wired : b.sw[p] = wanted'.sw[p]
  BY <1>1, <1>2, <1>3, <1>4 DEF PageMeant, SwitchesKept
<1>. QED
  BY <1>2, <1>3, <1>4, <1>5, RulesSentCalm

LEMMA TokenCalm == ASSUME CalmInv, NEW s \in SaveSlots, NEW t \in DohTokens, EditToken(t, s) PROVE CalmInv'
<1>0. RulesTypeOK /\ wanted \in Whole
  BY DEF CalmInv, RulesTypeOK
<1>1. /\ dohTokens' = IF t \in screen.tokens THEN dohTokens \ {t} ELSE dohTokens \cup {t}
      /\ wanted' = [wanted EXCEPT !.tokens = IF t \in screen.tokens THEN @ \ {t} ELSE @ \cup {t}]
      /\ UNCHANGED <<rules, heap, records, screen>>
  BY DEF EditToken
<1>2. RulesTypeOK'
  BY <1>0, TokenSends
<1>3. PICK b \in Save : SendsAccess(s, b)
  BY <1>0, TokenSends
<1>4. SUFFICES ASSUME Unhurried' PROVE CalmSaves'
  BY <1>2 DEF CalmInv, CalmSaves
<1>5. /\ PageMeant /\ ListsKept /\ SwitchesKept /\ server' = server
      /\ saves'[s] = b /\ ~Quiet' /\ \A x \in SaveSlots : Busy(x)' => x = s
  BY <1>3, <1>4, SendingCalm DEF SendsAccess
<1>6. /\ wanted'.sw = wanted.sw /\ wanted'.names = wanted.names /\ wanted'.records = wanted.records
      /\ wanted'.tokens = IF t \in screen.tokens THEN wanted.tokens \ {t} ELSE wanted.tokens \cup {t}
  BY <1>0, <1>1 DEF Whole
<1>7. dohTokens' = wanted'.tokens
  BY <1>1, <1>5, <1>6 DEF PageMeant
<1>8. PageMeant' /\ ListsKept' /\ SwitchesKept'
  BY <1>1, <1>5, <1>6, <1>7 DEF PageMeant, ListsKept, SwitchesKept
<1>9. b.st = "sent" /\ b.what = "access" /\ b.tokens = dohTokens'
  BY <1>3 DEF SendsAccess, Sending
<1>10. TokensMeant(saves[s])'
  BY <1>5, <1>7, <1>8, <1>9 DEF TokensMeant
<1>. QED
  BY <1>5, <1>8, <1>9, <1>10 DEF CalmSaves

LEMMA DeliverCalm == ASSUME CalmInv, NEW s \in SaveSlots, Deliver(s) PROVE CalmInv'
<1>1. /\ saves[s].st = "sent"
      /\ UNCHANGED <<rules, heap, records, dohTokens, screen, edits, wanted, overlap>>
      /\ saves[s] \in Save /\ server \in Whole
  BY DEF Deliver, CalmInv, RulesTypeOK
<1>2. /\ RulesTypeOK' /\ \A t \in SaveSlots : t # s => saves'[t] = saves[t]
      /\ saves'[s] = [saves[s] EXCEPT !.st = saves'[s].st] /\ saves'[s].st \in {"ok", "refused"}
      /\ saves'[s].st = "ok" => Store(s)
      /\ saves'[s].st = "refused" => refusals' > 0
  BY DeliverTypes DEF CalmInv
<1>3. SUFFICES ASSUME Unhurried' PROVE CalmSaves'
  BY <1>2 DEF CalmInv, CalmSaves
<1>4. saves'[s].st = "ok"
  BY <1>2, <1>3 DEF Unhurried
<1>5. refusals = 0
  BY <1>2, <1>3, <1>4 DEF Unhurried, Deliver, CalmInv, RulesTypeOK
<1>6. /\ PageMeant /\ \A t \in SaveSlots : Busy(t) => t = s
      /\ saves[s].what = "rules" => RulesMeant(saves[s])
      /\ saves[s].what = "access" => TokensMeant(saves[s])
  BY <1>1, <1>3, <1>5 DEF Unhurried, CalmInv, CalmSaves, Busy
<1>7. /\ saves'[s].what = saves[s].what /\ saves'[s].sw = saves[s].sw
      /\ saves'[s].ref = saves[s].ref /\ saves'[s].names = saves[s].names
      /\ saves'[s].records = saves[s].records /\ saves'[s].tokens = saves[s].tokens
  BY <1>1, <1>2 DEF Save
<1>8. PageMeant' /\ ~Quiet' /\ \A t \in SaveSlots : Busy(t)' => t = s
  BY <1>1, <1>2, <1>4, <1>6 DEF PageMeant, Quiet, Busy
<1>9. CASE saves[s].what = "rules"
  <2>1. /\ server'.sw = saves[s].sw /\ server'.names = saves[s].names
        /\ server'.records = saves[s].records /\ server'.tokens = server.tokens
    BY <1>1, <1>2, <1>4, <1>9 DEF Store, Whole
  <2>2. RulesMeant(saves[s])'
    BY <1>1, <1>6, <1>7, <1>9, <2>1 DEF RulesMeant, TokensKept, ListsKept
  <2>. QED
    BY <1>4, <1>7, <1>8, <1>9, <2>2 DEF CalmSaves
<1>10. CASE saves[s].what = "access"
  <2>1. /\ server'.sw = server.sw /\ server'.names = server.names
        /\ server'.records = server.records /\ server'.tokens = saves[s].tokens
    BY <1>1, <1>2, <1>4, <1>10 DEF Store, Whole
  <2>2. TokensMeant(saves[s])'
    BY <1>1, <1>6, <1>7, <1>10, <2>1 DEF TokensMeant, ListsKept, SwitchesKept
  <2>. QED
    BY <1>4, <1>7, <1>8, <1>10, <2>2 DEF CalmSaves
<1>. QED
  BY <1>1, <1>9, <1>10 DEF Save

LEMMA AnswerCalm ==
    ASSUME CalmInv, NEW s \in SaveSlots, RulesAnswered(s) \/ AccessAnswered(s) PROVE CalmInv'
<1>1. /\ RulesTypeOK' /\ saves'[s].st = "idle" /\ \A t \in SaveSlots : t # s => saves'[t] = saves[t]
  BY AnswerTypes, IdleSaveType DEF CalmInv
<1>2. /\ saves[s].st \in {"ok", "refused"}
      /\ UNCHANGED <<heap, records, dohTokens, server, edits, refusals, wanted, overlap>>
  BY DEF RulesAnswered, AccessAnswered
<1>3. SUFFICES ASSUME Unhurried' PROVE CalmSaves'
  BY <1>1 DEF CalmInv, CalmSaves
<1>4. /\ PageMeant /\ saves[s].st = "ok" /\ \A t \in SaveSlots : Busy(t) => t = s
      /\ saves[s].what = "rules" => RulesMeant(saves[s])
      /\ saves[s].what = "access" => TokensMeant(saves[s])
  BY <1>2, <1>3 DEF Unhurried, CalmInv, CalmSaves, Busy
<1>5. \A t \in SaveSlots : ~Busy(t)'
  BY <1>1, <1>4 DEF Busy
<1>6. CASE RulesAnswered(s)
  <2>1. saves[s].what = "rules" /\ rules' = [sw |-> saves[s].sw, ref |-> saves[s].ref] /\ screen' = screen
    BY <1>4, <1>6 DEF RulesAnswered
  <2>2. PageMeant' /\ ListsKept' /\ SwitchesKept' /\ TokensKept'
    BY <1>2, <1>4, <2>1 DEF RulesMeant, PageMeant, ListsKept, SwitchesKept, TokensKept
  <2>. QED
    BY <1>5, <2>2 DEF CalmSaves
<1>7. CASE AccessAnswered(s)
  <2>1. /\ saves[s].what = "access" /\ rules' = rules
        /\ screen' = [sw |-> rules.sw, names |-> heap[rules.ref], tokens |-> dohTokens]
    BY <1>2, <1>7 DEF AccessAnswered, RenderConfig
  <2>2. PageMeant' /\ ListsKept' /\ SwitchesKept' /\ TokensKept'
    BY <1>2, <1>4, <2>1 DEF TokensMeant, PageMeant, ListsKept, SwitchesKept, TokensKept
  <2>. QED
    BY <1>5, <2>2 DEF CalmSaves
<1>. QED
  BY <1>6, <1>7

\* An operator who waits for each save, none of them refused, gets what was asked for and
\* nothing else moves: screen, object and daemon agree with the operator's last word on
\* every preset that has a handler, every name, record and token (app.js:968-1026, 3126-3240).
THEOREM CalmEditsHolds == PagesSpec => []CalmEdits
<1>1. PagesInit => CalmInv
  BY CalmInit DEF PagesInit
<1>2. ASSUME CalmInv, RulesNext PROVE CalmInv'
  BY <1>2, ToggleCalm, ProfileCalm, ListCalm, TokenCalm, DeliverCalm, AnswerCalm DEF RulesNext
<1>3. CalmInv /\ [PagesNext]_pagesVars => CalmInv'
  BY <1>2, RuleMoves, CalmStill
<1>4. CalmInv => CalmEdits
  BY DEF CalmInv, CalmSaves, Unhurried, CalmEdits, PageMeant, ListsKept, SwitchesKept, TokensKept
<1>. QED
  BY <1>1, <1>3, <1>4, PTL DEF PagesSpec
-----------------------------------------------------------------------------
(* The settings page: types, and what a step does to the requests.         *)

ConfigPart == [key : Nat, bind : BOOLEAN, domain : BOOLEAN]
TeleForm == [val : 0 .. 2, loaded : BOOLEAN]
SettingTypes ==
    /\ settings \in Setting /\ config \in ConfigPart /\ box \in BOOLEAN /\ teleForm \in TeleForm
    /\ posts \in [SettingSlots -> SettingPost] /\ settingActs \in Nat /\ diagRuns \in Nat
    /\ typed \subseteq 0 .. 2

LEMMA FirstType == FirstSettings \in Setting
  BY DEF FirstSettings, Setting

\* A request with one field of an idle slot filled in.
LEMMA FilledPost ==
    ASSUME NEW x
    PROVE  /\ IdlePost \in SettingPost /\ IdlePost.st = "idle" /\ IdlePost.kind = "read"
           /\ x \in BOOLEAN => [IdlePost EXCEPT !.bind = x] \in SettingPost /\ [IdlePost EXCEPT !.bind = x].bind = x
           /\ x \in 0 .. 2 => [IdlePost EXCEPT !.tele = x] \in SettingPost /\ [IdlePost EXCEPT !.tele = x].tele = x
           /\ x \in Nat => [IdlePost EXCEPT !.run = x] \in SettingPost
           /\ x \in Surfaces => [IdlePost EXCEPT !.who = x] \in SettingPost
<1>. DEFINE a == FirstSettings
<1>1. IdlePost = [st |-> "idle", kind |-> "read", nth |-> 0, bind |-> FALSE, tele |-> 0, run |-> 0,
                  who |-> "panel", answer |-> a]
  BY DEF IdlePost
<1>2. a \in Setting
  BY FirstType
<1>. HIDE DEF a
<1>3. IdlePost \in SettingPost
  BY <1>1, <1>2 DEF SettingPost, PostKinds, Surfaces
<1>. QED
  BY <1>1, <1>3 DEF SettingPost

\* A request of these fields leaves on slot s.
Posting(s, k) ==
    /\ posts[s].st = "idle" /\ posts' = [posts EXCEPT ![s] = k] /\ k \in SettingPost
    /\ k.st = "sent" /\ k.nth = settingActs + 1

LEMMA PostingForm ==
    ASSUME SettingTypes, NEW s \in SettingSlots, NEW kind \in PostKinds, NEW w \in SettingPost,
           PostSetting(s, kind, w)
    PROVE  \E k \in SettingPost : Posting(s, k) /\ k.kind = kind /\ k.bind = w.bind /\ k.tele = w.tele
<1>. DEFINE n  == settingActs + 1
            k0 == [w EXCEPT !.st = "sent"]
            k1 == [k0 EXCEPT !.kind = kind]
            k2 == [k1 EXCEPT !.nth = n]
<1>1. posts[s].st = "idle" /\ posts' = [posts EXCEPT ![s] = k2] /\ n \in Nat
  BY DEF PostSetting, SettingTypes
<1>. HIDE DEF n
<1>2. k0 \in SettingPost /\ k0.st = "sent" /\ k0.bind = w.bind /\ k0.tele = w.tele
  BY DEF SettingPost
<1>. HIDE DEF k0
<1>3. k1 \in SettingPost /\ k1.st = "sent" /\ k1.kind = kind /\ k1.bind = w.bind /\ k1.tele = w.tele
  BY <1>2 DEF SettingPost
<1>. HIDE DEF k1
<1>4. /\ k2 \in SettingPost /\ k2.st = "sent" /\ k2.kind = kind /\ k2.nth = n /\ k2.bind = w.bind
      /\ k2.tele = w.tele
  BY <1>1, <1>3 DEF SettingPost
<1>. HIDE DEF k2
<1>5. Posting(s, k2)
  BY <1>1, <1>4 DEF Posting, n
<1>. QED
  BY <1>4, <1>5

\* What a step does to the slots, the daemon's settings and what the page shows of them:
\* nothing; a request leaves; the daemon has it; it is refused; it is answered.
Rest == /\ posts' = posts /\ UNCHANGED <<deadPath, config, box, amiss, blind>>
        /\ settings'.key = settings.key /\ settings'.bind = settings.bind /\ settings'.tele = settings.tele
        /\ teleForm' = teleForm \/ (teleForm'.val \in typed' /\ teleForm'.loaded = teleForm.loaded)
Leaves(s) == \E k \in SettingPost :
        /\ Posting(s, k) /\ UNCHANGED <<settings, deadPath, config, teleForm>>
        /\ IF k.kind = "bind" THEN k.bind = ~box /\ box' = ~box /\ amiss' = (amiss \/ Pending("bind"))
                              ELSE UNCHANGED <<box, amiss>>
        /\ IF k.kind = "telesave" THEN k.tele = teleForm.val /\ blind' = (blind \/ ~teleForm.loaded)
                                  ELSE UNCHANGED blind
SettingMove ==
    \/ Rest
    \/ \E s \in SettingSlots : \/ Leaves(s)
                               \/ ServeSetting(s) \/ RefuseSetting(s) \/ SettingAnswered(s)
ActsGrow == settingActs' \in {settingActs, settingActs + 1} /\ typed \subseteq typed'

LEMMA PostingTypes ==
    ASSUME SettingTypes, NEW s \in SettingSlots, NEW k, Posting(s, k)
    PROVE  /\ posts' \in [SettingSlots -> SettingPost] /\ posts'[s] = k
           /\ \A t \in SettingSlots : t # s => posts'[t] = posts[t]
  BY DEF Posting, SettingTypes

\* The requests behind a dialog and those of the plain controls.
LEMMA PlainLeaves ==
    ASSUME SettingTypes, NEW s \in SettingSlots,
           \/ RotateKey(s) \/ Confirmed(s) \/ RegenAdminPath(s)
           \/ \E p \in Surfaces : ReadSettings(s, p)
    PROVE  SettingTypes' /\ ActsGrow /\ Leaves(s)
<1>1. /\ UNCHANGED <<settings, deadPath, config, box, teleForm, amiss, typed, blind, diagRuns>>
      /\ settingActs' \in {settingActs, settingActs + 1}
  BY DEF RotateKey, Confirmed, GuardedPost, RegenAdminPath, ReadSettings, Pressed, SettingAct, pageState,
         telegramGhosts, diagVars
<1>2. \E kind \in PostKinds \ {"bind", "telesave"}, w \in SettingPost : PostSetting(s, kind, w)
  BY FilledPost DEF RotateKey, Confirmed, GuardedPost, RegenAdminPath, ReadSettings, PostKinds
<1>3. PICK k \in SettingPost : Posting(s, k) /\ k.kind \notin {"bind", "telesave"}
  BY <1>2, PostingForm
<1>4. Leaves(s)
  BY <1>1, <1>3 DEF Leaves
<1>5. SettingTypes'
  BY <1>1, <1>3, PostingTypes DEF SettingTypes
<1>. QED
  BY <1>1, <1>4, <1>5 DEF ActsGrow

LEMMA ToggleLeaves ==
    ASSUME SettingTypes, NEW s \in SettingSlots, TogglePublic(s)
    PROVE  SettingTypes' /\ ActsGrow /\ (Rest \/ Leaves(s))
<1>1. /\ UNCHANGED <<settings, deadPath, config, teleForm, typed, blind, diagRuns>>
      /\ settingActs' = settingActs + 1
  BY DEF TogglePublic, Pressed, SettingAct, telegramGhosts, diagVars
<1>2. CASE ~box /\ ~config.domain
  BY <1>1, <1>2 DEF TogglePublic, Rest, SettingTypes, ActsGrow
<1>3. CASE ~(~box /\ ~config.domain)
  <2>. DEFINE x == ~box
              w == [IdlePost EXCEPT !.bind = x]
  <2>1. box' = x /\ amiss' = (amiss \/ Pending("bind")) /\ PostSetting(s, "bind", w)
    BY <1>3 DEF TogglePublic
  <2>2. w \in SettingPost /\ w.bind = x /\ x \in BOOLEAN
    BY FilledPost
  <2>. HIDE DEF w
  <2>3. PICK k \in SettingPost : Posting(s, k) /\ k.kind = "bind" /\ k.bind = x
    BY <2>1, <2>2, PostingForm DEF PostKinds
  <2>4. Leaves(s)
    BY <1>1, <2>1, <2>3 DEF Leaves
  <2>5. SettingTypes'
    BY <1>1, <2>1, <2>2, <2>3, PostingTypes DEF SettingTypes
  <2>. QED
    BY <1>1, <2>4, <2>5 DEF ActsGrow
<1>. QED
  BY <1>2, <1>3

LEMMA TelegramLeaves ==
    ASSUME SettingTypes, NEW s \in SettingSlots, SaveTelegram(s)
    PROVE  SettingTypes' /\ ActsGrow /\ Leaves(s)
<1>. DEFINE w == [IdlePost EXCEPT !.tele = teleForm.val]
<1>1. /\ UNCHANGED <<settings, deadPath, config, box, teleForm, amiss, typed, diagRuns>>
      /\ settingActs' = settingActs + 1 /\ blind' = (blind \/ ~teleForm.loaded)
      /\ PostSetting(s, "telesave", w)
  BY DEF SaveTelegram, Pressed, SettingAct, pageState, diagVars
<1>2. w \in SettingPost /\ w.tele = teleForm.val
  BY FilledPost DEF SettingTypes, TeleForm
<1>. HIDE DEF w
<1>3. PICK k \in SettingPost : Posting(s, k) /\ k.kind = "telesave" /\ k.tele = teleForm.val
  BY <1>1, <1>2, PostingForm DEF PostKinds
<1>4. Leaves(s)
  BY <1>1, <1>3 DEF Leaves
<1>5. SettingTypes'
  BY <1>1, <1>3, PostingTypes DEF SettingTypes
<1>. QED
  BY <1>1, <1>4, <1>5 DEF ActsGrow

LEMMA DiagnoseLeaves ==
    ASSUME SettingTypes, NEW s \in SettingSlots, Diagnose(s)
    PROVE  SettingTypes' /\ ActsGrow /\ (Rest \/ Leaves(s))
<1>1. /\ UNCHANGED <<settings, deadPath, config, box, teleForm, amiss, typed, blind>>
      /\ settingActs' = settingActs + 1 /\ RunFullDiagnostics(s)
  BY DEF Diagnose, SettingAct, pageState, telegramGhosts
<1>2. CASE diagRunning
  BY <1>1, <1>2 DEF RunFullDiagnostics, diagVars, Rest, SettingTypes, ActsGrow
<1>3. CASE ~diagRunning
  <2>. DEFINE r == diagRuns + 1
              w == [IdlePost EXCEPT !.run = r]
  <2>1. diagRuns' = r /\ PostSetting(s, "diag", w) /\ r \in Nat
    BY <1>1, <1>3 DEF RunFullDiagnostics, SettingTypes
  <2>. HIDE DEF r
  <2>2. w \in SettingPost
    BY <2>1, FilledPost
  <2>. HIDE DEF w
  <2>3. PICK k \in SettingPost : Posting(s, k) /\ k.kind = "diag"
    BY <2>1, <2>2, PostingForm DEF PostKinds
  <2>4. Leaves(s)
    BY <1>1, <2>3 DEF Leaves
  <2>5. SettingTypes'
    BY <1>1, <2>1, <2>3, PostingTypes DEF SettingTypes
  <2>. QED
    BY <1>1, <2>4, <2>5 DEF ActsGrow
<1>. QED
  BY <1>2, <1>3
\* The daemon's answer: what it holds from then on, and what the slot carries back.
LEMMA ServeForm ==
    ASSUME SettingTypes, NEW s \in SettingSlots, ServeSetting(s)
    PROVE  /\ SettingTypes' /\ ActsGrow /\ UNCHANGED <<config, box, teleForm, settingActs, typed, blind>>
           /\ posts[s].st = "sent" /\ \A t \in SettingSlots : t # s => posts'[t] = posts[t]
           /\ posts'[s].kind = posts[s].kind /\ posts'[s].nth = posts[s].nth
           /\ posts'[s].bind = posts[s].bind /\ posts'[s].tele = posts[s].tele
           /\ posts'[s].st \in {"ok", "lost"} /\ (posts'[s].st = "ok" => posts'[s].answer = settings')
           /\ amiss' = (amiss \/ posts'[s].st = "lost" \/ Before(s, {"sent"}))
           /\ posts[s].kind # "rotate" => settings'.key = settings.key
           /\ settings'.bind = IF posts[s].kind = "bind" THEN posts[s].bind ELSE settings.bind
           /\ settings'.tele = IF posts[s].kind = "telesave" THEN posts[s].tele ELSE settings.tele
           /\ ~deadPath /\ deadPath' = (posts[s].kind = "path")
<1>. DEFINE k == posts[s]
<1>0. k \in SettingPost /\ settings \in Setting /\ posts \in [SettingSlots -> SettingPost]
  BY DEF SettingTypes
<1>1. /\ k.st = "sent" /\ ~deadPath /\ deadPath' = (k.kind = "path")
      /\ UNCHANGED <<config, box, teleForm, settingActs, typed, blind, diagRuns>>
      /\ amiss' = (amiss \/ posts'[s].st = "lost" \/ Before(s, {"sent"}))
  BY DEF ServeSetting, telegramGhosts, diagVars
<1>2. settings' = CASE k.kind = "rotate" -> [settings EXCEPT !.key = @ + 1]
                    [] k.kind = "bind" -> [settings EXCEPT !.bind = k.bind]
                    [] k.kind = "telesave" -> [settings EXCEPT !.tele = k.tele]
                    [] OTHER -> settings
  BY DEF ServeSetting
<1>3. k.bind \in BOOLEAN /\ k.tele \in 0 .. 2
  BY <1>0 DEF SettingPost
<1>4. /\ settings' \in Setting /\ (k.kind # "rotate" => settings'.key = settings.key)
      /\ settings'.bind = IF k.kind = "bind" THEN k.bind ELSE settings.bind
      /\ settings'.tele = IF k.kind = "telesave" THEN k.tele ELSE settings.tele
  <2>1. CASE k.kind = "rotate"
    BY <1>0, <1>2, <2>1 DEF Setting
  <2>2. CASE k.kind = "bind"
    BY <1>0, <1>2, <1>3, <2>2 DEF Setting
  <2>3. CASE k.kind = "telesave"
    BY <1>0, <1>2, <1>3, <2>3 DEF Setting
  <2>4. CASE k.kind \notin {"rotate", "bind", "telesave"}
    <3>1. settings' = settings
      BY <1>2, <2>4
    <3>. QED
      BY <1>0, <2>4, <3>1
  <2>. QED
    BY <2>1, <2>2, <2>3, <2>4
<1>5. \/ posts' = [posts EXCEPT ![s].st = "ok", ![s].answer = settings']
      \/ posts' = [posts EXCEPT ![s].st = "lost"]
  BY DEF ServeSetting
<1>6. /\ posts' \in [SettingSlots -> SettingPost] /\ \A t \in SettingSlots : t # s => posts'[t] = posts[t]
      /\ posts'[s].kind = k.kind /\ posts'[s].nth = k.nth /\ posts'[s].bind = k.bind /\ posts'[s].tele = k.tele
      /\ posts'[s].st \in {"ok", "lost"} /\ (posts'[s].st = "ok" => posts'[s].answer = settings')
  <2>. DEFINE k1 == [k EXCEPT !.st = "ok"]
              k2 == [k1 EXCEPT !.answer = settings']
              k3 == [k EXCEPT !.st = "lost"]
  <2>1. /\ k1 \in SettingPost /\ k1.st = "ok" /\ k1.kind = k.kind /\ k1.nth = k.nth /\ k1.bind = k.bind
        /\ k1.tele = k.tele
    BY <1>0 DEF SettingPost
  <2>2. /\ k3 \in SettingPost /\ k3.st = "lost" /\ k3.kind = k.kind /\ k3.nth = k.nth /\ k3.bind = k.bind
        /\ k3.tele = k.tele
    BY <1>0 DEF SettingPost
  <2>3. posts' = [posts EXCEPT ![s] = k2] \/ posts' = [posts EXCEPT ![s] = k3]
    BY <1>0, <1>5
  <2>. HIDE DEF k1, k3
  <2>4. /\ k2 \in SettingPost /\ k2.st = "ok" /\ k2.kind = k.kind /\ k2.nth = k.nth /\ k2.bind = k.bind
        /\ k2.tele = k.tele /\ k2.answer = settings'
    BY <1>4, <2>1 DEF SettingPost
  <2>. HIDE DEF k2
  <2>5. CASE posts' = [posts EXCEPT ![s] = k2]
    BY <1>0, <2>4, <2>5
  <2>6. CASE posts' = [posts EXCEPT ![s] = k3]
    BY <1>0, <2>2, <2>6
  <2>. QED
    BY <2>3, <2>5, <2>6
<1>7. SettingTypes'
  BY <1>1, <1>4, <1>6 DEF SettingTypes
<1>. QED
  BY <1>1, <1>4, <1>6, <1>7 DEF ActsGrow

LEMMA RefuseForm ==
    ASSUME SettingTypes, NEW s \in SettingSlots, RefuseSetting(s)
    PROVE  /\ SettingTypes' /\ ActsGrow
           /\ UNCHANGED <<settings, deadPath, config, box, teleForm, settingActs, typed, blind>>
           /\ posts[s].st = "sent" /\ posts'[s].st = "refused" /\ \A t \in SettingSlots : t # s => posts'[t] = posts[t]
           /\ posts'[s].kind = posts[s].kind /\ posts'[s].nth = posts[s].nth
           /\ posts'[s].bind = posts[s].bind /\ posts'[s].tele = posts[s].tele
           /\ amiss' = (amiss \/ posts[s].kind = "read")
<1>. DEFINE k == posts[s]
            k1 == [k EXCEPT !.st = "refused"]
<1>1. /\ k.st = "sent" /\ posts' = [posts EXCEPT ![s] = k1] /\ amiss' = (amiss \/ k.kind = "read")
      /\ UNCHANGED <<settings, deadPath, config, box, teleForm, settingActs, typed, blind, diagRuns>>
  BY DEF RefuseSetting, pageState, telegramGhosts, diagVars
<1>2. k \in SettingPost /\ posts \in [SettingSlots -> SettingPost]
  BY DEF SettingTypes
<1>3. /\ k1 \in SettingPost /\ k1.st = "refused" /\ k1.kind = k.kind /\ k1.nth = k.nth /\ k1.bind = k.bind
      /\ k1.tele = k.tele
  BY <1>2 DEF SettingPost
<1>. HIDE DEF k1
<1>4. /\ posts' \in [SettingSlots -> SettingPost] /\ posts'[s] = k1
      /\ \A t \in SettingSlots : t # s => posts'[t] = posts[t]
  BY <1>1, <1>2, <1>3
<1>5. SettingTypes'
  BY <1>1, <1>4 DEF SettingTypes
<1>. QED
  BY <1>1, <1>3, <1>4, <1>5 DEF ActsGrow

LEMMA AnswerForm ==
    ASSUME SettingTypes, NEW s \in SettingSlots, SettingAnswered(s)
    PROVE  /\ SettingTypes' /\ ActsGrow /\ UNCHANGED <<settings, deadPath, settingActs, typed, blind>>
           /\ posts[s].st \in {"ok", "refused", "lost"} /\ posts'[s].st = "idle"
           /\ \A t \in SettingSlots : t # s => posts'[t] = posts[t]
           /\ ConfigAnswered(posts[s]) /\ TelegramAnswered(posts[s])
           /\ amiss' = (amiss \/ Before(s, {"sent", "ok", "refused", "lost"}))
<1>. DEFINE k == posts[s]
<1>1. /\ UNCHANGED <<settings, deadPath, settingActs, typed, blind, diagRuns>>
      /\ k.st \in {"ok", "refused", "lost"} /\ posts' = [posts EXCEPT ![s] = IdlePost]
      /\ ConfigAnswered(k) /\ TelegramAnswered(k)
      /\ amiss' = (amiss \/ Before(s, {"sent", "ok", "refused", "lost"}))
  BY DEF SettingAnswered, telegramGhosts
<1>2. k \in SettingPost /\ posts \in [SettingSlots -> SettingPost]
  BY DEF SettingTypes
<1>3. /\ posts' \in [SettingSlots -> SettingPost] /\ posts'[s].st = "idle"
      /\ \A t \in SettingSlots : t # s => posts'[t] = posts[t]
  BY <1>1, <1>2, FilledPost
<1>4. k.answer \in Setting /\ k.bind \in BOOLEAN
  BY <1>2 DEF SettingPost
<1>5. config' \in ConfigPart /\ box' \in BOOLEAN
  <2>1. CASE k.kind = "rotate" /\ k.st = "ok"
    BY <1>1, <1>4, <2>1 DEF ConfigAnswered, SettingTypes, ConfigPart, Setting
  <2>2. CASE k.kind = "bind" /\ k.st = "ok"
    BY <1>1, <1>4, <2>2 DEF ConfigAnswered, SettingTypes, ConfigPart, Setting
  <2>3. CASE k.kind = "bind" /\ k.st # "ok"
    BY <1>1, <1>4, <2>3 DEF ConfigAnswered, SettingTypes
  <2>4. CASE k.kind = "read" /\ k.st = "ok"
    BY <1>1, <1>4, <2>4 DEF ConfigAnswered, SettingTypes, ConfigPart, Setting
  <2>5. CASE ~(k.kind = "rotate" /\ k.st = "ok") /\ k.kind # "bind" /\ ~(k.kind = "read" /\ k.st = "ok")
    <3>1. UNCHANGED <<config, box>>
      BY <1>1, <2>5 DEF ConfigAnswered
    <3>. QED
      BY <3>1 DEF SettingTypes
  <2>. QED
    BY <2>1, <2>2, <2>3, <2>4, <2>5
<1>6. teleForm' \in TeleForm
  BY <1>1, <1>4 DEF TelegramAnswered, SettingTypes, TeleForm, Setting
<1>7. SettingTypes'
  BY <1>1, <1>3, <1>5, <1>6 DEF SettingTypes
<1>. QED
  BY <1>1, <1>3, <1>7 DEF ActsGrow

\* The rest of the page: dialogs, the Telegram form and the certificate buttons.
LEMMA SettingRest ==
    ASSUME SettingTypes,
           \/ \E kind \in {"rotate", "restart", "upstream"} : Guarded(kind)
           \/ RotatePassword \/ RotateCode \/ Declined \/ SettingKeys \/ AcmeStep
           \/ \E v \in 0 .. 2 : TypeTelegram(v)
           \/ \E p \in Surfaces : PressIssue(p) \/ IssueServed(p) \/ IssueFailed(p) \/ PollIssue(p)
           \/ UNCHANGED settingsOnly
    PROVE  SettingTypes' /\ ActsGrow /\ Rest
<1>1. ASSUME NEW v \in 0 .. 2, TypeTelegram(v) PROVE SettingTypes' /\ ActsGrow /\ Rest
  <2>1. /\ teleForm' = [teleForm EXCEPT !.val = v] /\ typed' = typed \cup {v} /\ settingActs' = settingActs + 1
        /\ UNCHANGED <<settings, deadPath, config, box, posts, diagRuns, blind, amiss>>
    BY <1>1 DEF TypeTelegram, Pressed, SettingAct, diagVars
  <2>. QED
    BY <2>1 DEF SettingTypes, TeleForm, Rest, ActsGrow
<1>2. ASSUME NEW p \in Surfaces, IssueServed(p) PROVE SettingTypes' /\ ActsGrow /\ Rest
  <2>1. /\ settings' = IF p = "panel" THEN [settings EXCEPT !.domain = TRUE] ELSE settings
        /\ UNCHANGED <<deadPath, config, box, teleForm, posts, settingActs, diagRuns, typed, blind, amiss>>
    BY <1>2 DEF IssueServed, diagVars, telegramGhosts
  <2>. QED
    BY <2>1 DEF SettingTypes, Setting, Rest, ActsGrow
<1>3. ASSUME \/ \E kind \in {"rotate", "restart", "upstream"} : Guarded(kind)
             \/ RotatePassword \/ RotateCode \/ Declined \/ SettingKeys \/ AcmeStep
             \/ \E p \in Surfaces : PressIssue(p) \/ IssueFailed(p) \/ PollIssue(p)
             \/ UNCHANGED settingsOnly
      PROVE  SettingTypes' /\ ActsGrow /\ Rest
  <2>1. UNCHANGED <<pageState, posts, diagRuns, telegramGhosts, amiss>>
        /\ settingActs' \in {settingActs, settingActs + 1}
    BY <1>3 DEF Guarded, RotatePassword, RotateCode, Declined, SettingKeys, AskOn, AcmeStep, PressIssue,
                IssueFailed, PollIssue, Pressed, SettingAct, settingsOnly, diagVars
  <2>. QED
    BY <2>1 DEF SettingTypes, Rest, ActsGrow, pageState, telegramGhosts
<1>. QED
  BY <1>1, <1>2, <1>3

LEMMA SettingShapes ==
    ASSUME SettingTypes, [PagesNext]_pagesVars PROVE SettingTypes' /\ ActsGrow /\ SettingMove
<1>1. SettingsNext \/ UNCHANGED settingsOnly
  BY SettingMoves
<1>2. ASSUME NEW s \in SettingSlots,
             \/ RotateKey(s) \/ Confirmed(s) \/ RegenAdminPath(s) \/ \E p \in Surfaces : ReadSettings(s, p)
             \/ TogglePublic(s) \/ SaveTelegram(s) \/ Diagnose(s)
      PROVE  SettingTypes' /\ ActsGrow /\ SettingMove
  BY <1>2, PlainLeaves, ToggleLeaves, TelegramLeaves, DiagnoseLeaves DEF SettingMove
<1>3. ASSUME NEW s \in SettingSlots, ServeSetting(s) \/ RefuseSetting(s) \/ SettingAnswered(s)
      PROVE  SettingTypes' /\ ActsGrow /\ SettingMove
  BY <1>3, ServeForm, RefuseForm, AnswerForm DEF SettingMove
<1>. QED
  BY <1>1, <1>2, <1>3, SettingRest DEF SettingsNext, SettingMove
-----------------------------------------------------------------------------
(* The settings page: the key and the bind.                                *)

Fine == ~amiss /\ ~deadPath
Live(s) == posts[s].st # "idle"

\* Requests carry the number of the act they follow: what the daemon has done is not
\* younger than what it has not.
NumberedPosts == \A s \in SettingSlots : Live(s) => posts[s].nth <= settingActs + 1
PostsInOrder == \A x, s \in SettingSlots :
                    posts[x].st = "ok" /\ posts[s].st = "sent" => posts[x].nth <= posts[s].nth
NoneLost == \A s \in SettingSlots : posts[s].st # "lost"

\* Answers that bring the page a key: the youngest of them has the daemon's.
KeyNews(s) == posts[s].st = "ok" /\ posts[s].kind \in {"rotate", "read"}
Youngest(s) == KeyNews(s) /\ posts[s].answer.key = settings.key
                  /\ \A t \in SettingSlots : KeyNews(t) => posts[t].nth <= posts[s].nth
KeyOK == /\ (\A s \in SettingSlots : ~KeyNews(s)) => config.key = settings.key
         /\ \A s \in SettingSlots : KeyNews(s) => \E y \in SettingSlots : Youngest(y)

\* One switch of the bind at a time.  Before the daemon has it, page and daemon still
\* agree on the old bind, and so does every read on its way; afterwards only reads that
\* are younger than the switch can overwrite what its answer says.
Binding(s) == Live(s) /\ posts[s].kind = "bind"
Read(s) == posts[s].st = "ok" /\ posts[s].kind = "read"
Bound(b) ==
    IF posts[b].st = "ok"
    THEN /\ settings.bind = posts[b].bind /\ posts[b].answer.bind = settings.bind
         /\ \A r \in SettingSlots : Read(r) /\ posts[r].nth > posts[b].nth => posts[r].answer.bind = settings.bind
    ELSE /\ config.bind = settings.bind /\ settings.bind # posts[b].bind
         /\ \A r \in SettingSlots : Read(r) => posts[r].answer.bind = settings.bind
Unbound == /\ box = config.bind /\ config.bind = settings.bind
           /\ \A r \in SettingSlots : Read(r) => posts[r].answer.bind = settings.bind
BindOK == /\ \A a, b \in SettingSlots : Binding(a) /\ Binding(b) => a = b
          /\ \A b \in SettingSlots : Binding(b) => Bound(b)
          /\ (\A b \in SettingSlots : ~Binding(b)) => Unbound

FineInv == NumberedPosts /\ (Fine => PostsInOrder /\ NoneLost /\ KeyOK /\ BindOK)

LEMMA PostFields ==
    ASSUME SettingTypes, NEW s \in SettingSlots
    PROVE  /\ posts[s].nth \in Nat /\ posts[s].bind \in BOOLEAN /\ posts[s].answer.bind \in BOOLEAN
           /\ posts[s].st \in {"idle", "sent", "ok", "refused", "lost"} /\ settingActs \in Nat
           /\ settings.bind \in BOOLEAN /\ config.bind \in BOOLEAN /\ box \in BOOLEAN
<1>1. posts[s] \in SettingPost /\ settings \in Setting /\ config \in ConfigPart
  BY DEF SettingTypes
<1>2. posts[s].answer \in Setting
  BY <1>1 DEF SettingPost
<1>. QED
  BY <1>1, <1>2 DEF SettingTypes, SettingPost, Setting, ConfigPart

LEMMA RestFine == ASSUME SettingTypes, FineInv, Rest, ActsGrow PROVE FineInv'
<1>1. /\ posts' = posts /\ UNCHANGED <<deadPath, config, box, amiss>> /\ settings'.key = settings.key
      /\ settings'.bind = settings.bind /\ settingActs' \in {settingActs, settingActs + 1}
  BY DEF Rest, ActsGrow
<1>2. NumberedPosts'
  BY <1>1, PostFields DEF FineInv, NumberedPosts, Live
<1>3. (KeyOK => KeyOK') /\ (BindOK => BindOK')
  BY <1>1 DEF KeyOK, KeyNews, Youngest, BindOK, Binding, Live, Bound, Unbound, Read
<1>. QED
  BY <1>1, <1>2, <1>3 DEF FineInv, Fine, PostsInOrder, NoneLost

LEMMA LeavesFine ==
    ASSUME SettingTypes, SettingTypes', FineInv, NEW s \in SettingSlots, Leaves(s), ActsGrow PROVE FineInv'
<1>1. PICK k \in SettingPost :
        /\ Posting(s, k) /\ UNCHANGED <<settings, deadPath, config, teleForm>>
        /\ IF k.kind = "bind" THEN k.bind = ~box /\ box' = ~box /\ amiss' = (amiss \/ Pending("bind"))
                              ELSE UNCHANGED <<box, amiss>>
  BY DEF Leaves
<1>2. /\ posts[s].st = "idle" /\ k.st = "sent" /\ k.nth = settingActs + 1
      /\ posts'[s] = k /\ \A t \in SettingSlots : t # s => posts'[t] = posts[t]
  BY <1>1, PostingTypes DEF Posting
<1>3. settingActs' \in {settingActs, settingActs + 1} /\ settingActs \in Nat
  BY DEF ActsGrow, SettingTypes
<1>4. \A t \in SettingSlots : posts[t].nth \in Nat
  BY PostFields
<1>5. NumberedPosts'
  BY <1>2, <1>3, <1>4 DEF FineInv, NumberedPosts, Live
<1>6. SUFFICES ASSUME Fine' PROVE PostsInOrder' /\ NoneLost' /\ KeyOK' /\ BindOK'
  BY <1>5 DEF FineInv
<1>7. Fine /\ (k.kind = "bind" => ~Pending("bind"))
  <2>1. CASE k.kind = "bind"
    BY <1>1, <1>6, <2>1, Zenon DEF Fine
  <2>2. CASE k.kind # "bind"
    BY <1>1, <1>6, <2>2 DEF Fine
  <2>. QED
    BY <2>1, <2>2
<1>8. PostsInOrder' /\ NoneLost'
  BY <1>2, <1>3, <1>4, <1>7 DEF FineInv, PostsInOrder, NoneLost, NumberedPosts, Live
<1>9. \A t \in SettingSlots : (KeyNews(t)' <=> KeyNews(t)) /\ (Read(t)' <=> Read(t)) /\ (KeyNews(t) \/ Read(t) => t # s)
  BY <1>2 DEF KeyNews, Read
<1>10. KeyOK'
  BY <1>1, <1>2, <1>7, <1>9 DEF FineInv, KeyOK, Youngest
<1>11. CASE k.kind = "bind"
  <2>1. \A t \in SettingSlots : ~Binding(t)
    BY <1>7, <1>11 DEF Pending, Binding, Live
  <2>2. Unbound
    BY <1>7, <2>1 DEF FineInv, BindOK
  <2>3. \A t \in SettingSlots : Binding(t)' <=> t = s
    BY <1>2, <1>11, <2>1 DEF Binding, Live
  <2>4. k.bind = ~box /\ box = settings.bind /\ settings.bind \in BOOLEAN
    BY <1>1, <1>11, <2>2, PostFields DEF Unbound
  <2>5. settings'.bind # k.bind
    BY <1>1, <2>4
  <2>6. Bound(s)'
    BY <1>1, <1>2, <1>9, <2>2, <2>5 DEF Bound, Unbound
  <2>7. BindOK'
    BY <2>3, <2>6 DEF BindOK
  <2>. QED
    BY <1>8, <1>10, <2>7
<1>12. CASE k.kind # "bind"
  <2>1. \A t \in SettingSlots : (Binding(t)' <=> Binding(t)) /\ (Binding(t) => t # s)
    BY <1>2, <1>12 DEF Binding, Live
  <2>2. box' = box
    BY <1>1, <1>12
  <2>3. ASSUME NEW b \in SettingSlots, Binding(b)' PROVE Bound(b)'
    <3>1. Bound(b) /\ b # s
      BY <1>7, <2>1, <2>3 DEF FineInv, BindOK
    <3>. QED
      BY <1>1, <1>2, <1>9, <3>1 DEF Bound
  <2>4. Unbound => Unbound'
    BY <1>1, <1>2, <1>9, <2>2 DEF Unbound
  <2>5. BindOK'
    BY <1>7, <2>1, <2>3, <2>4 DEF FineInv, BindOK
  <2>. QED
    BY <1>8, <1>10, <2>5
<1>. QED
  BY <1>11, <1>12

LEMMA ServeFine == ASSUME SettingTypes, FineInv, NEW s \in SettingSlots, ServeSetting(s) PROVE FineInv'
<1>1. /\ SettingTypes' /\ UNCHANGED <<config, box, settingActs>>
      /\ posts[s].st = "sent" /\ \A t \in SettingSlots : t # s => posts'[t] = posts[t]
      /\ posts'[s].kind = posts[s].kind /\ posts'[s].nth = posts[s].nth /\ posts'[s].bind = posts[s].bind
      /\ posts'[s].st \in {"ok", "lost"} /\ (posts'[s].st = "ok" => posts'[s].answer = settings')
      /\ amiss' = (amiss \/ posts'[s].st = "lost" \/ Before(s, {"sent"}))
      /\ posts[s].kind # "rotate" => settings'.key = settings.key
      /\ settings'.bind = IF posts[s].kind = "bind" THEN posts[s].bind ELSE settings.bind
      /\ ~deadPath
  BY ServeForm
<1>2. \A t \in SettingSlots : posts[t].nth \in Nat
  BY PostFields
<1>3. \A t \in SettingSlots : /\ Live(t)' <=> Live(t)
                              /\ posts'[t].nth = posts[t].nth /\ posts'[t].kind = posts[t].kind
                              /\ posts'[t].bind = posts[t].bind
  BY <1>1 DEF Live
<1>4. NumberedPosts'
  BY <1>1, <1>3 DEF FineInv, NumberedPosts
<1>5. SUFFICES ASSUME Fine' PROVE PostsInOrder' /\ NoneLost' /\ KeyOK' /\ BindOK'
  BY <1>4 DEF FineInv
<1>6. ~amiss /\ posts'[s].st # "lost" /\ ~Before(s, {"sent"})
  BY <1>1, <1>5, Zenon DEF Fine
<1>7. Fine /\ posts'[s].st = "ok" /\ posts'[s].answer = settings'
  BY <1>1, <1>6 DEF Fine
<1>8. \A t \in SettingSlots : t # s /\ posts[t].st = "sent" => posts[s].nth < posts[t].nth
  BY <1>2, <1>6 DEF Before
<1>9. \A x \in SettingSlots : posts[x].st = "ok" => posts[x].nth <= posts[s].nth
  BY <1>1, <1>7 DEF FineInv, PostsInOrder
<1>10. PostsInOrder' /\ NoneLost'
  BY <1>1, <1>2, <1>3, <1>7, <1>8 DEF FineInv, PostsInOrder, NoneLost
<1>11. KeyOK'
  <2>1. CASE posts[s].kind \in {"rotate", "read"}
    <3>1. KeyNews(s)' /\ posts'[s].answer.key = settings'.key
      BY <1>3, <1>7, <2>1 DEF KeyNews
    <3>2. \A t \in SettingSlots : KeyNews(t)' => posts'[t].nth <= posts'[s].nth
      BY <1>1, <1>2, <1>3, <1>9 DEF KeyNews
    <3>3. Youngest(s)'
      BY <3>1, <3>2 DEF Youngest
    <3>. QED
      BY <3>1, <3>3 DEF KeyOK
  <2>2. CASE posts[s].kind \notin {"rotate", "read"}
    <3>1. \A t \in SettingSlots : (KeyNews(t)' <=> KeyNews(t)) /\ (KeyNews(t) => t # s)
      BY <1>1, <1>3, <2>2 DEF KeyNews
    <3>2. settings'.key = settings.key
      BY <1>1, <2>2
    <3>3. \A t \in SettingSlots : Youngest(t) => Youngest(t)'
      BY <1>1, <1>3, <3>1, <3>2 DEF Youngest
    <3>. QED
      BY <1>1, <1>7, <3>1, <3>2, <3>3 DEF FineInv, KeyOK
  <2>. QED
    BY <2>1, <2>2
<1>12. \A t \in SettingSlots : Binding(t)' <=> Binding(t)
  BY <1>3 DEF Binding
<1>13. CASE posts[s].kind = "bind"
  <2>1. Binding(s)
    BY <1>1, <1>13 DEF Binding, Live
  <2>2. settings'.bind = posts'[s].bind /\ posts'[s].answer.bind = settings'.bind
    BY <1>1, <1>7, <1>13
  <2>3. \A r \in SettingSlots : Read(r)' => posts'[r].nth <= posts'[s].nth
    BY <1>1, <1>2, <1>3, <1>9, <1>13 DEF Read
  <2>4. \A r \in SettingSlots : posts'[r].nth \in Nat
    BY <1>2, <1>3
  <2>5. Bound(s)'
    BY <1>7, <2>2, <2>3, <2>4 DEF Bound
  <2>6. BindOK'
    BY <1>7, <1>12, <2>1, <2>5 DEF FineInv, BindOK
  <2>. QED
    BY <1>10, <1>11, <2>6
<1>14. CASE posts[s].kind # "bind"
  <2>1. settings'.bind = settings.bind
    BY <1>1, <1>14
  <2>2. \A r \in SettingSlots : Read(r)' => Read(r) \/ (r = s /\ posts'[r].answer.bind = settings'.bind)
    BY <1>1, <1>7 DEF Read
  <2>3. ASSUME NEW b \in SettingSlots, Binding(b)' PROVE Bound(b)'
    <3>1. Bound(b) /\ b # s
      BY <1>7, <1>12, <1>14, <2>3 DEF FineInv, BindOK, Binding
    <3>2. \A r \in SettingSlots : r # s /\ Read(r)' => Read(r) /\ posts'[r] = posts[r]
      BY <1>1, <2>2
    <3>3. posts'[b] = posts[b] /\ config' = config /\ settings'.bind = settings.bind
      BY <1>1, <2>1, <3>1
    <3>4. ASSUME NEW r \in SettingSlots, Read(r)',
                 Read(r) /\ posts'[r] = posts[r] => posts'[r].answer.bind = settings.bind
          PROVE  posts'[r].answer.bind = settings'.bind
      <4>1. ~Read(s)
        BY <1>1 DEF Read
      <4>. QED
        BY <2>2, <3>2, <3>3, <3>4, <4>1
    <3>5. CASE posts[b].st = "ok"
      BY <3>1, <3>2, <3>3, <3>4, <3>5 DEF Bound
    <3>6. CASE posts[b].st # "ok"
      BY <3>1, <3>2, <3>3, <3>4, <3>6 DEF Bound
    <3>. QED
      BY <3>5, <3>6
  <2>4. Unbound => Unbound'
    BY <1>1, <2>1, <2>2 DEF Unbound, Read
  <2>5. BindOK'
    BY <1>7, <1>12, <2>3, <2>4 DEF FineInv, BindOK
  <2>. QED
    BY <1>10, <1>11, <2>5
<1>. QED
  BY <1>13, <1>14

LEMMA RefuseFine == ASSUME SettingTypes, FineInv, NEW s \in SettingSlots, RefuseSetting(s) PROVE FineInv'
<1>1. /\ UNCHANGED <<settings, deadPath, config, box, settingActs>>
      /\ posts[s].st = "sent" /\ posts'[s].st = "refused" /\ \A t \in SettingSlots : t # s => posts'[t] = posts[t]
      /\ posts'[s].kind = posts[s].kind /\ posts'[s].nth = posts[s].nth /\ posts'[s].bind = posts[s].bind
      /\ amiss' = (amiss \/ posts[s].kind = "read")
  BY RefuseForm
<1>2. \A t \in SettingSlots : /\ (Live(t)' <=> Live(t)) /\ (KeyNews(t)' <=> KeyNews(t)) /\ (Read(t)' <=> Read(t))
                              /\ posts'[t].nth = posts[t].nth /\ posts'[t].kind = posts[t].kind
                              /\ posts'[t].bind = posts[t].bind /\ (KeyNews(t) \/ Read(t) => t # s)
                              /\ posts'[t].st = "ok" <=> posts[t].st = "ok"
                              /\ posts'[t].st = "sent" => posts[t].st = "sent"
                              /\ posts'[t].st = "lost" => posts[t].st = "lost"
                              /\ posts[t].st = "ok" => posts'[t] = posts[t]
  BY <1>1 DEF Live, KeyNews, Read
<1>3. NumberedPosts'
  BY <1>1, <1>2 DEF FineInv, NumberedPosts
<1>4. SUFFICES ASSUME Fine' PROVE PostsInOrder' /\ NoneLost' /\ KeyOK' /\ BindOK'
  BY <1>3 DEF FineInv
<1>5. Fine
  BY <1>1, <1>4, Zenon DEF Fine
<1>6. PostsInOrder' /\ NoneLost'
  BY <1>2, <1>5 DEF FineInv, PostsInOrder, NoneLost
<1>7. KeyOK'
  BY <1>1, <1>2, <1>5 DEF FineInv, KeyOK, Youngest
<1>8. \A t \in SettingSlots : (Binding(t)' <=> Binding(t)) /\ (Binding(t) /\ Bound(t) => Bound(t)')
  BY <1>1, <1>2 DEF Binding, Bound
<1>9. Unbound => Unbound'
  BY <1>1, <1>2 DEF Unbound
<1>. QED
  BY <1>5, <1>6, <1>7, <1>8, <1>9 DEF FineInv, BindOK

LEMMA AnswerFine == ASSUME SettingTypes, FineInv, NEW s \in SettingSlots, SettingAnswered(s) PROVE FineInv'
<1>1. /\ SettingTypes' /\ UNCHANGED <<settings, deadPath, settingActs>>
      /\ posts[s].st \in {"ok", "refused", "lost"} /\ posts'[s].st = "idle"
      /\ \A t \in SettingSlots : t # s => posts'[t] = posts[t]
      /\ ConfigAnswered(posts[s])
      /\ amiss' = (amiss \/ Before(s, {"sent", "ok", "refused", "lost"}))
  BY AnswerForm
<1>2. \A t \in SettingSlots : /\ posts[t].nth \in Nat /\ posts[t].st \in {"idle", "sent", "ok", "refused", "lost"}
                              /\ posts[t].bind \in BOOLEAN /\ settings.bind \in BOOLEAN /\ config.bind \in BOOLEAN
  BY PostFields
<1>3. \A t \in SettingSlots : /\ Live(t)' <=> t # s /\ Live(t)
                              /\ KeyNews(t)' <=> t # s /\ KeyNews(t)
                              /\ Read(t)' <=> t # s /\ Read(t)
                              /\ Binding(t)' <=> t # s /\ Binding(t)
  BY <1>1 DEF Live, KeyNews, Read, Binding
<1>4. NumberedPosts'
  BY <1>1, <1>3 DEF FineInv, NumberedPosts
<1>5. SUFFICES ASSUME Fine' PROVE PostsInOrder' /\ NoneLost' /\ KeyOK' /\ BindOK'
  BY <1>4 DEF FineInv
<1>6. Fine /\ ~Before(s, {"sent", "ok", "refused", "lost"})
  BY <1>1, <1>5, Zenon DEF Fine
<1>7. \A t \in SettingSlots : t # s /\ Live(t) => posts[s].nth < posts[t].nth
  BY <1>2, <1>6 DEF Before, Live
<1>8. PostsInOrder' /\ NoneLost' /\ posts[s].st # "lost"
  BY <1>1, <1>6 DEF FineInv, PostsInOrder, NoneLost
<1>9. KeyOK'
  <2>1. ASSUME NEW t \in SettingSlots, KeyNews(t)' PROVE \E y \in SettingSlots : Youngest(y)'
    <3>1. PICK y \in SettingSlots : Youngest(y)
      BY <1>3, <1>6, <2>1 DEF FineInv, KeyOK
    <3>2. t # s /\ KeyNews(t) /\ Live(t)
      BY <1>3, <2>1 DEF KeyNews, Live
    <3>3. y # s
      BY <1>2, <1>7, <3>1, <3>2 DEF Youngest
    <3>4. Youngest(y)'
      BY <1>1, <1>3, <3>1, <3>3 DEF Youngest
    <3>. QED
      BY <3>4
  <2>2. ASSUME \A t \in SettingSlots : ~KeyNews(t)' PROVE config'.key = settings'.key
    <3>1. CASE KeyNews(s)
      <4>1. PICK y \in SettingSlots : Youngest(y)
        BY <1>6, <3>1 DEF FineInv, KeyOK
      <4>2. y = s
        BY <1>3, <2>2, <4>1 DEF Youngest
      <4>3. posts[s].answer.key = settings.key
        BY <4>1, <4>2 DEF Youngest
      <4>4. config'.key = posts[s].answer.key
        <5>1. CASE posts[s].kind = "rotate"
          BY <1>1, <3>1, <5>1 DEF ConfigAnswered, KeyNews, SettingTypes, ConfigPart
        <5>2. CASE posts[s].kind = "read"
          BY <1>1, <3>1, <5>2 DEF ConfigAnswered, KeyNews
        <5>. QED
          BY <3>1, <5>1, <5>2 DEF KeyNews
      <4>. QED
        BY <1>1, <4>3, <4>4
    <3>2. CASE ~KeyNews(s)
      <4>1. config.key = settings.key
        BY <1>3, <1>6, <2>2, <3>2 DEF FineInv, KeyOK
      <4>2. config'.key = config.key
        <5>1. CASE posts[s].kind = "bind" /\ posts[s].st = "ok"
          BY <1>1, <5>1 DEF ConfigAnswered, SettingTypes, ConfigPart
        <5>2. CASE posts[s].kind = "bind" /\ posts[s].st # "ok"
          BY <1>1, <5>2 DEF ConfigAnswered
        <5>3. CASE posts[s].kind # "bind"
          BY <1>1, <3>2, <5>3 DEF ConfigAnswered, KeyNews
        <5>. QED
          BY <5>1, <5>2, <5>3
      <4>. QED
        BY <1>1, <4>1, <4>2
    <3>. QED
      BY <3>1, <3>2
  <2>. QED
    BY <2>1, <2>2 DEF KeyOK
<1>10. CASE Binding(s)
  <2>1. Bound(s) /\ \A t \in SettingSlots : ~Binding(t)'
    BY <1>3, <1>6, <1>10 DEF FineInv, BindOK
  <2>2. CASE posts[s].st = "ok"
    <3>1. config' = [config EXCEPT !.bind = posts[s].answer.bind] /\ box' = config'.bind
      BY <1>1, <1>10, <2>2 DEF ConfigAnswered, Binding
    <3>2. config'.bind = posts[s].answer.bind
      BY <3>1 DEF SettingTypes, ConfigPart
    <3>3. \A r \in SettingSlots : Read(r)' => posts'[r].answer.bind = settings'.bind
      BY <1>1, <1>3, <1>7, <2>1, <2>2 DEF Bound, Read, Live
    <3>4. Unbound'
      BY <1>1, <2>1, <2>2, <3>1, <3>2, <3>3 DEF Unbound, Bound
    <3>. QED
      BY <1>8, <1>9, <2>1, <3>4 DEF BindOK
  <2>3. CASE posts[s].st # "ok"
    <3>1. box' = ~posts[s].bind /\ config' = config
      BY <1>1, <1>10, <2>3 DEF ConfigAnswered, Binding
    <3>2. settings.bind # posts[s].bind /\ config.bind = settings.bind
      BY <2>1, <2>3 DEF Bound
    <3>3. box' = config'.bind /\ config'.bind = settings'.bind
      BY <1>1, <1>2, <3>1, <3>2
    <3>4. \A r \in SettingSlots : Read(r)' => posts'[r].answer.bind = settings'.bind
      BY <1>1, <1>3, <2>1, <2>3 DEF Bound
    <3>. QED
      BY <1>8, <1>9, <2>1, <3>3, <3>4 DEF BindOK, Unbound
  <2>. QED
    BY <2>2, <2>3
<1>11. CASE ~Binding(s)
  <2>0. posts[s].kind # "bind"
    BY <1>1, <1>11 DEF Binding, Live
  <2>1. CASE Read(s)
    <3>1. /\ config' = [key |-> posts[s].answer.key, bind |-> posts[s].answer.bind, domain |-> posts[s].answer.domain]
          /\ box' = config'.bind
      BY <1>1, <2>0, <2>1 DEF ConfigAnswered, Read
    <3>2. config'.bind = posts[s].answer.bind
      BY <3>1
    <3>3. ASSUME NEW b \in SettingSlots, Binding(b)' PROVE Bound(b)'
      <4>1. Binding(b) /\ b # s /\ Bound(b)
        BY <1>3, <1>6, <3>3 DEF FineInv, BindOK
      <4>. QED
        BY <1>1, <1>3, <2>1, <3>2, <4>1 DEF Bound
    <3>4. ASSUME \A b \in SettingSlots : ~Binding(b)' PROVE Unbound'
      <4>1. Unbound
        BY <1>3, <1>6, <1>11, <3>4 DEF FineInv, BindOK
      <4>. QED
        BY <1>1, <1>3, <2>1, <3>1, <3>2, <4>1 DEF Unbound
    <3>. QED
      BY <1>3, <1>6, <1>8, <1>9, <3>3, <3>4 DEF FineInv, BindOK
  <2>2. CASE ~Read(s)
    <3>1. config'.bind = config.bind /\ box' = box
      <4>1. CASE posts[s].kind = "rotate" /\ posts[s].st = "ok"
        BY <1>1, <4>1 DEF ConfigAnswered, SettingTypes, ConfigPart
      <4>2. CASE ~(posts[s].kind = "rotate" /\ posts[s].st = "ok")
        BY <1>1, <2>0, <2>2, <4>2 DEF ConfigAnswered, Read
      <4>. QED
        BY <4>1, <4>2
    <3>2. ASSUME NEW b \in SettingSlots, Binding(b)' PROVE Bound(b)'
      <4>1. Binding(b) /\ b # s /\ Bound(b)
        BY <1>3, <1>6, <3>2 DEF FineInv, BindOK
      <4>. QED
        BY <1>1, <1>3, <3>1, <4>1 DEF Bound
    <3>3. ASSUME \A b \in SettingSlots : ~Binding(b)' PROVE Unbound'
      <4>1. Unbound
        BY <1>3, <1>6, <1>11, <3>3 DEF FineInv, BindOK
      <4>. QED
        BY <1>1, <1>3, <3>1, <4>1 DEF Unbound
    <3>. QED
      BY <1>3, <1>6, <1>8, <1>9, <3>2, <3>3 DEF FineInv, BindOK
  <2>. QED
    BY <2>1, <2>2
<1>. QED
  BY <1>10, <1>11
-----------------------------------------------------------------------------
(* The settings page: what was typed into the Telegram form.               *)

\* Until the form is saved unfilled, whatever the daemon, an answer, a request to save or
\* the filled form holds was typed there or was the daemon's to begin with.
Typed == typed \cup {FirstSettings.tele}
TeleInv == ~blind =>
    /\ settings.tele \in Typed
    /\ \A s \in SettingSlots : /\ Live(s) /\ posts[s].kind = "telesave" => posts[s].tele \in Typed
                               /\ posts[s].st = "ok" => posts[s].answer.tele \in Typed
    /\ teleForm.val \in Typed \cup {0} /\ (teleForm.loaded => teleForm.val \in Typed)

LEMMA TeleStep ==
    ASSUME SettingTypes, TeleInv, [PagesNext]_pagesVars PROVE TeleInv'
<1>1. ActsGrow /\ SettingMove /\ SettingTypes'
  BY SettingShapes
<1>2. Typed \subseteq Typed' /\ (Typed = Typed' \/ typed # typed')
  BY <1>1 DEF ActsGrow, Typed
<1>3. ASSUME Rest PROVE TeleInv'
  BY <1>2, <1>3 DEF Rest, TeleInv, Live, Typed
<1>4. ASSUME NEW s \in SettingSlots, Leaves(s) PROVE TeleInv'
  <2>1. PICK k \in SettingPost :
          /\ Posting(s, k) /\ UNCHANGED <<settings, teleForm>>
          /\ IF k.kind = "telesave" THEN k.tele = teleForm.val /\ blind' = (blind \/ ~teleForm.loaded)
                                    ELSE UNCHANGED blind
    BY <1>4 DEF Leaves
  <2>2. /\ k.st = "sent" /\ posts'[s] = k
        /\ \A t \in SettingSlots : t # s => posts'[t] = posts[t]
    BY <2>1, PostingTypes DEF Posting
  <2>3. CASE k.kind = "telesave"
    <3>1. ~blind' => ~blind /\ teleForm.loaded
      BY <2>1, <2>3, Zenon
    <3>2. k.tele = teleForm.val
      BY <2>1, <2>3
    <3>. QED
      BY <1>2, <2>1, <2>2, <3>1, <3>2 DEF TeleInv, Live
  <2>4. CASE k.kind # "telesave"
    BY <1>2, <2>1, <2>2, <2>4 DEF TeleInv, Live
  <2>. QED
    BY <2>3, <2>4
<1>5. ASSUME NEW s \in SettingSlots, ServeSetting(s) PROVE TeleInv'
  <2>1. /\ UNCHANGED <<teleForm, blind>> /\ posts[s].st = "sent"
        /\ \A t \in SettingSlots : t # s => posts'[t] = posts[t]
        /\ posts'[s].kind = posts[s].kind /\ posts'[s].tele = posts[s].tele
        /\ posts'[s].st = "ok" => posts'[s].answer = settings'
        /\ settings'.tele = IF posts[s].kind = "telesave" THEN posts[s].tele ELSE settings.tele
    BY <1>5, ServeForm
  <2>2. ~blind => settings'.tele \in Typed
    BY <2>1 DEF TeleInv, Live
  <2>. QED
    BY <1>2, <2>1, <2>2 DEF TeleInv, Live
<1>6. ASSUME NEW s \in SettingSlots, RefuseSetting(s) PROVE TeleInv'
  <2>1. /\ UNCHANGED <<settings, teleForm, blind>> /\ posts[s].st = "sent" /\ posts'[s].st = "refused"
        /\ \A t \in SettingSlots : t # s => posts'[t] = posts[t]
        /\ posts'[s].kind = posts[s].kind /\ posts'[s].tele = posts[s].tele
    BY <1>6, RefuseForm
  <2>. QED
    BY <1>2, <2>1 DEF TeleInv, Live
<1>7. ASSUME NEW s \in SettingSlots, SettingAnswered(s) PROVE TeleInv'
  <2>1. /\ UNCHANGED <<settings, blind>> /\ posts'[s].st = "idle"
        /\ \A t \in SettingSlots : t # s => posts'[t] = posts[t]
        /\ TelegramAnswered(posts[s])
    BY <1>7, AnswerForm
  <2>2. CASE posts[s].kind = "teleload" /\ posts[s].st = "ok"
    <3>1. teleForm'.val = IF posts[s].answer.tele # 0 THEN posts[s].answer.tele ELSE teleForm.val
      BY <2>1, <2>2 DEF TelegramAnswered
    <3>2. ~blind => teleForm'.val \in Typed
      BY <2>2, <3>1 DEF TeleInv
    <3>. QED
      BY <1>2, <2>1, <3>2 DEF TeleInv, Live
  <2>3. CASE ~(posts[s].kind = "teleload" /\ posts[s].st = "ok")
    <3>1. teleForm' = teleForm
      BY <2>1, <2>3 DEF TelegramAnswered
    <3>. QED
      BY <1>2, <2>1, <3>1 DEF TeleInv, Live
  <2>. QED
    BY <2>2, <2>3
<1>. QED
  BY <1>1, <1>3, <1>4, <1>5, <1>6, <1>7 DEF SettingMove

LEMMA SettingsInvInit == ASSUME PagesInit PROVE SettingTypes /\ FineInv /\ TeleInv
<1>. DEFINE f == CHOOSE x \in SettingSlots : TRUE
            w == [IdlePost EXCEPT !.st = "sent", !.kind = "teleload"]
<1>1. /\ settings \in {[FirstSettings EXCEPT !.domain = d] : d \in BOOLEAN}
      /\ deadPath = FALSE /\ config = [key |-> 1, bind |-> FALSE, domain |-> settings.domain] /\ box = FALSE
      /\ teleForm = [val |-> 0, loaded |-> FALSE]
      /\ posts = [x \in SettingSlots |-> IF x = f THEN w ELSE IdlePost]
      /\ diagRuns = 0 /\ settingActs = 0 /\ typed = {} /\ blind = FALSE /\ amiss = FALSE
  BY DEF PagesInit, SettingsInit
<1>2. /\ FirstSettings \in Setting /\ settings \in Setting /\ settings.key = 1 /\ settings.bind = FALSE
      /\ settings.tele = FirstSettings.tele
  <2>1. PICK d \in BOOLEAN : settings = [FirstSettings EXCEPT !.domain = d]
    BY <1>1
  <2>2. FirstSettings.key = 1 /\ FirstSettings.bind = FALSE
    BY DEF FirstSettings
  <2>. QED
    BY <2>1, <2>2, FirstType DEF Setting
<1>3. /\ IdlePost \in SettingPost /\ IdlePost.st = "idle" /\ IdlePost.nth = 0 /\ w \in SettingPost
      /\ w.st = "sent" /\ w.kind = "teleload" /\ w.nth = 0
  <2>. DEFINE v == [IdlePost EXCEPT !.st = "sent"]
  <2>1. IdlePost \in SettingPost /\ IdlePost.st = "idle" /\ IdlePost.nth = 0
    BY FilledPost DEF IdlePost
  <2>2. v \in SettingPost /\ v.st = "sent" /\ v.nth = 0
    BY <2>1 DEF SettingPost
  <2>3. w = [v EXCEPT !.kind = "teleload"]
    OBVIOUS
  <2>. HIDE DEF v, w
  <2>4. w \in SettingPost /\ w.st = "sent" /\ w.kind = "teleload" /\ w.nth = 0
    BY <2>2, <2>3 DEF SettingPost, PostKinds
  <2>. QED
    BY <2>1, <2>4
<1>. HIDE DEF w, f
<1>4. /\ posts \in [SettingSlots -> SettingPost]
      /\ \A s \in SettingSlots : posts[s].nth = 0 /\ posts[s].st # "ok" /\ posts[s].st # "lost"
                                 /\ (Live(s) => posts[s].kind = "teleload")
  BY <1>1, <1>3 DEF Live
<1>5. SettingTypes
  <2>1. settings.domain \in BOOLEAN
    BY <1>2 DEF Setting
  <2>2. config \in ConfigPart /\ teleForm \in TeleForm
    BY <1>1, <2>1 DEF ConfigPart, TeleForm
  <2>. QED
    BY <1>1, <1>2, <1>4, <2>2 DEF SettingTypes
<1>6. FineInv
  <2>1. \A s \in SettingSlots : ~KeyNews(s) /\ ~Binding(s) /\ ~Read(s)
    BY <1>4 DEF KeyNews, Binding, Read
  <2>2. config.key = settings.key /\ config.bind = settings.bind /\ box = config.bind
    BY <1>1, <1>2
  <2>3. KeyOK /\ BindOK
    BY <2>1, <2>2 DEF KeyOK, BindOK, Unbound
  <2>. QED
    BY <1>1, <1>4, <2>3 DEF FineInv, NumberedPosts, PostsInOrder, NoneLost
<1>7. TeleInv
  BY <1>1, <1>2, <1>4 DEF TeleInv, Typed
<1>. QED
  BY <1>5, <1>6, <1>7

LEMMA FineStep == ASSUME SettingTypes, FineInv, [PagesNext]_pagesVars PROVE FineInv'
  BY SettingShapes, RestFine, LeavesFine, ServeFine, RefuseFine, AnswerFine DEF SettingMove

\* Once every request of the settings page is answered, in order and with nothing lost, the
\* key and the bind it shows are the daemon's; and a Telegram form that had been filled when
\* it was saved never put a value into the daemon that the operator did not type: the button that
\* makes a new key, the switch of the public API and initTelegramSettings of app.js together.
THEOREM SettingsAgreeHolds == PagesSpec => []SettingsAgree
<1>1. SettingTypes /\ FineInv /\ TeleInv => SettingsAgree
  <2>1. ASSUME SettingTypes, FineInv, PostsQuiet, ~amiss, ~deadPath
        PROVE  config.key = settings.key /\ config.bind = settings.bind /\ box = config.bind
    <3>1. \A s \in SettingSlots : ~KeyNews(s) /\ ~Binding(s)
      BY <2>1 DEF PostsQuiet, KeyNews, Binding, Live
    <3>. QED
      BY <2>1, <3>1 DEF FineInv, Fine, KeyOK, BindOK, Unbound
  <2>. QED
    BY <2>1 DEF SettingsAgree, TeleInv, Typed
<1>2. SettingTypes /\ FineInv /\ TeleInv /\ [PagesNext]_pagesVars => (SettingTypes /\ FineInv /\ TeleInv)'
  BY SettingShapes, FineStep, TeleStep
<1>. QED
  BY SettingsInvInit, <1>1, <1>2, PTL DEF PagesSpec
-----------------------------------------------------------------------------
(* The clients page.                                                       *)

\* The daemon's records, lists of them and requests about them, widened to any UUID.
Line == [uuid : Nat, on : BOOLEAN, ip : BOOLEAN]
Roll == [Clients -> Line]
ClientCall == [st : {"idle", "sent", "ok", "refused", "lost", "expired"}, kind : Kinds, id : Clients,
               body : Line, list : Roll \cup {Unread}]
ClientTypes ==
    /\ accounts \in Roll /\ issued \in Nat /\ clientsData \in Roll
    /\ editing \in [id : Clients, body : Line] /\ calling \in [ClientSlots -> ClientCall]

\* A list on its way to the daemon; one on its way back; a confirmed change whose handler
\* has still to read the list again.
Coming(s)  == calling[s].st = "sent" /\ IsList(calling[s])
Holds(s)   == calling[s].st = "ok" /\ IsList(calling[s])
Stirred(s) == calling[s].st = "ok" /\ ~IsList(calling[s]) /\ calling[s].kind # "regen"
Failed(s)  == calling[s].st \in {"refused", "lost", "expired"} /\ IsList(calling[s])

\* The lists on their way back in the order the daemon served them.
ServedInOrder ==
    /\ served \in Seq(ClientSlots)
    /\ \A i \in 1 .. Len(served) : Holds(served[i])
    /\ \A i, j \in 1 .. Len(served) : served[i] = served[j] => i = j
NothingFailed == \A s \in ClientSlots : ~Failed(s)
ListsRead == \A s \in ClientSlots : Holds(s) => calling[s].list \in Roll

\* As the daemon has it, an old UUID of a regeneration apart.
Fresh(list) == \A c \in Clients : /\ list[c].on = accounts[c].on /\ list[c].ip = accounts[c].ip
                                  /\ list[c].uuid = accounts[c].uuid \/ list[c].uuid \in dead

\* What will be on the page in the end is fresh: a list that is still to be asked for or
\* served, else the last one served, else the one the page holds.
FreshInTheEnd ==
    \/ \E s \in ClientSlots : Coming(s) \/ Stirred(s)
    \/ served = <<>> /\ Fresh(clientsData)
    \/ served # <<>> /\ Fresh(calling[served[Len(served)]].list)

\* The grid shows the page's list, or a list will redraw it.
GridFollows == \/ keystroke \/ grid = Drawn(clientsData, search)
               \/ \E s \in ClientSlots : Coming(s) \/ Holds(s)

ClientInv ==
    /\ ClientTypes /\ ListsRead
    /\ ~doubt => ServedInOrder /\ NothingFailed /\ FreshInTheEnd /\ GridFollows

LEMMA BlankCall ==
    /\ NoAccount \in Line /\ IdleCall \in ClientCall /\ Reading \in ClientCall
    /\ IdleCall.st = "idle" /\ Reading.st = "sent" /\ Reading.kind = "list"
<1>. DEFINE i == CHOOSE c \in Clients : TRUE
            n == NoAccount
            u == Unread
<1>1. n \in Line /\ i \in Clients
  BY ClientsAssumption DEF NoAccount, Line
<1>2. IdleCall = [st |-> "idle", kind |-> "list", id |-> i, body |-> n, list |-> u]
  BY DEF IdleCall
<1>. HIDE DEF i, n, u
<1>3. u \in {Unread}
  BY DEF u
<1>4. IdleCall \in ClientCall /\ IdleCall.st = "idle" /\ IdleCall.kind = "list"
  BY <1>1, <1>2, <1>3 DEF ClientCall, Kinds
<1>5. Reading \in ClientCall /\ Reading.st = "sent" /\ Reading.kind = "list"
  BY <1>4 DEF Reading, ClientCall
<1>. QED
  BY <1>1, <1>4, <1>5 DEF n

\* A slot takes another content.
Takes(s, k) == k \in ClientCall /\ calling' = [calling EXCEPT ![s] = k]

LEMMA TakesTypes ==
    ASSUME ClientTypes, NEW s \in ClientSlots, NEW k, Takes(s, k)
    PROVE  /\ calling' \in [ClientSlots -> ClientCall] /\ calling'[s] = k
           /\ \A t \in ClientSlots : t # s => calling'[t] = calling[t]
  BY DEF Takes, ClientTypes

LEMMA ClientPost ==
    ASSUME ClientTypes, NEW s \in ClientSlots, NEW kind \in Kinds, NEW c \in Clients, NEW b \in Line,
           Post(s, kind, c, b)
    PROVE  \E k \in ClientCall : Takes(s, k) /\ calling[s].st = "idle" /\ k.st = "sent" /\ k.kind = kind
<1>. DEFINE k0 == [IdleCall EXCEPT !.st = "sent"]
            k1 == [k0 EXCEPT !.kind = kind]
            k2 == [k1 EXCEPT !.id = c]
            k3 == [k2 EXCEPT !.body = b]
<1>1. calling[s].st = "idle" /\ calling' = [calling EXCEPT ![s] = k3]
  BY DEF Post
<1>2. k0 \in ClientCall /\ k0.st = "sent"
  BY BlankCall DEF ClientCall
<1>. HIDE DEF k0
<1>3. k1 \in ClientCall /\ k1.st = "sent" /\ k1.kind = kind
  BY <1>2 DEF ClientCall
<1>. HIDE DEF k1
<1>4. k2 \in ClientCall /\ k2.st = "sent" /\ k2.kind = kind
  BY <1>3 DEF ClientCall
<1>. HIDE DEF k2
<1>5. k3 \in ClientCall /\ k3.st = "sent" /\ k3.kind = kind
  BY <1>4 DEF ClientCall
<1>. HIDE DEF k3
<1>6. Takes(s, k3)
  BY <1>1, <1>5 DEF Takes
<1>. QED
  BY <1>1, <1>5, <1>6

\* What the daemon and the page hold of the accounts.
heldVars == <<accounts, clientsData, served, doubt, dead>>

\* Nothing of it, and no slot.
LEMMA ClientsStill ==
    ASSUME ClientInv, UNCHANGED <<heldVars, issued, grid, search, keystroke, editing, calling>>
    PROVE  ClientInv'
  BY DEF ClientInv, ClientTypes, ListsRead, ServedInOrder, NothingFailed, FreshInTheEnd, GridFollows, Fresh,
         Coming, Holds, Stirred, Failed, heldVars

\* The edit form alone.
LEMMA FormStep ==
    ASSUME ClientInv, editing' \in [id : Clients, body : Line],
           UNCHANGED <<heldVars, issued, grid, search, keystroke, calling>>
    PROVE  ClientInv'
  BY DEF ClientInv, ClientTypes, ListsRead, ServedInOrder, NothingFailed, FreshInTheEnd, GridFollows, Fresh,
         Coming, Holds, Stirred, Failed, heldVars

\* The search box and the grid.
LEMMA SearchStep ==
    ASSUME ClientInv, SearchInput \/ SearchTimer \/ ClearSearch PROVE ClientInv'
<1>1. UNCHANGED <<heldVars, issued, editing, calling>>
  BY DEF SearchInput, SearchTimer, ClearSearch, heldVars
<1>2. clientsData # Unread
  <2>1. DOMAIN clientsData = Clients /\ DOMAIN Unread = {}
    BY DEF ClientInv, ClientTypes, Roll, Unread
  <2>. QED
    BY <2>1, ClientsAssumption
<1>3. keystroke' \/ grid' = Drawn(clientsData', search')
  BY <1>1, <1>2 DEF SearchInput, SearchTimer, ClearSearch, heldVars
<1>. QED
  BY <1>1, <1>3 DEF ClientInv, ClientTypes, ListsRead, ServedInOrder, NothingFailed, FreshInTheEnd, GridFollows,
         Fresh, Coming, Holds, Stirred, Failed, heldVars
LEMMA LastServed ==
    ASSUME ServedInOrder, served # <<>>
    PROVE  LET l == served[Len(served)] IN l \in ClientSlots /\ Holds(l)
<1>1. Len(served) \in Nat \ {0} /\ \A i \in 1 .. Len(served) : served[i] \in ClientSlots /\ Holds(served[i])
  BY EmptySeq, ElementOfSeq DEF ServedInOrder
<1>. QED
  BY <1>1

\* A slot that holds no list takes something that is no list either, save one that is still
\* to be asked for; and this it must be where a change was confirmed.
LEMMA TakeStep ==
    ASSUME ClientInv, NEW s \in ClientSlots, NEW k, Takes(s, k), editing' \in [id : Clients, body : Line],
           UNCHANGED <<accounts, issued, clientsData, search, keystroke, served, dead>>, doubt => doubt',
           k.st # "ok",
           ~doubt' => /\ ~Holds(s) /\ ~Coming(s) /\ (k.st \in {"idle", "sent"} \/ ~IsList(k))
                      /\ Stirred(s) => k.st = "sent" /\ IsList(k)
                      /\ grid' = grid \/ (k.st = "sent" /\ IsList(k))
    PROVE  ClientInv'
<1>0. ClientTypes
  BY DEF ClientInv
<1>1. /\ calling' \in [ClientSlots -> ClientCall] /\ calling'[s] = k
      /\ \A t \in ClientSlots : t # s => calling'[t] = calling[t]
  BY <1>0, TakesTypes
<1>2. \A t \in ClientSlots :
          /\ t # s => /\ Coming(t)' <=> Coming(t)
                      /\ Holds(t)' <=> Holds(t)
                      /\ Stirred(t)' <=> Stirred(t)
                      /\ Failed(t)' <=> Failed(t)
  BY <1>1 DEF Coming, Holds, Stirred, Failed
<1>3. ~Holds(s)' /\ (Coming(s)' <=> k.st = "sent" /\ IsList(k))
  BY <1>1 DEF Holds, Coming
<1>4. ClientTypes' /\ ListsRead'
  BY <1>0, <1>1, <1>2, <1>3 DEF ClientInv, ClientTypes, ListsRead
<1>5. ASSUME ~doubt' PROVE ServedInOrder' /\ NothingFailed' /\ FreshInTheEnd' /\ GridFollows'
  <2>1. /\ ~Holds(s) /\ ~Coming(s) /\ ~Failed(s)' /\ (Stirred(s) => Coming(s)') /\ (grid' = grid \/ Coming(s)')
        /\ ServedInOrder /\ NothingFailed /\ FreshInTheEnd /\ GridFollows
    BY <1>1, <1>3, <1>5 DEF ClientInv, Failed
  <2>2. ServedInOrder' /\ NothingFailed'
    <3>1. \A i \in 1 .. Len(served) : served[i] \in ClientSlots
      BY <2>1, ElementOfSeq DEF ServedInOrder
    <3>. QED
      BY <1>2, <2>1, <3>1 DEF ServedInOrder, NothingFailed
  <2>3. FreshInTheEnd'
    <3>2. CASE \E t \in ClientSlots : Coming(t) \/ Stirred(t)
      BY <1>2, <2>1, <3>2 DEF FreshInTheEnd
    <3>3. CASE served = <<>> /\ Fresh(clientsData)
      BY <3>3 DEF FreshInTheEnd, Fresh
    <3>4. CASE served # <<>> /\ Fresh(calling[served[Len(served)]].list)
      <4>1. served[Len(served)] \in ClientSlots /\ served[Len(served)] # s
        BY <2>1, <3>4, LastServed
      <4>2. calling'[served[Len(served)]] = calling[served[Len(served)]]
        BY <1>1, <4>1
      <4>. QED
        BY <3>4, <4>2 DEF FreshInTheEnd, Fresh
    <3>. QED
      BY <2>1, <3>2, <3>3, <3>4 DEF FreshInTheEnd
  <2>4. GridFollows'
    BY <1>2, <2>1 DEF GridFollows
  <2>. QED
    BY <2>2, <2>3, <2>4
<1>. QED
  BY <1>4, <1>5 DEF ClientInv

\* A request leaves.
LEMMA PostStep ==
    ASSUME ClientInv, NEW s \in ClientSlots, NEW kind \in Kinds \ {"list", "addlist"}, NEW c \in Clients,
           NEW b \in Line, Post(s, kind, c, b),
           UNCHANGED <<heldVars, issued, grid, search, keystroke, editing>>
    PROVE  ClientInv'
<1>1. ClientTypes
  BY DEF ClientInv
<1>2. PICK k \in ClientCall : Takes(s, k) /\ calling[s].st = "idle" /\ k.st = "sent" /\ k.kind = kind
  BY <1>1, ClientPost
<1>3. ~Holds(s) /\ ~Coming(s) /\ ~Stirred(s) /\ editing' \in [id : Clients, body : Line]
  BY <1>1, <1>2 DEF Holds, Coming, Stirred, ClientTypes
<1>. QED
  BY <1>2, <1>3, TakeStep DEF heldVars

LEMMA StoredRoll ==
    ASSUME ClientTypes, NEW k \in ClientCall PROVE Stored(k) \in Roll
<1>1. accounts \in Roll /\ issued + 1 \in Nat /\ k.id \in Clients /\ k.body \in Line
  BY DEF ClientTypes, ClientCall
<1>. DEFINE a == accounts[k.id]
            n == issued + 1
<1>2. a \in Line /\ n \in Nat
  BY <1>1 DEF Roll
<1>. HIDE DEF n
<1>3. /\ [a EXCEPT !.on = k.body.on] \in Line /\ [a EXCEPT !.ip = TRUE] \in Line /\ [a EXCEPT !.ip = FALSE] \in Line
      /\ [a EXCEPT !.uuid = n] \in Line /\ [k.body EXCEPT !.uuid = n, !.on = TRUE] \in Line
  BY <1>1, <1>2 DEF Line
<1>4. \A r \in Line : [accounts EXCEPT ![k.id] = r] \in Roll
  BY <1>1 DEF Roll
<1>5. CASE k.kind \in {"toggle", "delete", "setip", "removeip"}
  BY <1>1, <1>3, <1>4, <1>5, BlankCall DEF Stored
<1>6. CASE k.kind \in {"add", "regen", "save"}
  BY <1>1, <1>3, <1>4, <1>6, BlankCall DEF Stored, n
<1>7. CASE k.kind \notin {"toggle", "delete", "setip", "removeip", "add", "regen", "save"}
  BY <1>1, <1>7 DEF Stored
<1>. QED
  BY <1>5, <1>6, <1>7
\* The daemon serves a list: it is the last one served, and fresh.  It serves a change: the
\* handler will read the list again, or what changed is a UUID.
LEMMA ServeStep == ASSUME ClientInv, NEW s \in ClientSlots, Serve(s) PROVE ClientInv'
<1>. DEFINE k == calling[s]
            l == IF IsList(k) THEN accounts ELSE Unread
            b == accounts'[k.id]
            m0 == [k EXCEPT !.st = "ok"]
            m1 == [m0 EXCEPT !.body = b]
            m == [m1 EXCEPT !.list = l]
            n == [k EXCEPT !.st = "lost"]
<1>0. /\ ClientTypes /\ k \in ClientCall /\ accounts \in Roll
      /\ issued \in Nat /\ calling \in [ClientSlots -> ClientCall]
  BY DEF ClientInv, ClientTypes
<1>1. /\ k.st = "sent" /\ accounts' = Stored(k) /\ issued' = (IF k.kind \in {"add", "regen"} THEN issued + 1 ELSE issued)
      /\ dead' = (IF k.kind = "regen" THEN dead \cup {accounts[k.id].uuid} ELSE dead)
      /\ UNCHANGED <<clientsData, grid, search, keystroke, editing>>
  BY DEF Serve
<1>2. accounts' \in Roll /\ issued' \in Nat /\ k.id \in Clients
  BY <1>0, <1>1, StoredRoll DEF ClientCall
<1>3. b \in Line /\ l \in Roll \cup {Unread}
  BY <1>0, <1>2 DEF Roll
<1>. HIDE DEF b, l
<1>4. /\ m \in ClientCall /\ m.st = "ok" /\ m.kind = k.kind /\ m.list = l
      /\ n \in ClientCall /\ n.st = "lost" /\ n.kind = k.kind /\ n.list = k.list
  <2>1. n \in ClientCall /\ n.st = "lost" /\ n.kind = k.kind /\ n.list = k.list
    BY <1>0 DEF ClientCall
  <2>2. m0 \in ClientCall /\ m0.st = "ok" /\ m0.kind = k.kind
    BY <1>0 DEF ClientCall
  <2>. HIDE DEF m0
  <2>3. m1 \in ClientCall /\ m1.st = "ok" /\ m1.kind = k.kind
    BY <1>3, <2>2 DEF ClientCall
  <2>. HIDE DEF m1
  <2>4. m \in ClientCall /\ m.st = "ok" /\ m.kind = k.kind /\ m.list = l
    BY <1>3, <2>3 DEF ClientCall
  <2>. QED
    BY <2>1, <2>4
<1>5. \/ /\ calling' = [calling EXCEPT ![s] = m]
         /\ served' = (IF IsList(k) THEN Append(served, s) ELSE served) /\ doubt' = doubt
      \/ doubt' = TRUE /\ calling' = [calling EXCEPT ![s] = n]
  BY <1>0 DEF Serve, b, l
<1>. HIDE DEF m, n
<1>6. CASE doubt' = TRUE /\ calling' = [calling EXCEPT ![s] = n]
  <2>1. \A t \in ClientSlots : Holds(t)' => Holds(t) /\ calling'[t] = calling[t]
    BY <1>0, <1>4, <1>6 DEF Holds
  <2>2. ClientTypes' /\ ListsRead'
    BY <1>0, <1>1, <1>2, <1>4, <1>6, <2>1 DEF ClientInv, ClientTypes, ListsRead
  <2>. QED
    BY <1>6, <2>2 DEF ClientInv
<1>7. CASE /\ calling' = [calling EXCEPT ![s] = m]
           /\ served' = (IF IsList(k) THEN Append(served, s) ELSE served) /\ doubt' = doubt
  <2>1. calling'[s] = m /\ \A t \in ClientSlots : t # s => calling'[t] = calling[t]
    BY <1>0, <1>4, <1>7
  <2>2. \A t \in ClientSlots :
          /\ t # s => /\ Coming(t)' <=> Coming(t)
                      /\ Holds(t)' <=> Holds(t)
                      /\ Stirred(t)' <=> Stirred(t)
                      /\ Failed(t)' <=> Failed(t)
    BY <2>1 DEF Coming, Holds, Stirred, Failed
  <2>3. /\ ~Holds(s) /\ ~Stirred(s) /\ ~Failed(s)' /\ ~Coming(s)' /\ (Holds(s)' <=> IsList(k))
        /\ (Stirred(s)' <=> ~IsList(k) /\ k.kind # "regen") /\ (Coming(s) <=> IsList(k))
    BY <1>1, <1>4, <2>1 DEF Holds, Stirred, Failed, Coming, IsList
  <2>4. IsList(k) => l = accounts /\ accounts' = accounts /\ dead' = dead
    BY <1>1 DEF l, IsList, Stored
  <2>5. ListsRead'
    BY <1>0, <1>4, <2>1, <2>2, <2>3, <2>4 DEF ClientInv, ListsRead
  <2>6. ClientTypes'
    BY <1>0, <1>1, <1>2, <1>4, <1>7 DEF ClientTypes
  <2>7. ASSUME ~doubt' PROVE ServedInOrder' /\ NothingFailed' /\ FreshInTheEnd' /\ GridFollows'
    <3>1. ServedInOrder /\ NothingFailed /\ FreshInTheEnd /\ GridFollows
      BY <1>7, <2>7 DEF ClientInv
    <3>2. \A i \in 1 .. Len(served) : served[i] \in ClientSlots /\ served[i] # s
      BY <2>3, <3>1, ElementOfSeq DEF ServedInOrder
    <3>3. NothingFailed' /\ GridFollows'
      BY <1>1, <2>2, <2>3, <3>1 DEF NothingFailed, GridFollows
    <3>4. CASE IsList(k)
      <4>1. /\ served' \in Seq(ClientSlots) /\ Len(served') = Len(served) + 1 /\ served' # <<>>
            /\ \A i \in 1 .. Len(served) : served'[i] = served[i]
            /\ served'[Len(served) + 1] = s /\ Len(served) \in Nat
        BY <1>7, <3>1, <3>4, AppendProperties, LenProperties DEF ServedInOrder
      <4>2. \A i \in 1 .. Len(served') : i \in 1 .. Len(served) \/ i = Len(served) + 1
        BY <4>1
      <4>3. ServedInOrder'
        BY <2>2, <2>3, <3>1, <3>2, <3>4, <4>1, <4>2 DEF ServedInOrder
      <4>4. calling'[served'[Len(served')]].list = accounts /\ accounts' = accounts
        BY <1>4, <2>1, <2>4, <3>4, <4>1
      <4>5. FreshInTheEnd'
        BY <4>1, <4>4 DEF FreshInTheEnd, Fresh
      <4>. QED
        BY <3>3, <4>3, <4>5
    <3>5. CASE ~IsList(k)
      <4>1. served' = served
        BY <1>7, <3>5
      <4>2. ServedInOrder'
        BY <2>2, <3>1, <3>2, <4>1 DEF ServedInOrder
      <4>3. CASE k.kind # "regen"
        BY <2>3, <3>3, <3>5, <4>2, <4>3 DEF FreshInTheEnd
      <4>4. CASE k.kind = "regen"
        <5>1. accounts' = [accounts EXCEPT ![k.id].uuid = issued + 1] /\ dead' = dead \cup {accounts[k.id].uuid}
          BY <1>1, <4>4 DEF Stored
        <5>2. \A c \in Clients : /\ accounts'[c].on = accounts[c].on /\ accounts'[c].ip = accounts[c].ip
                                 /\ accounts'[c].uuid = accounts[c].uuid \/ accounts[c].uuid \in dead'
          BY <1>0, <1>2, <5>1 DEF Roll, Line
        <5>3. \A f : Fresh(f) => \A c \in Clients :
                  /\ f[c].on = accounts'[c].on /\ f[c].ip = accounts'[c].ip
                  /\ f[c].uuid = accounts'[c].uuid \/ f[c].uuid \in dead'
          BY <5>1, <5>2 DEF Fresh
        <5>4. served # <<>> => /\ served[Len(served)] \in ClientSlots
                               /\ calling'[served[Len(served)]] = calling[served[Len(served)]]
          BY <2>1, <2>3, <3>1, LastServed
        <5>5. FreshInTheEnd'
          <6>1. CASE \E t \in ClientSlots : Coming(t) \/ Stirred(t)
            BY <2>2, <2>3, <3>5, <6>1 DEF FreshInTheEnd
          <6>2. CASE served = <<>> /\ Fresh(clientsData)
            BY <1>1, <4>1, <5>3, <6>2 DEF FreshInTheEnd, Fresh
          <6>3. CASE served # <<>> /\ Fresh(calling[served[Len(served)]].list)
            BY <4>1, <5>3, <5>4, <6>3 DEF FreshInTheEnd, Fresh
          <6>. QED
            BY <3>1, <6>1, <6>2, <6>3 DEF FreshInTheEnd
        <5>. QED
          BY <3>3, <4>2, <5>5
      <4>. QED
        BY <4>3, <4>4
    <3>. QED
      BY <3>4, <3>5
  <2>. QED
    BY <2>5, <2>6, <2>7 DEF ClientInv
<1>. QED
  BY <1>5, <1>6, <1>7

LEMMA RefuseStep == ASSUME ClientInv, NEW s \in ClientSlots, Refuse(s) PROVE ClientInv'
<1>. DEFINE k == calling[s]
<1>0. k \in ClientCall /\ ClientTypes
  BY DEF ClientInv, ClientTypes
<1>1. /\ k.st = "sent" /\ UNCHANGED <<accounts, issued, clientsData, grid, search, keystroke, editing, served, dead>>
      /\ (doubt' = doubt /\ ~IsList(k)) \/ doubt' = (doubt \/ IsList(k))
  BY DEF Refuse
<1>2. PICK v \in {"refused", "expired"} : calling' = [calling EXCEPT ![s].st = v]
  BY DEF Refuse
<1>. DEFINE n == [k EXCEPT !.st = v]
<1>3. n \in ClientCall /\ n.st = v /\ n.kind = k.kind
  BY <1>0 DEF ClientCall
<1>4. calling' = [calling EXCEPT ![s] = n]
  BY <1>2
<1>. HIDE DEF n
<1>5. Takes(s, n)
  BY <1>3, <1>4 DEF Takes
<1>6. editing' \in [id : Clients, body : Line]
  BY <1>0, <1>1 DEF ClientTypes
<1>7. ~doubt' => ~Holds(s) /\ ~Coming(s) /\ ~IsList(n) /\ ~Stirred(s)
  <2>1. ~doubt' => ~IsList(k)
    BY <1>1, Zenon
  <2>. QED
    BY <1>1, <1>3, <2>1 DEF Holds, Coming, Stirred, IsList
<1>8. doubt => doubt'
  BY <1>1, Zenon
<1>. QED
  BY <1>1, <1>3, <1>5, <1>6, <1>7, <1>8, TakeStep
\* What is left of the served lists when one of them is read.
LEMMA NewerLists ==
    ASSUME ServedInOrder, NEW i \in 1 .. Len(served)
    PROVE  /\ Newer(served[i]) \in Seq(ClientSlots) /\ Len(Newer(served[i])) = Len(served) - i
           /\ \A j \in 1 .. Len(served) - i : Newer(served[i])[j] = served[i + j]
<1>1. Len(served) \in Nat /\ DOMAIN served = 1 .. Len(served)
  BY LenProperties DEF ServedInOrder
<1>2. {j \in DOMAIN served : served[j] = served[i]} = {i}
  BY <1>1 DEF ServedInOrder
<1>3. Newer(served[i]) = SubSeq(served, i + 1, Len(served))
  <2>1. (CHOOSE x \in {i} : TRUE) = i
    OBVIOUS
  <2>. QED
    BY <1>2, <2>1 DEF Newer
<1>4. \A j \in i + 1 .. Len(served) : served[j] \in ClientSlots
  BY <1>1, ElementOfSeq DEF ServedInOrder
<1>5. /\ SubSeq(served, i + 1, Len(served)) \in Seq(ClientSlots)
      /\ Len(SubSeq(served, i + 1, Len(served))) = IF i + 1 <= Len(served) THEN Len(served) - (i + 1) + 1 ELSE 0
      /\ \A j \in 1 .. Len(served) - (i + 1) + 1 :
             SubSeq(served, i + 1, Len(served))[j] = served[(i + 1) + j - 1]
  BY <1>1, <1>4, SubSeqProperties
<1>. QED
  BY <1>1, <1>3, <1>5

\* A list is read: the page has it, and only younger ones are still on their way.
LEMMA ListStep == ASSUME ClientInv, NEW s \in ClientSlots, ListAnswered(s) PROVE ClientInv'
<1>. DEFINE k == calling[s]
<1>0. ClientTypes /\ k \in ClientCall /\ ListsRead
  BY DEF ClientInv, ClientTypes
<1>1. /\ IsList(k) /\ Answered(s) /\ calling' = [calling EXCEPT ![s] = IdleCall]
      /\ UNCHANGED <<accounts, issued, search, keystroke, editing, dead>>
  BY DEF ListAnswered
<1>2. Takes(s, IdleCall)
  BY <1>1, BlankCall DEF Takes
<1>3. /\ calling' \in [ClientSlots -> ClientCall] /\ calling'[s] = IdleCall
      /\ \A t \in ClientSlots : t # s => calling'[t] = calling[t]
  BY <1>0, <1>2, TakesTypes
<1>4. \A t \in ClientSlots :
          /\ t # s => /\ Coming(t)' <=> Coming(t)
                      /\ Holds(t)' <=> Holds(t)
                      /\ Stirred(t)' <=> Stirred(t)
                      /\ Failed(t)' <=> Failed(t)
  BY <1>3 DEF Coming, Holds, Stirred, Failed
<1>5. ~Holds(s)' /\ ~Failed(s)' /\ ~Coming(s) /\ ~Stirred(s)
  BY <1>1, <1>3, BlankCall DEF Holds, Failed, Coming, Stirred, Answered
<1>6. ListsRead'
  BY <1>0, <1>3, <1>4, <1>5 DEF ListsRead
<1>7. CASE k.st = "ok"
  <2>1. /\ clientsData' = k.list /\ grid' = Drawn(k.list, search) /\ served' = Newer(s)
        /\ doubt' = (doubt \/ \A i \in DOMAIN served : served[i] # s)
    BY <1>7 DEF ListAnswered
  <2>2. clientsData' \in Roll /\ Holds(s)
    BY <1>0, <1>1, <1>7, <2>1 DEF ListsRead, Holds
  <2>3. ClientTypes'
    BY <1>0, <1>1, <1>3, <2>2 DEF ClientTypes
  <2>4. ASSUME ~doubt' PROVE ServedInOrder' /\ NothingFailed' /\ FreshInTheEnd' /\ GridFollows'
    <3>1. ~doubt /\ \E i \in DOMAIN served : served[i] = s
      BY <2>1, <2>4, Zenon
    <3>2. ServedInOrder /\ NothingFailed /\ FreshInTheEnd
      BY <3>1 DEF ClientInv
    <3>3. Len(served) \in Nat /\ DOMAIN served = 1 .. Len(served)
      BY <3>2, LenProperties DEF ServedInOrder
    <3>4. PICK i \in 1 .. Len(served) : served[i] = s
      BY <3>1, <3>3
    <3>5. /\ served' \in Seq(ClientSlots) /\ Len(served') = Len(served) - i
          /\ \A j \in 1 .. Len(served') : served'[j] = served[i + j] /\ i + j \in 1 .. Len(served)
      <4>1. /\ served' \in Seq(ClientSlots) /\ Len(served') = Len(served) - i
            /\ \A j \in 1 .. Len(served) - i : served'[j] = served[i + j]
        BY <2>1, <3>2, <3>4, NewerLists
      <4>2. \A j \in 1 .. Len(served) - i : i + j \in 1 .. Len(served)
        BY <3>3
      <4>. QED
        BY <4>1, <4>2
    <3>6. \A j \in 1 .. Len(served') : served'[j] \in ClientSlots /\ served'[j] # s
      BY <3>2, <3>3, <3>4, <3>5, ElementOfSeq DEF ServedInOrder
    <3>7. ServedInOrder'
      <4>1. \A j \in 1 .. Len(served') : calling'[served'[j]].st = "ok" /\ IsList(calling'[served'[j]])
        BY <1>3, <3>2, <3>5, <3>6 DEF ServedInOrder, Holds
      <4>2. \A a, b \in 1 .. Len(served') : served'[a] = served'[b] => a = b
        <5>1. \A a, b \in 1 .. Len(served') : served'[a] = served'[b] => i + a = i + b
          BY <3>2, <3>5 DEF ServedInOrder
        <5>. QED
          BY <3>3, <3>5, <5>1
      <4>. QED
        BY <3>5, <4>1, <4>2 DEF ServedInOrder, Holds
    <3>8. NothingFailed' /\ GridFollows'
      BY <1>1, <1>4, <1>5, <2>1, <3>2 DEF NothingFailed, GridFollows
    <3>9. FreshInTheEnd'
      <4>1. CASE \E t \in ClientSlots : Coming(t) \/ Stirred(t)
        BY <1>4, <1>5, <4>1 DEF FreshInTheEnd
      <4>2. CASE served # <<>> /\ Fresh(calling[served[Len(served)]].list)
        <5>1. CASE i = Len(served)
          <6>1. served' = <<>> /\ clientsData' = calling[served[Len(served)]].list
            BY <2>1, <3>3, <3>4, <3>5, <5>1, EmptySeq
          <6>. QED
            BY <1>1, <4>2, <6>1 DEF FreshInTheEnd, Fresh
        <5>2. CASE i # Len(served)
          <6>1. /\ Len(served') \in 1 .. Len(served') /\ served'[Len(served')] = served[Len(served)]
                /\ served' # <<>>
            <7>1. Len(served') = Len(served) - i /\ Len(served') \in 1 .. Len(served')
              BY <3>3, <3>4, <3>5, <5>2
            <7>2. i + Len(served') = Len(served)
              BY <3>3, <3>4, <7>1
            <7>3. served' # <<>>
              BY <3>5, <7>1, EmptySeq
            <7>. QED
              BY <3>5, <7>1, <7>2, <7>3
          <6>2. calling'[served'[Len(served')]] = calling[served[Len(served)]]
            BY <1>3, <3>6, <6>1
          <6>. QED
            BY <1>1, <4>2, <6>1, <6>2 DEF FreshInTheEnd, Fresh
        <5>. QED
          BY <5>1, <5>2
      <4>3. served # <<>>
        BY <3>3, <3>4
      <4>. QED
        BY <3>2, <4>1, <4>2, <4>3 DEF FreshInTheEnd
    <3>. QED
      BY <3>7, <3>8, <3>9
  <2>. QED
    BY <1>6, <2>3, <2>4 DEF ClientInv
<1>8. CASE k.st # "ok"
  <2>1. Failed(s) /\ doubt' = doubt /\ clientsData' = clientsData
    BY <1>1, <1>8 DEF ListAnswered, Failed, Answered
  <2>2. doubt'
    BY <2>1 DEF ClientInv, NothingFailed
  <2>3. ClientTypes'
    BY <1>0, <1>1, <1>3, <2>1 DEF ClientTypes
  <2>. QED
    BY <1>6, <2>2, <2>3 DEF ClientInv
<1>. QED
  BY <1>7, <1>8

\* The other answers, and the gate.
LEMMA AnswerStep ==
    ASSUME ClientInv, NEW s \in ClientSlots, ChangeAnswered(s) \/ RegenAnswered(s) \/ SignInAgain(s)
    PROVE  ClientInv'
<1>. DEFINE k == calling[s]
<1>0. ClientTypes /\ k \in ClientCall /\ editing \in [id : Clients, body : Line]
  BY DEF ClientInv, ClientTypes
<1>1. CASE ChangeAnswered(s)
  <2>1. /\ Answered(s) /\ ~IsList(k) /\ k.kind # "regen"
        /\ UNCHANGED <<accounts, issued, clientsData, search, keystroke, editing, served, doubt, dead>>
    BY <1>1 DEF ChangeAnswered
  <2>2. ~Holds(s) /\ ~Coming(s)
    BY <2>1 DEF Holds, Coming
  <2>3. CASE k.st = "ok"
    <3>. DEFINE n == [Reading EXCEPT !.kind = IF k.kind = "add" THEN "addlist" ELSE "list"]
    <3>1. n \in ClientCall /\ n.st = "sent" /\ IsList(n)
      BY BlankCall DEF ClientCall, Kinds, IsList
    <3>2. calling' = [calling EXCEPT ![s] = n]
      BY <1>1, <2>3 DEF ChangeAnswered
    <3>. HIDE DEF n
    <3>3. Takes(s, n)
      BY <3>1, <3>2 DEF Takes
    <3>. QED
      BY <1>0, <2>1, <2>2, <3>1, <3>3, TakeStep
  <2>4. CASE k.st # "ok"
    <3>1. Takes(s, IdleCall) /\ grid' = grid
      BY <1>1, <2>4, BlankCall DEF ChangeAnswered, Takes
    <3>2. ~Stirred(s)
      BY <2>4 DEF Stirred
    <3>. QED
      BY <1>0, <2>1, <2>2, <3>1, <3>2, BlankCall, TakeStep
  <2>. QED
    BY <2>3, <2>4
<1>2. CASE RegenAnswered(s)
  <2>1. /\ k.kind = "regen" /\ Takes(s, IdleCall)
        /\ editing' = (IF k.st = "ok" THEN [editing EXCEPT !.body.uuid = k.body.uuid] ELSE editing)
        /\ UNCHANGED <<accounts, issued, clientsData, grid, search, keystroke, served, doubt, dead>>
    BY <1>2, BlankCall DEF RegenAnswered, Takes
  <2>2. ~Holds(s) /\ ~Coming(s) /\ ~Stirred(s)
    BY <2>1 DEF Holds, Coming, Stirred, IsList
  <2>3. editing' \in [id : Clients, body : Line]
    <3>1. k.body \in Line
      BY <1>0 DEF ClientCall
    <3>2. k.body.uuid \in Nat
      BY <3>1 DEF Line
    <3>. QED
      BY <1>0, <2>1, <3>2 DEF Line
  <2>. QED
    BY <2>1, <2>2, <2>3, BlankCall, TakeStep
<1>3. CASE SignInAgain(s)
  <2>1. /\ k.st = "idle" /\ Takes(s, Reading)
        /\ UNCHANGED <<accounts, issued, clientsData, search, keystroke, editing, served, doubt, dead>>
    BY <1>3, BlankCall DEF SignInAgain, Takes
  <2>2. ~Holds(s) /\ ~Coming(s) /\ ~Stirred(s) /\ IsList(Reading)
    BY <2>1, BlankCall DEF Holds, Coming, Stirred, IsList
  <2>. QED
    BY <1>0, <2>1, <2>2, BlankCall, TakeStep
<1>. QED
  BY <1>1, <1>2, <1>3
LEMMA ClientStep == ClientInv /\ [PagesNext]_pagesVars => ClientInv'
<1>. SUFFICES ASSUME ClientInv, ClientsNext \/ UNCHANGED clientsOnly PROVE ClientInv'
  BY ClientMoves
<1>0. ClientTypes /\ editing.id \in Clients /\ editing.body \in Line /\ NoAccount \in Line
  BY BlankCall DEF ClientInv, ClientTypes
<1>1. ASSUME \/ OpenAddForm \/ PageKeys \/ UNCHANGED clientsOnly
             \/ \E m \in ModalNames : CloseButton(m)
             \/ \E k \in {"delete", "setip", "removeip"}, c \in Clients :
                   CardAsks([kind |-> k, id |-> c]) \/ CardCancelled([kind |-> k, id |-> c])
      PROVE  ClientInv'
  <2>1. UNCHANGED <<heldVars, issued, grid, search, keystroke, editing, calling>>
    BY <1>1 DEF OpenAddForm, PageKeys, CloseButton, CardAsks, CardCancelled, clientsOnly, heldVars
  <2>. QED
    BY <2>1, ClientsStill
<1>2. ASSUME SearchInput \/ SearchTimer \/ ClearSearch PROVE ClientInv'
  BY <1>2, SearchStep
<1>3. ASSUME NEW c \in Clients, OpenEdit(c) PROVE ClientInv'
  <2>1. editing' \in [id : Clients, body : Line]
    BY <1>0, <1>3 DEF OpenEdit, ClientTypes, Roll
  <2>. QED
    BY <1>3, <2>1, FormStep DEF OpenEdit, heldVars
<1>4. ASSUME EditEnabled PROVE ClientInv'
  <2>1. editing' \in [id : Clients, body : Line]
    BY <1>0, <1>4 DEF EditEnabled, ClientTypes, Line
  <2>. QED
    BY <1>4, <2>1, FormStep DEF EditEnabled, heldVars
<1>5. ASSUME NEW s \in ClientSlots, NEW c \in Clients, CardAction(s, c) PROVE ClientInv'
  <2>1. /\ UNCHANGED <<heldVars, issued, grid, search, keystroke, editing>>
        /\ \E kind \in {"renew", "toggle"}, b \in Line : Post(s, kind, c, b)
    <3>1. [clientsData[c] EXCEPT !.on = ~@] \in Line
      BY <1>0 DEF ClientTypes, Roll, Line
    <3>. QED
      BY <1>0, <1>5, <3>1 DEF CardAction, heldVars
  <2>. QED
    BY <2>1, PostStep DEF Kinds
<1>6. ASSUME NEW s \in ClientSlots, NEW k \in {"delete", "setip", "removeip"}, NEW c \in Clients,
             CardConfirmed(s, [kind |-> k, id |-> c])
      PROVE  ClientInv'
  <2>1. UNCHANGED <<heldVars, issued, grid, search, keystroke, editing>> /\ Post(s, k, c, NoAccount)
    BY <1>6 DEF CardConfirmed, heldVars
  <2>. QED
    BY <1>0, <2>1, PostStep DEF Kinds
<1>7. ASSUME NEW s \in ClientSlots, NEW c \in Clients, NEW ip \in BOOLEAN, SubmitAdd(s, c, ip) PROVE ClientInv'
  <2>1. [NoAccount EXCEPT !.ip = ip] \in Line
    BY DEF NoAccount, Line
  <2>2. /\ UNCHANGED <<heldVars, issued, grid, search, keystroke, editing>>
        /\ Post(s, "add", c, [NoAccount EXCEPT !.ip = ip])
    BY <1>7 DEF SubmitAdd, heldVars
  <2>. QED
    BY <2>1, <2>2, PostStep DEF Kinds
<1>8. ASSUME NEW s \in ClientSlots, NEW kind \in {"regen", "reset", "save"}, EditPosts(s, kind) PROVE ClientInv'
  <2>1. /\ UNCHANGED <<heldVars, issued, grid, search, keystroke, editing>>
        /\ \E b \in Line : Post(s, kind, editing.id, b)
    BY <1>0, <1>8 DEF EditPosts, heldVars
  <2>. QED
    BY <1>0, <2>1, PostStep DEF Kinds
<1>9. ASSUME NEW s \in ClientSlots, \/ Serve(s) \/ Refuse(s) \/ ListAnswered(s)
                                    \/ ChangeAnswered(s) \/ RegenAnswered(s) \/ SignInAgain(s)
      PROVE  ClientInv'
  BY <1>9, ServeStep, RefuseStep, ListStep, AnswerStep
<1>. QED
  BY <1>1, <1>2, <1>3, <1>4, <1>5, <1>6, <1>7, <1>8, <1>9 DEF ClientsNext

LEMMA ClientInvInit == PagesInit => ClientInv
<1>. SUFFICES ASSUME PagesInit PROVE ClientInv
  OBVIOUS
<1>1. /\ issued = 1 /\ clientsData = accounts /\ grid = Drawn(accounts, FALSE) /\ search = FALSE
      /\ editing = [id |-> CHOOSE c \in Clients : TRUE, body |-> NoAccount]
      /\ calling = [s \in ClientSlots |-> IdleCall] /\ served = <<>>
      /\ \E S \in SUBSET Clients : accounts = [c \in Clients |-> IF c \in S
                        THEN [uuid |-> 1, on |-> TRUE, ip |-> TRUE] ELSE NoAccount]
  BY DEF PagesInit, ClientsInit
<1>2. accounts \in Roll /\ editing \in [id : Clients, body : Line]
  BY <1>1, BlankCall, ClientsAssumption DEF Roll, Line
<1>3. \A s \in ClientSlots : calling[s] = IdleCall
  BY <1>1
<1>4. \A s \in ClientSlots : ~Holds(s) /\ ~Failed(s)
  BY <1>3, BlankCall DEF Holds, Failed
<1>5. ClientTypes /\ ListsRead /\ NothingFailed
  BY <1>1, <1>2, <1>4, BlankCall DEF ClientTypes, ListsRead, NothingFailed
<1>6. ServedInOrder
  BY <1>1, EmptySeq DEF ServedInOrder
<1>7. FreshInTheEnd /\ GridFollows
  BY <1>1 DEF FreshInTheEnd, GridFollows, Fresh
<1>. QED
  BY <1>5, <1>6, <1>7 DEF ClientInv

\* Once every request of the clients page is answered, none was lost and no list overtook a
\* newer one, the page holds the daemon's accounts, an old UUID of a regeneration apart, and
\* the grid shows what that list and the search box say: loadClients, renderClientsView and the
\* handlers of the cards and the forms, whatever the interleaving.
THEOREM QuietPageHolds == PagesSpec => []QuietPage
<1>1. ClientInv => QuietPage
  <2>. SUFFICES ASSUME ClientInv, CallsQuiet, ~doubt
                PROVE  Fresh(clientsData) /\ (~keystroke => grid = Drawn(clientsData, search))
    BY DEF QuietPage, Fresh
  <2>1. \A s \in ClientSlots : ~Holds(s) /\ ~Coming(s) /\ ~Stirred(s)
    BY DEF CallsQuiet, Holds, Coming, Stirred
  <2>2. served = <<>>
    BY <2>1, LastServed DEF ClientInv
  <2>. QED
    BY <2>1, <2>2 DEF ClientInv, FreshInTheEnd, GridFollows
<1>. QED
  BY ClientInvInit, ClientStep, <1>1, PTL DEF PagesSpec
=============================================================================
