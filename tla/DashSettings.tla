------------------------------ MODULE DashSettings ------------------------------
(***************************************************************************)
(* The settings and API pages (web/js/app.js): the rotation of the master  *)
(* key behind a chain of dialogs, the public-API switch, the Telegram      *)
(* form, restart and removal of an upstream behind their dialog, the       *)
(* diagnostic run, the hidden admin path, and the buttons that have a      *)
(* certificate issued and poll for it.  Requests under way keep a slot and *)
(* settle in any order.  The daemon's answers are modelled from            *)
(* web/server.go and web/tls.go.                                           *)
(***************************************************************************)
EXTENDS DashDialogs

CONSTANTS
    SettingSlots,   \* slots for requests under way
    MaxSettingActs, MaxSetbacks \* bounds: the operator's acts; requests that go wrong

Surfaces == {"panel", "dot"}
SettingQuestions == [kind : {"rotate", "password", "code", "restart", "upstream"}, id : {"panel"}]

ASSUME SettingsAssumption ==
    MaxSettingActs \in Nat /\ MaxSetbacks \in Nat /\ SettingQuestions \subseteq Questions

VARIABLES
    settings,       \* the daemon's [key, bind, domain, tele]; tele 0 is blank
    deadPath,       \* the daemon: the admin path this page was loaded under is gone
    totp,           \* currentConfig.auth.totp_enabled
    config,         \* currentConfig's [key, bind, domain]
    box,            \* the public-API switch on the screen
    teleForm,       \* the Telegram form: [val, loaded]
    posts,          \* what each slot holds
    diagRunning, diagShown, diagRuns,   \* the flag; the report on the screen; runs started
    issue, verdict, \* each certificate button: what its handler waits for, its last word
    acme,           \* the daemon's issuance: [who, phase]
    away,           \* the page has left for the new admin path
    settingActs, setbacks,  \* counters behind the bounds
    applied, mixed, \* ghosts: surfaces certified since their run began; whose poll saw another's
    typed, blind,   \* ghosts: values typed into the Telegram form; it was saved before it was filled
    amiss           \* ghost: an answer was lost or overtook another, or two switches were in flight

pageState == <<settings, deadPath, totp, config, box, teleForm>>
diagVars == <<diagRunning, diagShown, diagRuns>>
acmeVars == <<issue, verdict, acme, applied, mixed>>
telegramGhosts == <<typed, blind>>
settingsOnly == <<pageState, posts, diagVars, acmeVars, away, settingActs, setbacks,
                  telegramGhosts, amiss>>
settingsVars == <<dialogVars, settingsOnly>>

PostKinds == {"rotate", "bind", "restart", "upstream", "diag", "teleload", "telesave", "path", "read"}
Setting == [key : Nat, bind : BOOLEAN, domain : BOOLEAN, tele : 0 .. 2]
SettingPost == [st : {"idle", "sent", "ok", "refused", "lost"}, kind : PostKinds, nth : Nat,
                bind : BOOLEAN, tele : 0 .. 2, run : Nat, who : Surfaces, answer : Setting]

SettingsTypeOK ==
    /\ settings \in Setting /\ deadPath \in BOOLEAN /\ totp \in BOOLEAN
    /\ config \in [key : Nat, bind : BOOLEAN, domain : BOOLEAN] /\ box \in BOOLEAN
    /\ teleForm \in [val : 0 .. 2, loaded : BOOLEAN]
    /\ posts \in [SettingSlots -> SettingPost]
    /\ diagRunning \in BOOLEAN /\ diagShown \in Nat /\ diagRuns \in Nat
    /\ issue \in [Surfaces -> {"idle", "asked", "polling", "reading", "read"}]
    /\ verdict \in [Surfaces -> {"none", "issued", "failed", "unknown", "refused"}]
    /\ acme \in [who : Surfaces, phase : {"none", "running", "applying", "done", "failed"}]
    /\ away \in BOOLEAN /\ settingActs \in 0 .. MaxSettingActs /\ setbacks \in 0 .. MaxSetbacks
    /\ applied \subseteq Surfaces /\ mixed \subseteq Surfaces
    /\ typed \subseteq 0 .. 2 /\ blind \in BOOLEAN /\ amiss \in BOOLEAN

FirstSettings == [key |-> 1, bind |-> FALSE, domain |-> FALSE, tele |-> 1]
IdlePost == [st |-> "idle", kind |-> "read", nth |-> 0, bind |-> FALSE, tele |-> 0, run |-> 0,
             who |-> "panel", answer |-> FirstSettings]

\* The page has been booted; the Telegram form is being loaded, once and for all.
SettingsInit ==
    /\ DialogsInit
    /\ settings \in {[FirstSettings EXCEPT !.domain = d] : d \in BOOLEAN}
    /\ deadPath = FALSE /\ totp \in BOOLEAN
    /\ config = [key |-> 1, bind |-> FALSE, domain |-> settings.domain] /\ box = FALSE
    /\ teleForm = [val |-> 0, loaded |-> FALSE]
    /\ LET s == CHOOSE x \in SettingSlots : TRUE IN
       posts = [x \in SettingSlots |-> IF x = s THEN [IdlePost EXCEPT !.st = "sent", !.kind = "teleload"]
                                       ELSE IdlePost]
    /\ diagRunning = FALSE /\ diagShown = 0 /\ diagRuns = 0
    /\ issue = [p \in Surfaces |-> "idle"] /\ verdict = [p \in Surfaces |-> "none"]
    /\ acme = [who |-> "panel", phase |-> "none"] /\ away = FALSE
    /\ settingActs = 0 /\ setbacks = 0 /\ applied = {} /\ mixed = {}
    /\ typed = {} /\ blind = FALSE /\ amiss = FALSE

Question(kind) == [kind |-> kind, id |-> "panel"]
PostsQuiet == \A s \in SettingSlots : posts[s].st = "idle"
Pending(kind) == \E s \in SettingSlots : posts[s].st # "idle" /\ posts[s].kind = kind
SettingAct == ~away /\ settingActs < MaxSettingActs /\ settingActs' = settingActs + 1
Pressed == PageFree /\ SettingAct
PostSetting(s, kind, with) ==
    /\ posts[s].st = "idle"
    /\ posts' = [posts EXCEPT ![s] = [with EXCEPT !.st = "sent", !.kind = kind, !.nth = settingActs + 1]]

-----------------------------------------------------------------------------
(* What a dialog guards.                                                   *)

Guarded(kind) ==
    /\ Pressed /\ ShowDialog(Question(kind))
    /\ UNCHANGED <<pageState, posts, diagVars, acmeVars, away, setbacks, telegramGhosts, amiss>>

\* A handler that goes on from one dialog to the next.
AskOn(from, to) ==
    /\ promise[Question(from)] = "yes" /\ promise[Question(to)] = "none"
    /\ promise' = [Settle(promise, "no") EXCEPT ![Question(from)] = "none", ![Question(to)] = "open"]
    /\ active' = Question(to) /\ consented' = consented \ {Question(to)}
    /\ UNCHANGED <<modals, popovers, settingsOnly>>

GuardedPost(s, last, kind) ==
    /\ ~away /\ TakeAnswer(Question(last), "yes") /\ PostSetting(s, kind, IdlePost)
    /\ UNCHANGED <<pageState, diagVars, acmeVars, away, settingActs, setbacks, telegramGhosts, amiss>>

\* A variant that never asks for the code.
RotateUncoded(s) == GuardedPost(s, "password", "rotate")

\* Confirmation, the current password and, with a second factor, a code.
RotatePassword == AskOn("rotate", "password")
RotateCode     == totp /\ AskOn("password", "code")
RotateKey(s)   == GuardedPost(s, IF totp THEN "code" ELSE "password", "rotate")
Confirmed(s)   == \E kind \in {"restart", "upstream"} : GuardedPost(s, kind, kind)
Declined       == \E q \in SettingQuestions : TakeAnswer(q, "no") /\ UNCHANGED settingsOnly
SettingKeys    == (CancelDialog \/ ConfirmDialog \/ EscapeModal) /\ UNCHANGED settingsOnly

-----------------------------------------------------------------------------
(* The controls that ask nothing.                                          *)

\* The switch flips first; without a domain it flips back and nothing is sent.
TogglePublic(s) ==
    /\ Pressed
    /\ IF ~box /\ ~config.domain THEN UNCHANGED <<box, posts, amiss>>
       ELSE /\ box' = ~box /\ amiss' = (amiss \/ Pending("bind"))
            /\ PostSetting(s, "bind", [IdlePost EXCEPT !.bind = ~box])
    /\ UNCHANGED <<dialogVars, settings, deadPath, totp, config, teleForm, diagVars, acmeVars, away,
                   setbacks, telegramGhosts>>

TypeTelegram(v) ==
    /\ Pressed /\ v # teleForm.val /\ teleForm' = [teleForm EXCEPT !.val = v] /\ typed' = typed \cup {v}
    /\ UNCHANGED <<dialogVars, settings, deadPath, totp, config, box, posts, diagVars, acmeVars, away,
                   setbacks, blind, amiss>>

\* The whole form is sent, and the button disabled meanwhile.
SaveTelegram(s) ==
    /\ Pressed /\ ~Pending("telesave")
    /\ PostSetting(s, "telesave", [IdlePost EXCEPT !.tele = teleForm.val])
    /\ blind' = (blind \/ ~teleForm.loaded)
    /\ UNCHANGED <<dialogVars, pageState, diagVars, acmeVars, away, setbacks, typed, amiss>>

\* Behind the browser's own confirm, which stops the page; the button is disabled.
RegenAdminPath(s) ==
    /\ Pressed /\ ~Pending("path") /\ PostSetting(s, "path", IdlePost)
    /\ UNCHANGED <<dialogVars, pageState, diagVars, acmeVars, away, setbacks, telegramGhosts, amiss>>

\* A variant without the flag: every press starts a run.
RunEveryTime(s) ==
    /\ diagRunning' = TRUE /\ diagRuns' = diagRuns + 1 /\ diagShown' = 0
    /\ PostSetting(s, "diag", [IdlePost EXCEPT !.run = diagRuns + 1])

\* Opening the modal starts a run, and so does its button: one at a time.
RunFullDiagnostics(s) ==
    IF diagRunning THEN UNCHANGED <<posts, diagVars>>
    ELSE /\ diagRunning' = TRUE /\ diagRuns' = diagRuns + 1 /\ diagShown' = 0
         /\ PostSetting(s, "diag", [IdlePost EXCEPT !.run = diagRuns + 1])
Diagnose(s) ==
    /\ \/ PageFree /\ OpenModal("diagnostics")
       \/ InFront("diagnostics") /\ UNCHANGED dialogVars
    /\ SettingAct /\ RunFullDiagnostics(s)
    /\ UNCHANGED <<pageState, acmeVars, away, setbacks, telegramGhosts, amiss>>

-----------------------------------------------------------------------------
(* bindLEButton and the issuance it watches.                               *)

\* The button is disabled until its handler is done.
PressIssue(p) ==
    /\ Pressed /\ issue[p] = "idle" /\ issue' = [issue EXCEPT ![p] = "asked"]
    /\ verdict' = [verdict EXCEPT ![p] = "none"] /\ mixed' = mixed \ {p}
    /\ UNCHANGED <<dialogVars, pageState, posts, diagVars, acme, applied, away, setbacks, telegramGhosts, amiss>>

Gate == acme.phase \in {"running", "applying"}

\* A pair on disk is applied at once, a free gate starts a run; a taken one is a
\* refusal, which the panel's surface, whose domain is stored first, words as an
\* answer that went well.
IssueServed(p) ==
    /\ ~away /\ issue[p] = "asked" /\ ~deadPath
    /\ settings' = IF p = "panel" THEN [settings EXCEPT !.domain = TRUE] ELSE settings
    /\ \/ /\ issue' = [issue EXCEPT ![p] = "reading"] /\ verdict' = [verdict EXCEPT ![p] = "issued"]
          /\ applied' = applied \cup {p} /\ UNCHANGED <<acme, mixed>>
       \/ /\ ~Gate /\ acme' = [who |-> p, phase |-> "running"]
          /\ issue' = [issue EXCEPT ![p] = "polling"]
          /\ mixed' = (mixed \cup {q \in Surfaces : issue'[q] = "polling"}) \ {p}
          /\ applied' = applied \ {p} /\ UNCHANGED verdict
       \/ /\ Gate /\ verdict' = [verdict EXCEPT ![p] = "refused"]
          /\ issue' = [issue EXCEPT ![p] = IF p = "panel" THEN "reading" ELSE "idle"]
          /\ UNCHANGED <<acme, applied, mixed>>
    /\ UNCHANGED <<dialogVars, deadPath, totp, config, box, teleForm, posts, diagVars, away, settingActs,
                   setbacks, telegramGhosts, amiss>>

IssueFailed(p) ==
    /\ ~away /\ issue[p] = "asked" /\ (deadPath \/ setbacks < MaxSetbacks)
    /\ issue' = [issue EXCEPT ![p] = "idle"] /\ verdict' = [verdict EXCEPT ![p] = "refused"]
    /\ setbacks' = IF deadPath THEN setbacks ELSE setbacks + 1
    /\ UNCHANGED <<dialogVars, pageState, posts, diagVars, acme, away, settingActs, applied, mixed,
                   telegramGhosts, amiss>>

\* The manager's run ends before the pair is written and applied: for that time the
\* status says neither running nor 100.
AcmeStep ==
    /\ \/ acme.phase = "running" /\ \E to \in {"applying", "failed"} :
             acme' = [acme EXCEPT !.phase = to] /\ UNCHANGED applied
       \/ acme.phase = "applying" /\ \E to \in {"done", "failed"} :
             /\ acme' = [acme EXCEPT !.phase = to]
             /\ applied' = IF to = "done" THEN applied \cup {acme.who} ELSE applied
    /\ UNCHANGED <<dialogVars, pageState, posts, diagVars, issue, verdict, mixed, away, settingActs,
                   setbacks, telegramGhosts, amiss>>

\* A variant that takes a run without an error for one that succeeded.
VerdictIfNoError(phase) == IF phase = "failed" THEN "failed" ELSE "issued"

\* What a poll that ends the polling makes the page say.
VerdictOf(phase) == CASE phase = "failed" -> "failed" [] phase = "done" -> "issued" [] OTHER -> "unknown"

\* Every half second; an answer that is not there ends the polling like one that
\* says the run is over.
PollIssue(p) ==
    /\ ~away /\ issue[p] = "polling"
    /\ \/ /\ acme.phase # "running" /\ verdict' = [verdict EXCEPT ![p] = VerdictOf(acme.phase)]
          /\ UNCHANGED setbacks
       \/ /\ setbacks < MaxSetbacks /\ setbacks' = setbacks + 1
          /\ verdict' = [verdict EXCEPT ![p] = "unknown"]
    /\ issue' = [issue EXCEPT ![p] = "reading"]
    /\ UNCHANGED <<dialogVars, pageState, posts, diagVars, acme, away, settingActs, applied, mixed,
                   telegramGhosts, amiss>>

\* loadConfig, for which the handler waits.
ReadSettings(s, p) ==
    /\ ~away /\ issue[p] = "reading" /\ issue' = [issue EXCEPT ![p] = "read"]
    /\ PostSetting(s, "read", [IdlePost EXCEPT !.who = p])
    /\ UNCHANGED <<dialogVars, pageState, diagVars, verdict, acme, away, settingActs, setbacks, applied,
                   mixed, telegramGhosts, amiss>>

-----------------------------------------------------------------------------
(* The daemon, and the answers.                                            *)

Before(s, sts) == \E x \in SettingSlots : posts[x].st \in sts /\ posts[x].nth <= posts[s].nth /\ x # s

ServeSetting(s) ==
    LET k == posts[s] IN
    /\ ~away /\ k.st = "sent" /\ ~deadPath
    /\ settings' = CASE k.kind = "rotate" -> [settings EXCEPT !.key = @ + 1]
                     [] k.kind = "bind" -> [settings EXCEPT !.bind = k.bind]
                     [] k.kind = "telesave" -> [settings EXCEPT !.tele = k.tele]
                     [] OTHER -> settings
    /\ deadPath' = (k.kind = "path")
    /\ \/ posts' = [posts EXCEPT ![s].st = "ok", ![s].answer = settings'] /\ UNCHANGED setbacks
       \/ /\ setbacks < MaxSetbacks /\ setbacks' = setbacks + 1
          /\ posts' = [posts EXCEPT ![s].st = "lost"]
    /\ amiss' = (amiss \/ posts'[s].st = "lost" \/ Before(s, {"sent"}))
    /\ UNCHANGED <<dialogVars, totp, config, box, teleForm, diagVars, acmeVars, away, settingActs, telegramGhosts>>

RefuseSetting(s) ==
    /\ ~away /\ posts[s].st = "sent" /\ (deadPath \/ setbacks < MaxSetbacks)
    /\ posts' = [posts EXCEPT ![s].st = "refused"]
    /\ setbacks' = IF deadPath THEN setbacks ELSE setbacks + 1
    /\ amiss' = (amiss \/ posts[s].kind = "read")
    /\ UNCHANGED <<dialogVars, pageState, diagVars, acmeVars, away, settingActs, telegramGhosts>>

\* A variant that leaves the switch where a refused click put it.
ConfigTrusted(k) ==
    CASE k.kind = "rotate" /\ k.st = "ok" -> config' = [config EXCEPT !.key = k.answer.key] /\ UNCHANGED box
      [] k.kind = "bind" /\ k.st = "ok" -> config' = [config EXCEPT !.bind = k.answer.bind] /\ box' = config'.bind
      [] OTHER -> UNCHANGED <<config, box>>

\* The new key, or the bind, into the object; a change that was not confirmed puts
\* the switch back; a read replaces the object.
ConfigAnswered(k) ==
    CASE k.kind = "rotate" /\ k.st = "ok" -> config' = [config EXCEPT !.key = k.answer.key] /\ UNCHANGED box
      [] k.kind = "bind" /\ k.st = "ok" -> config' = [config EXCEPT !.bind = k.answer.bind] /\ box' = config'.bind
      [] k.kind = "bind" /\ k.st # "ok" -> box' = ~k.bind /\ UNCHANGED config
      [] k.kind = "read" /\ k.st = "ok" ->
            config' = [key |-> k.answer.key, bind |-> k.answer.bind, domain |-> k.answer.domain]
            /\ box' = config'.bind
      [] OTHER -> UNCHANGED <<config, box>>

\* Only values that are there fill the Telegram form, over what was typed.
TelegramAnswered(k) ==
    teleForm' = IF k.kind = "teleload" /\ k.st = "ok"
                THEN [val |-> IF k.answer.tele # 0 THEN k.answer.tele ELSE teleForm.val, loaded |-> TRUE]
                ELSE teleForm

SettingAnswered(s) ==
    LET k == posts[s] IN
    /\ ~away /\ k.st \in {"ok", "refused", "lost"} /\ posts' = [posts EXCEPT ![s] = IdlePost]
    /\ ConfigAnswered(k) /\ TelegramAnswered(k)
    /\ diagRunning' = (diagRunning /\ k.kind # "diag")
    /\ diagShown' = IF k.kind = "diag" THEN k.run ELSE diagShown
    /\ issue' = IF k.kind = "read" THEN [issue EXCEPT ![k.who] = "idle"] ELSE issue
    /\ away' = (k.kind = "path" /\ k.st = "ok")
    /\ amiss' = (amiss \/ Before(s, {"sent", "ok", "refused", "lost"}))
    /\ UNCHANGED <<dialogVars, settings, deadPath, totp, diagRuns, verdict, acme, settingActs, setbacks,
                   applied, mixed, telegramGhosts>>

SettingsNext ==
    \/ \E kind \in {"rotate", "restart", "upstream"} : Guarded(kind)
    \/ RotatePassword
    \/ RotateCode
    \/ Declined
    \/ SettingKeys
    \/ \E v \in 0 .. 2 : TypeTelegram(v)
    \/ \E p \in Surfaces : PressIssue(p) \/ IssueServed(p) \/ IssueFailed(p) \/ PollIssue(p)
    \/ AcmeStep
    \/ \E s \in SettingSlots :
          \/ RotateKey(s)
          \/ Confirmed(s)
          \/ TogglePublic(s)
          \/ SaveTelegram(s)
          \/ RegenAdminPath(s)
          \/ Diagnose(s)
          \/ \E p \in Surfaces : ReadSettings(s, p)
          \/ ServeSetting(s)
          \/ RefuseSetting(s)
          \/ SettingAnswered(s)

SettingsSpec == SettingsInit /\ [][SettingsNext]_settingsVars

-----------------------------------------------------------------------------
(* What the pages promise.                                                 *)

\* The master key is rotated, the engine restarted or an upstream removed only
\* after every dialog that guards it was confirmed: for a rotation the warning,
\* the password and, with a second factor, the code.
Authorised == [][\A s \in SettingSlots : LET k == posts'[s] IN
    k # posts[s] /\ k.st = "sent" =>
        /\ k.kind \in {"restart", "upstream"} => Question(k.kind) \in consented
        /\ k.kind = "rotate" =>
              /\ Question("rotate") \in consented /\ Question("password") \in consented
              /\ totp => Question("code") \in consented]_settingsVars

\* Once everything is answered, in order and with nothing lost, the key and the
\* bind the page shows are the daemon's, through refusals, reads after an issuance
\* and rotations in between; and a Telegram form that had been filled when it was
\* saved never put a value into the daemon that the operator did not type.
SettingsAgree ==
    /\ PostsQuiet /\ ~amiss /\ ~deadPath =>
          config.key = settings.key /\ config.bind = settings.bind /\ box = config.bind
    /\ ~blind => settings.tele \in typed \cup {FirstSettings.tele}

\* Two diagnostic runs answer in any order: the report on the screen is never that
\* of a run before the last one started.
LatestReport == diagShown # 0 => diagShown = diagRuns

\* Three buttons share one issuance and one status: the page says "issued and
\* applied", or "failed", of a surface only if that is what became of the run the
\* press began, unless another surface's run started before it looked.
IssueVerdict == \A p \in Surfaces \ mixed :
    /\ verdict[p] = "issued" => p \in applied
    /\ verdict[p] = "failed" => p \notin applied
=============================================================================
