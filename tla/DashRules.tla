------------------------------- MODULE DashRules -------------------------------
(***************************************************************************)
(* The rules page of the dashboard (web/js/app.js): preset switches, the   *)
(* quick profiles, the operator's own names, pinned records and DoH tokens.*)
(* The page holds the configuration as an object, draws it, and saves by   *)
(* reading the switches off the screen and the lists out of the object.    *)
(* The payload of a save shares its arrays with that object, and becomes   *)
(* the object's rules when the save is confirmed: a list is a reference    *)
(* into heap.  Adding a name pushes into the array in place, removing one  *)
(* puts a filtered copy there; the records are one object throughout.      *)
(* Saves are not serialised: several may be under way, and the network     *)
(* delivers requests and answers in any order.                             *)
(***************************************************************************)
EXTENDS Naturals, FiniteSets

CONSTANTS
    Presets,        \* preset switches
    Wired,          \* those whose change handler saves (app.js:3059-3075)
    Profile,        \* the switches a quick profile turns on
    Names,          \* domains for the proxied or the blocked list
    Records,        \* pinned records
    DohTokens,
    SaveSlots,      \* slots for requests under way
    Refs,           \* arrays
    MaxEdits, MaxRefusals   \* bounds: the operator's edits; saves that fail

ASSUME RulesAssumption ==
    /\ Wired \subseteq Presets /\ Profile \subseteq Presets
    /\ IsFiniteSet(SaveSlots) /\ IsFiniteSet(Refs) /\ Cardinality(Refs) > Cardinality(SaveSlots)
    /\ MaxEdits \in Nat /\ MaxRefusals \in Nat

VARIABLES
    rules,          \* currentConfig.rules: [sw, ref]
    heap,           \* what each array holds
    records,        \* the records object, shared by every payload
    dohTokens,      \* currentConfig.access.doh_tokens
    screen,         \* the page as drawn: [sw, names, tokens]
    saves,          \* what each slot holds
    server,         \* the daemon's [sw, names, records, tokens]
    edits, refusals,    \* counters behind the bounds
    wanted,         \* ghost: what the operator's last word on each of them was
    overlap,        \* ghost: a request was sent while another was under way
    overtaken       \* ghost: requests or answers were delivered out of order

rulesVars == <<rules, heap, records, dohTokens, screen, saves, server, edits,
               refusals, wanted, overlap, overtaken>>
ghostVars == <<overlap, overtaken>>

Switches == [Presets -> BOOLEAN]
Whole == [sw : Switches, names : SUBSET Names, records : SUBSET Records, tokens : SUBSET DohTokens]
Save  == [st : {"idle", "sent", "ok", "refused"}, what : {"rules", "access"}, nth : 0 .. MaxEdits,
          sw : Switches, ref : Refs, names : SUBSET Names, records : SUBSET Records,
          tokens : SUBSET DohTokens]

IdleSave == [st |-> "idle", what |-> "rules", nth |-> 0, sw |-> [p \in Presets |-> FALSE],
             ref |-> CHOOSE r \in Refs : TRUE, names |-> {}, records |-> {}, tokens |-> {}]
Quiet == \A s \in SaveSlots : saves[s].st = "idle"

RulesTypeOK ==
    /\ rules \in [sw : Switches, ref : Refs] /\ heap \in [Refs -> SUBSET Names]
    /\ records \subseteq Records /\ dohTokens \subseteq DohTokens
    /\ screen \in [sw : Switches, names : SUBSET Names, tokens : SUBSET DohTokens]
    /\ saves \in [SaveSlots -> Save] /\ server \in Whole /\ wanted \in Whole
    /\ edits \in 0 .. MaxEdits /\ refusals \in 0 .. MaxRefusals
    /\ overlap \in BOOLEAN /\ overtaken \in BOOLEAN

-----------------------------------------------------------------------------
(* Drawing and sending.                                                    *)

\* renderConfig, setSwitch, renderList: the whole page from the object, the
\* switches included, wherever they stand.
RenderConfig == screen' = [sw |-> rules'.sw, names |-> heap'[rules'.ref], tokens |-> dohTokens']

Send(s, body) ==
    /\ saves[s].st = "idle"
    /\ saves' = [saves EXCEPT ![s] = body]
    /\ edits < MaxEdits /\ edits' = edits + 1
    /\ overlap' = (overlap \/ ~Quiet)
    /\ UNCHANGED <<server, refusals, overtaken>>

\* A variant that sends the switches of the object.
SaveRulesUnseen(s, switches) ==
    Send(s, [st |-> "sent", nth |-> edits + 1, what |-> "rules", sw |-> rules.sw,
             ref |-> rules'.ref, names |-> heap'[rules'.ref], records |-> records', tokens |-> {}])

\* saveRules: the switches as the screen shows them, the lists as the object
\* holds them.
SaveRules(s, switches) ==
    Send(s, [st |-> "sent", nth |-> edits + 1, what |-> "rules", sw |-> switches,
             ref |-> rules'.ref, names |-> heap'[rules'.ref], records |-> records', tokens |-> {}])

SaveAccess(s) ==
    Send(s, [st |-> "sent", nth |-> edits + 1, what |-> "access", sw |-> rules.sw,
             ref |-> rules.ref, names |-> {}, records |-> {}, tokens |-> dohTokens'])

RulesInit ==
    \E sw \in Switches, ns \in SUBSET Names :
       LET r == CHOOSE x \in Refs : TRUE
       IN  /\ rules = [sw |-> sw, ref |-> r] /\ heap = [x \in Refs |-> ns]
           /\ records = {} /\ dohTokens = {}
           /\ screen = [sw |-> sw, names |-> ns, tokens |-> {}]
           /\ server = [sw |-> sw, names |-> ns, records |-> {}, tokens |-> {}]
           /\ wanted = server
           /\ saves = [s \in SaveSlots |-> IdleSave]
           /\ edits = 0 /\ refusals = 0 /\ overlap = FALSE /\ overtaken = FALSE

-----------------------------------------------------------------------------
(* The operator.                                                           *)

\* A click on a switch: the browser flips it, and the handler of those that have
\* one saves.
Toggle(p, s) ==
    LET flipped == [screen.sw EXCEPT ![p] = ~@]
    IN  /\ screen' = [screen EXCEPT !.sw = flipped]
        /\ wanted' = [wanted EXCEPT !.sw[p] = flipped[p]]
        /\ UNCHANGED <<rules, heap, records, dohTokens>>
        /\ IF p \in Wired THEN SaveRules(s, flipped)
           ELSE /\ edits < MaxEdits /\ edits' = edits + 1
                /\ UNCHANGED <<saves, server, refusals, ghostVars>>

\* A quick profile turns its switches on, and saves.
ActivateProfile(s) ==
    LET on(sw) == [p \in Presets |-> p \in Profile \/ sw[p]]
    IN  /\ screen' = [screen EXCEPT !.sw = on(@)] /\ wanted' = [wanted EXCEPT !.sw = on(@)]
        /\ UNCHANGED <<rules, heap, records, dohTokens>>
        /\ SaveRules(s, screen'.sw)

\* The list edits save with the switches on the screen, and then draw the page
\* from the object, whose switches are those of the last confirmed save.
AddName(n, s) ==
    /\ n \notin heap[rules.ref]
    /\ heap' = [heap EXCEPT ![rules.ref] = @ \cup {n}]
    /\ wanted' = [wanted EXCEPT !.names = @ \cup {n}]
    /\ UNCHANGED <<rules, records, dohTokens>>
    /\ SaveRules(s, screen.sw) /\ RenderConfig

InUse == {rules.ref} \cup {saves[s].ref : s \in {x \in SaveSlots : saves[x].st # "idle"}}

RemoveName(n, s) ==
    /\ n \in screen.names /\ Refs \ InUse # {}
    /\ LET r == CHOOSE x \in Refs : x \notin InUse
       IN  /\ rules' = [rules EXCEPT !.ref = r]
           /\ heap' = [heap EXCEPT ![r] = heap[rules.ref] \ {n}]
    /\ wanted' = [wanted EXCEPT !.names = @ \ {n}]
    /\ UNCHANGED <<records, dohTokens>>
    /\ SaveRules(s, screen.sw) /\ RenderConfig

\* A record is added to, or deleted from, the one object.
EditRecord(r, s) ==
    /\ records' = IF r \in records THEN records \ {r} ELSE records \cup {r}
    /\ wanted' = [wanted EXCEPT !.records = records']
    /\ UNCHANGED <<rules, heap, dohTokens>>
    /\ SaveRules(s, screen.sw) /\ RenderConfig

\* A token is added or removed, the access record sent; the page is drawn when
\* the answer is there, whatever it says.
EditToken(t, s) ==
    /\ dohTokens' = IF t \in screen.tokens THEN dohTokens \ {t} ELSE dohTokens \cup {t}
    /\ dohTokens' # dohTokens \/ t \in screen.tokens
    /\ wanted' = [wanted EXCEPT !.tokens = IF t \in screen.tokens THEN @ \ {t} ELSE @ \cup {t}]
    /\ UNCHANGED <<rules, heap, records, screen>>
    /\ SaveAccess(s)

-----------------------------------------------------------------------------
(* The network and the daemon.                                             *)

Older(s, sts) == \E x \in SaveSlots : saves[x].st \in sts /\ saves[x].nth < saves[s].nth

\* The daemon replaces what the body names.
Store(s) ==
    server' = IF saves[s].what = "access" THEN [server EXCEPT !.tokens = saves[s].tokens]
              ELSE [server EXCEPT !.sw = saves[s].sw, !.names = saves[s].names,
                                  !.records = saves[s].records]

\* The request is served; or it is refused or lost, and the connection may also
\* break after the daemon did its part.
Deliver(s) ==
    /\ saves[s].st = "sent"
    /\ \/ Store(s) /\ saves' = [saves EXCEPT ![s].st = "ok"] /\ UNCHANGED refusals
       \/ /\ refusals < MaxRefusals /\ refusals' = refusals + 1
          /\ saves' = [saves EXCEPT ![s].st = "refused"]
          /\ Store(s) \/ UNCHANGED server
    /\ overtaken' = (overtaken \/ Older(s, {"sent"}))
    /\ UNCHANGED <<rules, heap, records, dohTokens, screen, edits, wanted, overlap>>

\* A variant that confirms a save and keeps the rules it replaced.
RulesForgotten(s) ==
    /\ saves[s].st \in {"ok", "refused"} /\ saves[s].what = "rules"
    /\ saves' = [saves EXCEPT ![s] = IdleSave]
    /\ overtaken' = (overtaken \/ Older(s, {"sent", "ok", "refused"}))
    /\ UNCHANGED <<rules, heap, records, dohTokens, screen, server, edits, refusals, wanted, overlap>>

\* A confirmed save makes its payload the rules of the object; one that was not
\* leaves object and screen as they are.  The page is not drawn.
RulesAnswered(s) ==
    /\ saves[s].st \in {"ok", "refused"} /\ saves[s].what = "rules"
    /\ IF saves[s].st = "ok" THEN rules' = [sw |-> saves[s].sw, ref |-> saves[s].ref]
                             ELSE UNCHANGED rules
    /\ saves' = [saves EXCEPT ![s] = IdleSave]
    /\ overtaken' = (overtaken \/ Older(s, {"sent", "ok", "refused"}))
    /\ UNCHANGED <<heap, records, dohTokens, screen, server, edits, refusals, wanted, overlap>>

AccessAnswered(s) ==
    /\ saves[s].st \in {"ok", "refused"} /\ saves[s].what = "access"
    /\ saves' = [saves EXCEPT ![s] = IdleSave]
    /\ overtaken' = (overtaken \/ Older(s, {"sent", "ok", "refused"}))
    /\ UNCHANGED <<rules, heap, records, dohTokens, server, edits, refusals, wanted, overlap>>
    /\ RenderConfig

RulesNext ==
    \/ \E s \in SaveSlots, p \in Presets : Toggle(p, s)
    \/ \E s \in SaveSlots : ActivateProfile(s)
    \/ \E s \in SaveSlots, n \in Names : AddName(n, s) \/ RemoveName(n, s)
    \/ \E s \in SaveSlots, r \in Records : EditRecord(r, s)
    \/ \E s \in SaveSlots, t \in DohTokens : EditToken(t, s)
    \/ \E s \in SaveSlots : Deliver(s) \/ RulesAnswered(s) \/ AccessAnswered(s)

RulesSpec == RulesInit /\ [][RulesNext]_rulesVars

-----------------------------------------------------------------------------
(* What the page promises.                                                 *)

Held == [sw |-> rules.sw, names |-> heap[rules.ref], records |-> records, tokens |-> dohTokens]

\* Shared arrays and late answers: when every request has been delivered and
\* answered in the order it was sent, and none was refused, the page's object says
\* what the daemon stores, though saves overlapped.
SavedAgrees == Quiet /\ refusals = 0 /\ ~overtaken => Held = server

\* An operator who waits for each save, and keeps to switches that have a handler,
\* gets what was asked for, and nothing else moves: screen, object and daemon agree
\* with the operator's last word on every preset, name, record and token.
CalmEdits == Quiet /\ refusals = 0 /\ ~overlap =>
    /\ server.names = wanted.names /\ server.records = wanted.records
    /\ server.tokens = wanted.tokens /\ screen.tokens = dohTokens
    /\ screen.names = wanted.names
    /\ \A p \in Wired : wanted.sw[p] = server.sw[p] /\ screen.sw[p] = server.sw[p]
=============================================================================
