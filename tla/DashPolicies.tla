----------------------------- MODULE DashPolicies -----------------------------
(***************************************************************************)
(* The operator's custom policies on the rules page (web/js/app.js): the   *)
(* list the page last read, the cards drawn from it, the one form that     *)
(* adds and edits, the switch and the delete button on each card.  Every   *)
(* save sends the whole policy; the switch sends the copy the page holds.  *)
(***************************************************************************)
EXTENDS Naturals, FiniteSets

CONSTANTS
    Policies,       \* keys a policy can have
    Bodies,         \* name, action and domains of a policy
    Blank,          \* an empty form field
    PolicySlots,    \* slots for requests under way
    MaxActs, MaxErrors  \* bounds: the operator's acts; requests that fail

ASSUME PoliciesAssumption ==
    Blank \notin Policies \cup Bodies /\ MaxActs \in Nat /\ MaxErrors \in Nat

VARIABLES
    cache,          \* currentCustomPolicies: key -> policy, or Absent
    boxes, drawn,   \* the switch on each card; how often the cards were drawn
    form,           \* the modal: [open, key, body, on]
    asks,           \* what each slot holds
    store,          \* the daemon's policies
    acts, errors,   \* counters behind the bounds
    intended,       \* ghost: each policy as the operator last asked for it
    adding,         \* ghost: the form was opened to add, not to edit
    crossed         \* ghost: a request was sent while another was under way

policyVars == <<cache, boxes, drawn, form, asks, store, acts, errors, intended, adding, crossed>>

Policy == [body : Bodies, on : BOOLEAN]
Absent == [body |-> Blank, on |-> FALSE]
Table  == [Policies -> Policy \cup {Absent}]
Ask == [st : {"idle", "sent", "ok", "bad"}, kind : {"save", "toggle", "delete", "list"},
        key : Policies, policy : Policy \cup {Absent}, epoch : Nat, list : Table]

PoliciesTypeOK ==
    /\ cache \in Table /\ store \in Table /\ intended \in Table
    /\ boxes \in [Policies -> BOOLEAN] /\ drawn \in Nat
    /\ form \in [open : BOOLEAN, key : Policies \cup {Blank}, body : Bodies \cup {Blank}, on : BOOLEAN]
    /\ asks \in [PolicySlots -> Ask]
    /\ acts \in 0 .. MaxActs /\ errors \in 0 .. MaxErrors
    /\ adding \in BOOLEAN /\ crossed \in BOOLEAN

IdleAsk == [st |-> "idle", kind |-> "list", key |-> CHOOSE k \in Policies : TRUE,
            policy |-> Absent, epoch |-> 0, list |-> [k \in Policies |-> Absent]]
AsksQuiet == \A s \in PolicySlots : asks[s].st = "idle"
Act == acts < MaxActs /\ acts' = acts + 1
PostPolicy(s, kind, k, policy) ==
    /\ asks[s].st = "idle"
    /\ asks' = [asks EXCEPT ![s].st = "sent", ![s].kind = kind, ![s].key = k,
                            ![s].policy = policy, ![s].epoch = drawn]
    /\ crossed' = (crossed \/ ~AsksQuiet)

PoliciesInit ==
    /\ store \in {t \in Table : \E k \in Policies : t[k] = Absent}
    /\ cache = store /\ intended = store /\ boxes = [k \in Policies |-> store[k].on]
    /\ drawn = 1 /\ form = [open |-> FALSE, key |-> Blank, body |-> Blank, on |-> TRUE]
    /\ asks = [s \in PolicySlots |-> IdleAsk]
    /\ acts = 0 /\ errors = 0 /\ adding = FALSE /\ crossed = FALSE

-----------------------------------------------------------------------------
(* The form.                                                               *)

\* A variant that opens the form with the key the last edit left in it.
OpenAddKeepsKey ==
    /\ Act /\ ~form.open /\ adding' = TRUE
    /\ form' = [form EXCEPT !.open = TRUE, !.body = Blank, !.on = TRUE]
    /\ UNCHANGED <<cache, boxes, drawn, asks, store, errors, intended, crossed>>

OpenAdd ==
    /\ Act /\ ~form.open /\ adding' = TRUE
    /\ form' = [open |-> TRUE, key |-> Blank, body |-> Blank, on |-> TRUE]
    /\ UNCHANGED <<cache, boxes, drawn, asks, store, errors, intended, crossed>>

\* The edit button of a card fills the form from the list the page holds.
OpenPolicy(k) ==
    /\ Act /\ ~form.open /\ cache[k] # Absent /\ adding' = FALSE
    /\ form' = [open |-> TRUE, key |-> k, body |-> cache[k].body, on |-> cache[k].on]
    /\ UNCHANGED <<cache, boxes, drawn, asks, store, errors, intended, crossed>>

TypePolicy(b) ==
    /\ form.open /\ form.body # b /\ form' = [form EXCEPT !.body = b]
    /\ UNCHANGED <<cache, boxes, drawn, asks, store, acts, errors, intended, adding, crossed>>

CloseForm ==
    /\ form.open /\ form' = [form EXCEPT !.open = FALSE]
    /\ UNCHANGED <<cache, boxes, drawn, asks, store, acts, errors, intended, adding, crossed>>

\* 'custom_policy_' and the clock: a key nobody has.
NewKey(k) ==
    /\ cache[k] = Absent /\ store[k] = Absent
    /\ \A s \in PolicySlots : asks[s].st # "idle" => asks[s].key # k

\* The policy the operator means: the one whose edit button was pressed, or a new one.
Meant(k) == IF ~adding \/ form.key = Blank THEN {k} ELSE {x \in Policies : NewKey(x)}

\* An empty name or list of domains is turned back; nothing else holds a second
\* submission up.  The key is the form's, or a new one.
SubmitForm(s, k) ==
    /\ Act /\ form.open /\ form.body # Blank
    /\ IF form.key # Blank THEN k = form.key ELSE NewKey(k)
    /\ PostPolicy(s, "save", k, [body |-> form.body, on |-> form.on])
    /\ \E w \in Meant(k) : intended' = [intended EXCEPT ![w] = [body |-> form.body, on |-> form.on]]
    /\ UNCHANGED <<cache, boxes, drawn, form, store, errors, adding>>

-----------------------------------------------------------------------------
(* The cards.                                                              *)

\* The switch changes the page's copy in place and sends that whole copy.
TogglePolicy(s, k) ==
    /\ Act /\ ~form.open /\ cache[k] # Absent
    /\ boxes' = [boxes EXCEPT ![k] = ~@] /\ cache' = [cache EXCEPT ![k].on = boxes'[k]]
    /\ PostPolicy(s, "toggle", k, cache'[k])
    /\ intended' = [intended EXCEPT ![k] = IF @ = Absent THEN @ ELSE [@ EXCEPT !.on = boxes'[k]]]
    /\ UNCHANGED <<drawn, form, store, errors, adding>>

\* Behind its confirmation.
DeletePolicy(s, k) ==
    /\ Act /\ ~form.open /\ cache[k] # Absent
    /\ PostPolicy(s, "delete", k, Absent)
    /\ intended' = [intended EXCEPT ![k] = Absent]
    /\ UNCHANGED <<cache, boxes, drawn, form, store, errors, adding>>

-----------------------------------------------------------------------------
(* The daemon, and the answers.                                            *)

DeliverAsk(s) ==
    /\ asks[s].st = "sent"
    /\ \/ /\ store' = IF asks[s].kind = "list" THEN store
                      ELSE [store EXCEPT ![asks[s].key] = asks[s].policy]
          /\ asks' = [asks EXCEPT ![s].st = "ok",
                                          ![s].list = IF asks[s].kind = "list" THEN store ELSE @] /\ UNCHANGED errors
       \/ /\ errors < MaxErrors /\ errors' = errors + 1
          /\ asks' = [asks EXCEPT ![s].st = "bad"] /\ UNCHANGED store
    /\ UNCHANGED <<cache, boxes, drawn, form, acts, intended, adding, crossed>>

\* A confirmed save closes the form, whatever is in it by now, and reads the list
\* again; so does a confirmed deletion.  A refused one only says so.
SaveAnswered(s) ==
    /\ asks[s].st \in {"ok", "bad"} /\ asks[s].kind \in {"save", "delete"}
    /\ asks' = IF asks[s].st = "ok"
               THEN [asks EXCEPT ![s] = [IdleAsk EXCEPT !.st = "sent"]]
               ELSE [asks EXCEPT ![s] = IdleAsk]
    /\ form' = IF asks[s].st = "ok" /\ asks[s].kind = "save" THEN [form EXCEPT !.open = FALSE] ELSE form
    /\ UNCHANGED <<cache, boxes, drawn, store, acts, errors, intended, adding, crossed>>

\* A refused switch is turned back on the card it was clicked on; the page's copy
\* of the policy is not.
ToggleAnswered(s) ==
    /\ asks[s].st \in {"ok", "bad"} /\ asks[s].kind = "toggle"
    /\ asks' = [asks EXCEPT ![s] = IdleAsk]
    /\ boxes' = IF asks[s].st = "bad" /\ asks[s].epoch = drawn
                THEN [boxes EXCEPT ![asks[s].key] = ~@] ELSE boxes
    /\ UNCHANGED <<cache, drawn, form, store, acts, errors, intended, adding, crossed>>

\* loadCustomPolicies: a list that arrived replaces the page's and draws the cards.
PoliciesRead(s) ==
    /\ asks[s].st \in {"ok", "bad"} /\ asks[s].kind = "list"
    /\ asks' = [asks EXCEPT ![s] = IdleAsk]
    /\ IF asks[s].st = "ok"
       THEN /\ cache' = asks[s].list /\ drawn' = drawn + 1
            /\ boxes' = [k \in Policies |-> asks[s].list[k].on]
       ELSE UNCHANGED <<cache, drawn, boxes>>
    /\ UNCHANGED <<form, store, acts, errors, intended, adding, crossed>>

PoliciesNext ==
    \/ OpenAdd
    \/ CloseForm
    \/ \E k \in Policies : OpenPolicy(k)
    \/ \E b \in Bodies : TypePolicy(b)
    \/ \E s \in PolicySlots, k \in Policies :
          SubmitForm(s, k) \/ TogglePolicy(s, k) \/ DeletePolicy(s, k)
    \/ \E s \in PolicySlots :
          DeliverAsk(s) \/ SaveAnswered(s) \/ ToggleAnswered(s) \/ PoliciesRead(s)

PoliciesSpec == PoliciesInit /\ [][PoliciesNext]_policyVars

-----------------------------------------------------------------------------
(* What the form and the cards promise.                                    *)

\* One form serves the adding and the editing of every policy, and the cards send
\* copies: as long as the operator lets each request finish and none fails, every
\* policy is what was last asked of that policy and no other, on the daemon, in the
\* page's list and on the cards.
PolicyIntent == AsksQuiet /\ errors = 0 /\ ~crossed =>
    /\ store = intended /\ cache = store
    /\ \A k \in Policies : store[k] # Absent => boxes[k] = store[k].on
=============================================================================
