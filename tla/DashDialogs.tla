------------------------------ MODULE DashDialogs ------------------------------
(***************************************************************************)
(* What stands in front of the dashboard's pages (web/js/app.js): the      *)
(* dialog showDialog builds, one at a time, whose promise a handler waits  *)
(* for, and the static modals, which hide and show by a class and share    *)
(* one Escape key.  The pages that ask and open extend this module.        *)
(***************************************************************************)
EXTENDS Naturals, FiniteSets

CONSTANTS
    Questions,      \* what a dialog can ask: [kind, id]
    NoQuestion

ASSUME DialogsAssumption == NoQuestion \notin Questions

VARIABLES
    active,         \* activeDialog: the question on the screen
    promise,        \* question -> what its promise is: nobody waits, open, settled
    modals,         \* the static modals on the screen
    popovers,       \* those with their date picker open
    consented       \* ghost: questions whose confirm button the operator pressed

dialogVars == <<active, promise, modals, popovers, consented>>

\* MODAL_IDS in document order: with equal z-index a later one paints on top.
ModalOrder == <<"login", "password", "diagnostics", "edit", "add", "created", "policy">>
ModalNames == {ModalOrder[i] : i \in DOMAIN ModalOrder}

DialogsTypeOK ==
    /\ active \in Questions \cup {NoQuestion}
    /\ promise \in [Questions -> {"none", "open", "yes", "no"}]
    /\ modals \subseteq ModalNames /\ popovers \subseteq modals
    /\ consented \subseteq Questions

DialogsInit ==
    /\ active = NoQuestion /\ promise = [q \in Questions |-> "none"]
    /\ modals = {} /\ popovers = {} /\ consented = {}

\* finish of the dialog on the screen, and then what follows it there.
Settle(p, result) == [q \in Questions |-> IF q = active THEN result ELSE p[q]]

\* A dialog that is already open is cancelled first.
ShowDialog(q) ==
    /\ promise[q] = "none"
    /\ promise' = [Settle(promise, "no") EXCEPT ![q] = "open"]
    /\ active' = q /\ consented' = consented \ {q}
    /\ UNCHANGED <<modals, popovers>>

\* A variant in which every way out of a dialog answers yes.
CancelConsents ==
    /\ active # NoQuestion
    /\ promise' = Settle(promise, "yes") /\ active' = NoQuestion
    /\ UNCHANGED <<modals, popovers, consented>>

\* Cancel, Escape or a press on the backdrop.
CancelDialog ==
    /\ active # NoQuestion
    /\ promise' = Settle(promise, "no") /\ active' = NoQuestion
    /\ UNCHANGED <<modals, popovers, consented>>

\* The submit button; a value that does not pass leaves a prompt where it is.
ConfirmDialog ==
    /\ active # NoQuestion
    /\ promise' = Settle(promise, "yes") /\ active' = NoQuestion
    /\ consented' = consented \cup {active}
    /\ UNCHANGED <<modals, popovers>>

\* The handler that waited reads its answer.
TakeAnswer(q, result) ==
    /\ promise[q] = result /\ promise' = [promise EXCEPT ![q] = "none"]
    /\ UNCHANGED <<active, modals, popovers, consented>>

-----------------------------------------------------------------------------
(* The static modals.                                                      *)

Shown(shown) ==
    /\ modals' = shown /\ popovers' = popovers \cap shown
    /\ UNCHANGED <<active, promise, consented>>
OpenModal(m) == Shown(modals \cup {m})
CloseModal(m) == Shown(modals \ {m})

\* Nobody reaches the page behind a dialog or a modal, or before the handler whose
\* dialog was settled has gone on.
PageFree == active = NoQuestion /\ modals = {} /\ \A q \in Questions : promise[q] = "none"
TopmostOpenModal ==
    ModalOrder[CHOOSE i \in DOMAIN ModalOrder : ModalOrder[i] \in modals
                   /\ \A j \in DOMAIN ModalOrder : ModalOrder[j] \in modals => j <= i]
InFront(m) == active = NoQuestion /\ m \in modals /\ TopmostOpenModal = m

\* modalCloseControl: the login gate declares none.
ModalCloseControl(m) == m # "login"

ToggleDatePicker(m) ==
    /\ InFront(m) /\ m \in {"edit", "add"}
    /\ popovers' = IF m \in popovers THEN popovers \ {m} ELSE popovers \cup {m}
    /\ UNCHANGED <<active, promise, modals, consented>>

\* The document's Escape: a dialog owns the key; then the date picker of the modal
\* on top, then that modal's own close control, if it has one in sight.
EscapeModal ==
    /\ active = NoQuestion /\ modals # {}
    /\ LET m == TopmostOpenModal IN
       IF m \in popovers
       THEN popovers' = popovers \ {m} /\ UNCHANGED modals
       ELSE ModalCloseControl(m) /\ modals' = modals \ {m} /\ UNCHANGED popovers
    /\ UNCHANGED <<active, promise, consented>>

-----------------------------------------------------------------------------
(* A handler that has asked is never left waiting for a dialog that is not *)
(* on the screen, and no dialog is there that nobody waits for.            *)
OneDialog == \A q \in Questions : promise[q] = "open" <=> q = active
=============================================================================
