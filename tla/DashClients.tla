------------------------------ MODULE DashClients ------------------------------
(***************************************************************************)
(* The clients page (web/js/app.js): the list the page last read and the   *)
(* grid drawn from it, the search box, the cards' buttons, some behind a   *)
(* dialog, the form that creates and the form that edits.  Every handler   *)
(* sends one request and, once it is confirmed, reads the list again; a    *)
(* request under way keeps a slot.  The daemon's answers are modelled from *)
(* service/client_service.go.                                              *)
(***************************************************************************)
EXTENDS DashDialogs, Sequences

CONSTANTS
    Clients,        \* accounts that can exist
    ClientSlots,    \* slots for requests under way
    MaxUuid,        \* UUIDs the daemon can issue
    MaxClientActs, MaxTrouble   \* bounds: the operator's acts; requests that go wrong

ASSUME ClientsAssumption ==
    /\ Clients # {} /\ MaxUuid \in Nat /\ MaxClientActs \in Nat /\ MaxTrouble \in Nat
    /\ [kind : {"delete", "setip", "removeip"}, id : Clients] \subseteq Questions

VARIABLES
    accounts,       \* the daemon's records
    issued,         \* the UUIDs it has issued
    clientsData,    \* clientsDataCache: the list last read, or Unread
    grid,           \* what #clients-list shows
    search,         \* what is typed: nothing, or a word no client matches
    keystroke,      \* the debounce of the search box is running
    editing,        \* the edit form: [id, body]
    creating,       \* the create form's button is disabled
    calling,        \* what each slot holds
    clientActs, trouble,    \* counters behind the bounds
    served,         \* ghost: the slots that hold a list, oldest first
    doubt,          \* ghost: an answer was lost, a list not read or overtaken
    dead            \* ghost: UUIDs replaced by regeneration

clientsOnly == <<accounts, issued, clientsData, grid, search, keystroke, editing, creating,
              calling, clientActs, trouble, served, doubt, dead>>
clientVars == <<dialogVars, clientsOnly>>

Account == [uuid : 1 .. MaxUuid, on : BOOLEAN, ip : BOOLEAN]
NoAccount == [uuid |-> 0, on |-> FALSE, ip |-> FALSE]
List == [Clients -> Account \cup {NoAccount}]
Unread == [c \in {} |-> NoAccount]
Kinds == {"list", "addlist", "renew", "toggle", "delete", "setip", "removeip", "add", "regen", "reset", "save"}
Call == [st : {"idle", "sent", "ok", "refused", "lost", "expired"}, kind : Kinds, id : Clients,
         body : [uuid : 0 .. MaxUuid, on : BOOLEAN, ip : BOOLEAN], list : List \cup {Unread}]

ClientsTypeOK ==
    /\ accounts \in List /\ issued \in 0 .. MaxUuid /\ clientsData \in List \cup {Unread}
    /\ grid \in {"loading", "cards", "none", "nomatch", "refused", "offline"}
    /\ search \in BOOLEAN /\ keystroke \in BOOLEAN /\ creating \in BOOLEAN /\ doubt \in BOOLEAN
    /\ editing \in [id : Clients, body : Account \cup {NoAccount}]
    /\ calling \in [ClientSlots -> Call]
    /\ clientActs \in 0 .. MaxClientActs /\ trouble \in 0 .. MaxTrouble
    /\ served \in Seq(ClientSlots) /\ dead \subseteq 1 .. MaxUuid

IdleCall == [st |-> "idle", kind |-> "list", id |-> CHOOSE c \in Clients : TRUE,
             body |-> NoAccount, list |-> Unread]
Drawn(list, miss) ==
    IF \A c \in Clients : list[c] = NoAccount THEN "none" ELSE IF miss THEN "nomatch" ELSE "cards"

ClientsInit ==
    /\ DialogsInit
    /\ accounts \in {[c \in Clients |-> IF c \in S
                        THEN [uuid |-> 1, on |-> TRUE, ip |-> TRUE] ELSE NoAccount] :
                     S \in {T \in SUBSET Clients : Cardinality(T) <= 1}}
    /\ issued = 1 /\ clientsData = accounts /\ grid = Drawn(accounts, FALSE)
    /\ search = FALSE /\ keystroke = FALSE /\ creating = FALSE
    /\ editing = [id |-> CHOOSE c \in Clients : TRUE, body |-> NoAccount]
    /\ calling = [s \in ClientSlots |-> IdleCall]
    /\ clientActs = 0 /\ trouble = 0 /\ served = <<>> /\ doubt = FALSE /\ dead = {}

IsList(k) == k.kind \in {"list", "addlist"}
Post(s, kind, c, b) ==
    /\ calling[s].st = "idle"
    /\ calling' = [calling EXCEPT ![s] = [IdleCall EXCEPT !.st = "sent", !.kind = kind, !.id = c, !.body = b]]
Step == clientActs < MaxClientActs /\ clientActs' = clientActs + 1
OnPage == PageFree /\ Step

\* loadClients: a notice while the grid holds no cards, and the request.
LoadClients(g) == IF g = "cards" THEN g ELSE "loading"
Reading == [IdleCall EXCEPT !.st = "sent"]

-----------------------------------------------------------------------------
(* The search box.                                                         *)

SearchInput ==
    /\ OnPage /\ search' = ~search /\ keystroke' = (clientsData # Unread)
    /\ UNCHANGED <<dialogVars, accounts, issued, clientsData, grid, editing, creating,
                   calling, trouble, served, doubt, dead>>

\* 150 ms later the grid is drawn from the list the page holds by then.
SearchTimer ==
    /\ keystroke /\ keystroke' = FALSE /\ grid' = Drawn(clientsData, search)
    /\ UNCHANGED <<dialogVars, accounts, issued, clientsData, search, editing, creating,
                   calling, clientActs, trouble, served, doubt, dead>>

ClearSearch ==
    /\ PageFree /\ grid = "nomatch" /\ search' = FALSE /\ grid' = Drawn(clientsData, FALSE)
    /\ UNCHANGED <<dialogVars, accounts, issued, clientsData, keystroke, editing, creating,
                   calling, clientActs, trouble, served, doubt, dead>>

-----------------------------------------------------------------------------
(* The buttons of a card, which is there as long as the grid shows cards.  *)

CardOf(c) == grid = "cards" /\ clientsData[c] # NoAccount

\* The next state of a switch was written on the card when it was drawn.
CardAction(s, c) ==
    /\ OnPage /\ CardOf(c)
    /\ \/ Post(s, "renew", c, NoAccount)
       \/ Post(s, "toggle", c, [clientsData[c] EXCEPT !.on = ~@])
    /\ UNCHANGED <<dialogVars, accounts, issued, clientsData, grid, search, keystroke, editing,
                   creating, trouble, served, doubt, dead>>

\* Deleting, setting an address and removing it ask first.
CardAsks(q) ==
    /\ OnPage /\ CardOf(q.id) /\ (q.kind = "removeip" => clientsData[q.id].ip)
    /\ ShowDialog(q)
    /\ UNCHANGED <<accounts, issued, clientsData, grid, search, keystroke, editing, creating,
                   calling, trouble, served, doubt, dead>>

\* The handler goes on where it waited; the grid may be another by now.
CardConfirmed(s, q) ==
    /\ TakeAnswer(q, "yes") /\ Post(s, q.kind, q.id, NoAccount)
    /\ UNCHANGED <<accounts, issued, clientsData, grid, search, keystroke, editing, creating,
                   clientActs, trouble, served, doubt, dead>>
CardCancelled(q) == TakeAnswer(q, "no") /\ UNCHANGED clientsOnly

-----------------------------------------------------------------------------
(* The forms.                                                              *)

OpenAddForm == OnPage /\ OpenModal("add")
    /\ UNCHANGED <<accounts, issued, clientsData, grid, search, keystroke, editing, creating,
                   calling, trouble, served, doubt, dead>>

\* The button is disabled for the length of the request.
SubmitAdd(s, c, ip) ==
    /\ InFront("add") /\ ~creating /\ Step /\ creating' = TRUE
    /\ accounts[c] = NoAccount /\ \A t \in ClientSlots : calling[t].kind # "add" \/ calling[t].id # c
    /\ Post(s, "add", c, [NoAccount EXCEPT !.ip = ip])
    /\ UNCHANGED <<dialogVars, accounts, issued, clientsData, grid, search, keystroke, editing,
                   trouble, served, doubt, dead>>

\* The edit form is filled from the list the page holds, not from the daemon.
OpenEdit(c) ==
    /\ OnPage /\ CardOf(c) /\ OpenModal("edit")
    /\ editing' = [id |-> c, body |-> clientsData[c]]
    /\ UNCHANGED <<accounts, issued, clientsData, grid, search, keystroke, creating,
                   calling, trouble, served, doubt, dead>>

EditEnabled ==
    /\ InFront("edit") /\ Step /\ editing' = [editing EXCEPT !.body.on = ~@]
    /\ UNCHANGED <<dialogVars, accounts, issued, clientsData, grid, search, keystroke, creating,
                   calling, trouble, served, doubt, dead>>

\* Regenerate UUID, reset traffic and save, all for the client in the form.
EditPosts(s, kind) ==
    /\ InFront("edit") /\ Step
    /\ Post(s, kind, editing.id, IF kind = "save" THEN editing.body ELSE NoAccount)
    /\ UNCHANGED <<dialogVars, accounts, issued, clientsData, grid, search, keystroke, editing,
                   creating, trouble, served, doubt, dead>>

CloseButton(m) == m \in {"add", "edit", "created"} /\ InFront(m) /\ CloseModal(m) /\ UNCHANGED clientsOnly
PageKeys ==
    /\ CancelDialog \/ ConfirmDialog \/ EscapeModal \/ \E m \in {"edit", "add"} : ToggleDatePicker(m)
    /\ UNCHANGED clientsOnly

-----------------------------------------------------------------------------
(* The daemon: it refuses what concerns an account that is gone.           *)

Stored(k) ==
    CASE k.kind = "toggle" -> [accounts EXCEPT ![k.id].on = k.body.on]
      [] k.kind = "delete" -> [accounts EXCEPT ![k.id] = NoAccount]
      [] k.kind = "setip" -> [accounts EXCEPT ![k.id].ip = TRUE]
      [] k.kind = "removeip" -> [accounts EXCEPT ![k.id].ip = FALSE]
      [] k.kind = "add" -> [accounts EXCEPT ![k.id] = [k.body EXCEPT !.uuid = issued + 1, !.on = TRUE]]
      [] k.kind = "regen" -> [accounts EXCEPT ![k.id].uuid = issued + 1]
      [] k.kind = "save" -> [accounts EXCEPT ![k.id] = k.body]
      [] OTHER -> accounts

Serve(s) ==
    LET k == calling[s] IN
    /\ k.st = "sent" /\ (k.kind \in {"add", "regen"} => issued < MaxUuid)
    /\ IsList(k) \/ k.kind = "add" \/ accounts[k.id] # NoAccount
    /\ accounts' = Stored(k)
    /\ issued' = IF k.kind \in {"add", "regen"} THEN issued + 1 ELSE issued
    /\ dead' = IF k.kind = "regen" THEN dead \cup {accounts[k.id].uuid} ELSE dead
    /\ \/ /\ calling' = [calling EXCEPT ![s].st = "ok", ![s].body = accounts'[k.id],
                                        ![s].list = IF IsList(k) THEN accounts ELSE Unread]
          /\ served' = IF IsList(k) THEN Append(served, s) ELSE served
          /\ UNCHANGED <<trouble, doubt>>
       \/ /\ trouble < MaxTrouble /\ trouble' = trouble + 1 /\ doubt' = TRUE
          /\ calling' = [calling EXCEPT ![s].st = "lost"] /\ UNCHANGED served
    /\ UNCHANGED <<dialogVars, clientsData, grid, search, keystroke, editing, creating, clientActs>>

\* An account that is gone, a failure, or, for a list, a session that has run out.
Refuse(s) ==
    LET k == calling[s] IN
    /\ k.st = "sent"
    /\ \/ /\ ~IsList(k) /\ k.kind # "add" /\ accounts[k.id] = NoAccount
          /\ calling' = [calling EXCEPT ![s].st = "refused"] /\ UNCHANGED <<trouble, doubt>>
       \/ /\ trouble < MaxTrouble /\ trouble' = trouble + 1 /\ doubt' = (doubt \/ IsList(k))
          /\ \E st \in {"refused"} \cup (IF IsList(k) THEN {"expired"} ELSE {}) :
                calling' = [calling EXCEPT ![s].st = st]
    /\ UNCHANGED <<dialogVars, accounts, issued, clientsData, grid, search, keystroke, editing,
                   creating, clientActs, served, dead>>

-----------------------------------------------------------------------------
(* The answers.                                                            *)

Answered(s) == calling[s].st \in {"ok", "refused", "lost", "expired"}
Newer(s) ==
    LET at == {i \in DOMAIN served : served[i] = s} IN
    IF at = {} THEN served ELSE SubSeq(served, (CHOOSE i \in at : TRUE) + 1, Len(served))

\* Only a list that was read replaces the page's; each failure has a notice of its
\* own, and a session that has run out puts the login gate up, whatever is open.
ListAnswered(s) ==
    LET k == calling[s] IN
    /\ Answered(s) /\ IsList(k) /\ calling' = [calling EXCEPT ![s] = IdleCall]
    /\ creating' = (creating /\ k.kind # "addlist")
    /\ IF k.st = "expired" THEN OpenModal("login") ELSE UNCHANGED dialogVars
    /\ IF k.st = "ok"
       THEN /\ clientsData' = k.list /\ grid' = Drawn(k.list, search)
            /\ doubt' = (doubt \/ \A i \in DOMAIN served : served[i] # s) /\ served' = Newer(s)
       ELSE /\ grid' = CASE k.st = "refused" -> "refused" [] k.st = "lost" -> "offline" [] OTHER -> grid
            /\ served' = SelectSeq(served, LAMBDA t : t # s) /\ UNCHANGED <<clientsData, doubt>>
    /\ UNCHANGED <<accounts, issued, search, keystroke, editing, clientActs, trouble, dead>>

\* A variant that trusts its own change and reads nothing again.
ChangeUnread(s) ==
    LET k == calling[s] IN
    /\ Answered(s) /\ ~IsList(k) /\ k.kind # "regen"
    /\ calling' = [calling EXCEPT ![s] = IdleCall] /\ creating' = (creating /\ k.kind # "add")
    /\ IF k.st = "ok" /\ k.kind = "save" THEN CloseModal("edit") ELSE UNCHANGED dialogVars
    /\ UNCHANGED <<accounts, issued, clientsData, grid, search, keystroke, editing, clientActs, trouble,
                   served, doubt, dead>>

\* A confirmed change is followed by a fresh list; a refused one only says so.  A
\* confirmed save closes the form, a confirmed creation shows what it made.
ChangeAnswered(s) ==
    LET k == calling[s] IN
    /\ Answered(s) /\ ~IsList(k) /\ k.kind # "regen"
    /\ IF k.st = "ok"
       THEN /\ calling' = [calling EXCEPT ![s] =
                              [Reading EXCEPT !.kind = IF k.kind = "add" THEN "addlist" ELSE "list"]]
            /\ grid' = LoadClients(grid)
            /\ CASE k.kind = "save" -> CloseModal("edit")
                 [] k.kind = "add" -> Shown((modals \ {"add"}) \cup {"created"})
                 [] OTHER -> UNCHANGED dialogVars
            /\ UNCHANGED creating
       ELSE /\ calling' = [calling EXCEPT ![s] = IdleCall] /\ creating' = (creating /\ k.kind # "add")
            /\ UNCHANGED <<dialogVars, grid>>
    /\ UNCHANGED <<accounts, issued, clientsData, search, keystroke, editing, clientActs, trouble,
                   served, doubt, dead>>

\* The new UUID goes into the form, whichever client that is on by now; the list the
\* page holds keeps the old one.
RegenAnswered(s) ==
    LET k == calling[s] IN
    /\ Answered(s) /\ k.kind = "regen" /\ calling' = [calling EXCEPT ![s] = IdleCall]
    /\ editing' = IF k.st = "ok" THEN [editing EXCEPT !.body.uuid = k.body.uuid] ELSE editing
    /\ UNCHANGED <<dialogVars, accounts, issued, clientsData, grid, search, keystroke, creating,
                   clientActs, trouble, served, doubt, dead>>

\* The operator signs in again at the gate, and the page is booted.
SignInAgain(s) ==
    /\ InFront("login") /\ CloseModal("login")
    /\ calling[s].st = "idle" /\ calling' = [calling EXCEPT ![s] = Reading]
    /\ grid' = LoadClients(grid)
    /\ UNCHANGED <<accounts, issued, clientsData, search, keystroke, editing, creating, clientActs,
                   trouble, served, doubt, dead>>

ClientsNext ==
    \/ SearchInput
    \/ SearchTimer
    \/ ClearSearch
    \/ OpenAddForm
    \/ EditEnabled
    \/ PageKeys
    \/ \E m \in ModalNames : CloseButton(m)
    \/ \E c \in Clients : OpenEdit(c)
    \/ \E k \in {"delete", "setip", "removeip"}, c \in Clients :
          CardAsks([kind |-> k, id |-> c]) \/ CardCancelled([kind |-> k, id |-> c])
    \/ \E s \in ClientSlots :
          \/ \E c \in Clients : CardAction(s, c)
          \/ \E k \in {"delete", "setip", "removeip"}, c \in Clients :
                CardConfirmed(s, [kind |-> k, id |-> c])
          \/ \E c \in Clients, ip \in BOOLEAN : SubmitAdd(s, c, ip)
          \/ \E kind \in {"regen", "reset", "save"} : EditPosts(s, kind)
          \/ Serve(s)
          \/ Refuse(s)
          \/ ListAnswered(s)
          \/ ChangeAnswered(s)
          \/ RegenAnswered(s)
          \/ SignInAgain(s)

ClientsSpec == ClientsInit /\ [][ClientsNext]_clientVars

-----------------------------------------------------------------------------
(* What the page promises.                                                 *)

CallsQuiet == \A s \in ClientSlots : calling[s].st = "idle"

\* Blank space where the list was reads as "my subscribers are gone": once every
\* request is answered, none was lost and no list overtook a newer one, the page
\* holds the daemon's list, an old UUID of a regeneration apart, and the grid shows
\* what that list and the search box say.
QuietPage == CallsQuiet /\ ~doubt =>
    /\ \A c \in Clients :
          LET shown == clientsData[c] IN
          /\ shown.on = accounts[c].on /\ shown.ip = accounts[c].ip
          /\ shown.uuid = accounts[c].uuid \/ shown.uuid \in dead
    /\ ~keystroke => grid = Drawn(clientsData, search)

\* What cuts a subscriber off is only ever sent after the operator pressed the
\* confirm button of a dialog about that subscriber.
ConfirmedOnly == [][\A s \in ClientSlots : LET k == calling'[s] IN
    k # calling[s] /\ k.st = "sent" /\ k.kind \in {"delete", "setip", "removeip"}
        => [kind |-> k.kind, id |-> k.id] \in consented]_clientVars
=============================================================================
