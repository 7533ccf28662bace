------------------------------- MODULE Dashboard -------------------------------
(***************************************************************************)
(* The page as a whole: DashSession and the two feeds that a boot starts,  *)
(* the one-a-second poll of the statistics and the event stream of the     *)
(* live log (web/js/app.js).  A poll is a chain: a timer fires, a request  *)
(* settles, the next timer is armed.  The flag statsPollInFlight and the   *)
(* handle statsPollTimer are there to keep it a single one across hiding   *)
(* and showing the tab.  A stream is an EventSource opened with a ticket   *)
(* that is asked for first.                                                *)
(***************************************************************************)
EXTENDS DashSession

CONSTANTS
    Timers,         \* handles that setTimeout returns
    NoTimer,
    MaxTurns        \* bound: how often the tab is hidden or shown

ASSUME TimerAssumption == NoTimer \notin Timers /\ IsFiniteSet(Timers) /\ MaxTurns \in Nat

VARIABLES
    visible,        \* document.visibilityState = "visible"
    inFlight,       \* statsPollInFlight
    handle,         \* statsPollTimer
    timers,         \* timers that are armed, whoever still holds the handle
    polls,          \* requests for statistics that polls are waiting for
    listeners,      \* times startStatsPolling registered its listener
    source,         \* sseSource: "none", "open", "dead" (answered 401) or "closed"
    lost,           \* open event sources that no variable refers to any more
    tickets,        \* startLiveStream calls that wait for their ticket
    turns           \* counter behind MaxTurns

pollVars   == <<inFlight, handle, timers, polls>>
streamVars == <<source, lost, tickets>>
feedVars   == <<visible, pollVars, listeners, streamVars, turns>>
vars       == <<sessionVars, feedVars>>

FeedsTypeOK ==
    /\ visible \in BOOLEAN /\ inFlight \in BOOLEAN
    /\ timers \subseteq Timers /\ handle \in timers \cup {NoTimer}
    /\ polls \in Nat /\ listeners \in Nat
    /\ source \in {"none", "open", "dead", "closed"} /\ lost \in Nat /\ tickets \in Nat
    /\ turns \in 0 .. MaxTurns

TypeOK == SessionTypeOK /\ FeedsTypeOK

Init ==
    /\ SessionInit /\ visible = TRUE /\ turns = 0
    /\ inFlight = FALSE /\ handle = NoTimer /\ timers = {} /\ polls = 0
    /\ listeners = 0 /\ source = "none" /\ lost = 0 /\ tickets = 0

-----------------------------------------------------------------------------
(* The poll.                                                               *)

\* setTimeout, the last thing a poll does: the handle of an earlier timer that
\* is still armed is overwritten.
Fresh(armed) == CHOOSE t \in Timers : t \notin armed
Arm(armed) ==
    /\ Timers \ armed # {}
    /\ timers' = armed \cup {Fresh(armed)} /\ handle' = Fresh(armed)

\* A variant without the flag: the callers' timers are trusted to be one.
PollUnflagged(armed) ==
    IF ~visible' THEN timers' = armed /\ handle' = NoTimer /\ UNCHANGED <<inFlight, polls>>
    ELSE IF token' = 0 THEN Arm(armed) /\ UNCHANGED <<inFlight, polls>>
    ELSE timers' = armed /\ handle' = NoTimer /\ inFlight' = TRUE /\ polls' = polls + 1

\* pollStatsOnce up to its await, with the armed timers as they are once the
\* caller's has fired: nothing while a poll is in flight or the tab is hidden.
\* updateStats sends nothing without a token, and the poll then ends at once.
PollStatsOnce(armed) ==
    IF inFlight THEN timers' = armed /\ UNCHANGED <<inFlight, handle, polls>>
    ELSE IF ~visible' THEN timers' = armed /\ handle' = NoTimer /\ UNCHANGED <<inFlight, polls>>
    ELSE IF token' = 0 THEN Arm(armed) /\ UNCHANGED <<inFlight, polls>>
    ELSE timers' = armed /\ handle' = NoTimer /\ inFlight' = TRUE /\ polls' = polls + 1

TimerFires ==
    /\ UNCHANGED <<sessionVars, visible, listeners, streamVars, turns>>
    /\ \E t \in timers : PollStatsOnce(timers \ {t})

\* A variant that never arms the next timer.
PollsOnce ==
    /\ polls > 0 /\ polls' = polls - 1 /\ inFlight' = FALSE
    /\ UNCHANGED <<timers, handle>>
    /\ UNCHANGED <<sessionVars, visible, listeners, streamVars, turns>>

\* The request settles, well or badly: the flag is cleared, and the next timer
\* armed unless the tab was hidden meanwhile.
PollSettles ==
    /\ polls > 0 /\ polls' = polls - 1 /\ inFlight' = FALSE
    /\ IF visible THEN Arm(timers) ELSE UNCHANGED <<timers, handle>>
    /\ UNCHANGED <<sessionVars, visible, listeners, streamVars, turns>>

\* A variant that clears the timer and keeps its handle.
HideKeepsHandle ==
    /\ visible /\ turns < MaxTurns /\ turns' = turns + 1 /\ visible' = FALSE
    /\ timers' = IF listeners > 0 THEN timers \ {handle} ELSE timers
    /\ UNCHANGED <<sessionVars, inFlight, handle, polls, listeners, streamVars>>

\* The listeners are registered by a boot, one per boot; every one does the same,
\* so after the first the others find nothing to do.
Hide ==
    /\ visible /\ turns < MaxTurns /\ turns' = turns + 1 /\ visible' = FALSE
    /\ IF listeners > 0 THEN timers' = timers \ {handle} /\ handle' = NoTimer
                        ELSE UNCHANGED <<timers, handle>>
    /\ UNCHANGED <<sessionVars, inFlight, polls, listeners, streamVars>>

Show ==
    /\ ~visible /\ visible' = TRUE
    /\ UNCHANGED sessionVars
    /\ IF listeners > 0 /\ handle = NoTimer THEN PollStatsOnce(timers) ELSE UNCHANGED pollVars
    /\ UNCHANGED <<listeners, streamVars, turns>>

-----------------------------------------------------------------------------
(* The stream.                                                             *)

\* startLiveStream up to its await: the source at hand is closed, and a ticket
\* asked for; without a token the source is opened without one, and refused.
StartLiveStream ==
    IF token' = 0 THEN source' = "dead" /\ UNCHANGED <<lost, tickets>>
    ELSE /\ source' = IF source = "none" THEN "none" ELSE "closed"
         /\ tickets' = tickets + 1 /\ UNCHANGED lost

\* The ticket, or none: the new source takes the variable.  One that a second
\* call put there meanwhile stays open.  A refused source does not reconnect.
TicketAnswered ==
    /\ tickets > 0 /\ tickets' = tickets - 1
    /\ \/ source' = "open" /\ token \in live
       \/ source' = "dead" /\ (token \notin live \/ faults < MaxFaults)
    /\ lost' = lost + (IF source = "open" THEN 1 ELSE 0)
    /\ faults' = IF source' = "dead" /\ token \in live THEN faults + 1 ELSE faults
    /\ UNCHANGED <<token, stored, loginOpen, gate, booted, calls, live, minted, weak, loads,
                   gestures, slipped, visible, pollVars, listeners, turns>>

-----------------------------------------------------------------------------
(* The page.                                                               *)

\* The end of bootDashboard: startStatsPolling and startLiveStream.
StartFeeds ==
    /\ listeners' = listeners + 1
    /\ PollStatsOnce(timers) /\ StartLiveStream

BootStep(c) ==
    /\ Boot(c) /\ UNCHANGED <<visible, turns>>
    /\ IF BootEnds(c) THEN StartFeeds ELSE UNCHANGED <<pollVars, listeners, streamVars>>

\* A load of the page takes its timers, listeners and sources away.
PageLoads ==
    /\ (Reload /\ visible) \/ \E c \in Calls : FactorChanged(c)
    /\ inFlight' = FALSE /\ handle' = NoTimer /\ timers' = {} /\ polls' = 0
    /\ listeners' = 0 /\ source' = "none" /\ lost' = 0 /\ tickets' = 0
    /\ UNCHANGED <<visible, turns>>

Next ==
    \/ SessionStep /\ (gestures' # gestures => visible) /\ UNCHANGED feedVars
    \/ \E c \in Calls : BootStep(c)
    \/ PageLoads
    \/ TimerFires
    \/ PollSettles
    \/ Hide
    \/ Show
    \/ TicketAnswered

Spec == Init /\ [][Next]_vars

\* A request settles, a timer fires, an operator who hid the tab comes back.
Settles(c) ==
    /\ LoginAnswered(c) \/ SignedOut(c) \/ CredentialsAnswered(c) \/ FactorRefused(c)
    /\ UNCHANGED feedVars
Fairness ==
    /\ \A c \in Calls : WF_vars(Serve(c) /\ UNCHANGED feedVars)
    /\ \A c \in Calls : WF_vars(BootStep(c)) /\ WF_vars(Settles(c))
    /\ WF_vars(PageLoads) /\ WF_vars(TimerFires) /\ WF_vars(PollSettles) /\ WF_vars(TicketAnswered)

FairSpec == Spec /\ Fairness

-----------------------------------------------------------------------------
(* What the feeds promise.                                                 *)

\* However often the page boots, hides and shows, a daemon that is slow to answer
\* has one poll to answer (app.js:1337-1341).
OnePoll == polls <= 1 /\ (inFlight <=> polls = 1)

\* No handler drops the chain of callbacks: while the tab of a page that polls is
\* shown, a request is in flight or a timer armed (app.js:1343-1385).
PollsOn == listeners > 0 /\ visible => inFlight \/ timers # {}

\* And the chain comes round: a page that polls and is shown sends again and again.
PollingNeverStops ==
    listeners > 0 ~> (~visible \/ inFlight \/ token = 0 \/ listeners = 0)
=============================================================================
