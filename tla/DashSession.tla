------------------------------ MODULE DashSession ------------------------------
(***************************************************************************)
(* The dashboard's hold on its session (web/js/app.js, modules/twofa.js):  *)
(* where the token lives, how a page starts, the sign-in form, the         *)
(* credential modal in its forced and its voluntary mode, sign-out, and    *)
(* the two settings (second factor, directory) that end every session.     *)
(* JavaScript runs a handler up to its next await: a handler that sends a  *)
(* request occupies a slot of Calls until the request settles, and its     *)
(* continuation is the action that takes the answer.  Slots settle in any  *)
(* order.  The daemon is Serve, Expire: it knows which tokens are live and *)
(* whether the stored password fails the policy.  Dashboard composes this  *)
(* module with the page's feeds.                                           *)
(***************************************************************************)
EXTENDS Naturals, FiniteSets

CONSTANTS
    Calls,          \* slots for handlers that wait for an answer
    MaxToken,       \* bound: tokens the daemon mints
    MaxGestures,    \* bound: what the operator does
    MaxFaults       \* bound: errors, lost connections and expiries

ASSUME SessionAssumption ==
    /\ Calls # {} /\ IsFiniteSet(Calls)
    /\ MaxToken \in Nat /\ MaxGestures \in Nat /\ MaxFaults \in Nat

VARIABLES
    token,          \* authToken; 0 is the empty string
    stored,         \* localStorage: the token under each of the two keys
    loginOpen,      \* the login modal is shown
    gate,           \* the credential modal: "closed", "forced" or "free"
    booted,         \* a boot of this page got past loadConfig to the end
    calls,          \* what each slot waits for
    live, minted,   \* the daemon: sessions that exist, tokens drawn so far
    weak,           \* the daemon: the stored password fails the policy
    loads,          \* page loads so far
    gestures, faults,   \* counters behind the bounds
    slipped         \* ghost: a rename sent from the voluntary modal closed a forced one

sessionVars == <<token, stored, loginOpen, gate, booted, calls, live, minted,
                 weak, loads, gestures, faults, slipped>>
daemonVars  == <<live, minted, weak, faults>>

Keys   == {"jozmozdns_token", "JozmozDNS_token"}
Tokens == 1 .. MaxToken
Reads  == {"me", "config", "clients", "policies"}
Ops    == Reads \cup {"idle", "login", "change", "rename", "logout", "factor"}
Answers == {"none", "ok", "refused", "failed", "lost"}
Call == [op : Ops, tok : 0 .. MaxToken, ans : Answers, gift : 0 .. MaxToken, weak : BOOLEAN]

Idle == [op |-> "idle", tok |-> 0, ans |-> "none", gift |-> 0, weak |-> FALSE]
Request(op, tok, w) == [Idle EXCEPT !.op = op, !.tok = tok, !.weak = w]
Put(c, call) == calls' = [calls EXCEPT ![c] = call]
Settled(c, op) == calls[c].op = op /\ calls[c].ans # "none"
Ok(c, op)      == calls[c].op = op /\ calls[c].ans = "ok"
Unauthorized(c) == calls[c].ans = "refused"

\* No static modal covers the page's own controls.
Clear   == ~loginOpen /\ gate = "closed"
Gesture == gestures < MaxGestures /\ gestures' = gestures + 1

SessionTypeOK ==
    /\ token \in 0 .. MaxToken /\ stored \in [Keys -> 0 .. MaxToken]
    /\ loginOpen \in BOOLEAN /\ gate \in {"closed", "forced", "free"}
    /\ booted \in BOOLEAN /\ calls \in [Calls -> Call]
    /\ live \subseteq Tokens /\ minted \in 0 .. MaxToken /\ weak \in BOOLEAN
    /\ loads \in Nat /\ gestures \in 0 .. MaxGestures /\ faults \in 0 .. MaxFaults
    /\ slipped \in BOOLEAN

-----------------------------------------------------------------------------
(* The page starts.                                                        *)

\* app.js:13: the first key wins.
StoredToken(st) ==
    IF st["jozmozdns_token"] # 0 THEN st["jozmozdns_token"] ELSE st["JozmozDNS_token"]

\* A fresh document: memory is what storage holds, and checkAuthAndBoot either
\* shows the login modal or boots.  What the old document waited for is gone.
Load(st) ==
    /\ token' = StoredToken(st) /\ stored' = st
    /\ loginOpen' = (token' = 0) /\ gate' = "closed" /\ booted' = FALSE
    /\ \E c \in Calls :
          calls' = [x \in Calls |-> IF x = c /\ token' # 0
                                    THEN Request("me", token', FALSE) ELSE Idle]
    /\ loads' = loads + 1

SessionInit ==
    /\ token = 0 /\ stored = [k \in Keys |-> 0] /\ loginOpen = TRUE
    /\ gate = "closed" /\ booted = FALSE /\ calls = [c \in Calls |-> Idle]
    /\ live = {} /\ minted = 0 /\ weak \in BOOLEAN /\ loads = 1
    /\ gestures = 0 /\ faults = 0 /\ slipped = FALSE

\* The operator reloads the page.
Reload ==
    /\ Gesture /\ Load(stored)
    /\ UNCHANGED <<daemonVars, slipped>>

(* bootDashboard: the account probe, the configuration, the subscriber list *)
(* and the custom policies, one after the other, each with the token of     *)
(* that moment; a boot that reaches its end starts the feeds.               *)

\* The next read of a boot; loadClients and loadCustomPolicies return at once
\* when there is no token.
Proceed(c, op) ==
    Put(c, IF token = 0 /\ op \in {"clients", "policies", "idle"} THEN Idle
           ELSE IF op = "idle" THEN Idle ELSE Request(op, token, calls[c].weak))

BootEnds(c) ==
    \/ Settled(c, "policies")
    \/ Settled(c, "clients") /\ token = 0
    \/ Ok(c, "config") /\ token = 0

\* A variant that takes an account it could not read for one that passes.
ReadAccountAnyway(c) ==
    /\ Settled(c, "me")
    /\ IF calls[c].ans \in {"ok", "lost"} THEN Proceed(c, "config") ELSE Put(c, Idle)
    /\ loginOpen' = (loginOpen \/ Unauthorized(c))
    /\ UNCHANGED <<gate, booted>>

\* loadConfig's two reads: anything but an ok answer ends the boot, and nothing
\* of a body that did not arrive is used.
ReadAccount(c) ==
    /\ Settled(c, "me")
    /\ IF calls[c].ans = "ok" THEN Proceed(c, "config") ELSE Put(c, Idle)
    /\ loginOpen' = (loginOpen \/ Unauthorized(c))
    /\ UNCHANGED <<gate, booted>>

ReadConfig(c) ==
    /\ Settled(c, "config")
    /\ IF calls[c].ans = "ok" THEN Proceed(c, "clients") ELSE Put(c, Idle)
    /\ loginOpen' = (loginOpen \/ Unauthorized(c))
    /\ gate' = IF calls[c].ans = "ok" /\ calls[c].weak THEN "forced" ELSE gate
    /\ booted' = (booted \/ BootEnds(c))

\* The results of the last two reads are not looked at: the boot goes on.
ReadClients(c) ==
    /\ Settled(c, "clients") /\ Proceed(c, "policies")
    /\ loginOpen' = (loginOpen \/ Unauthorized(c))
    /\ booted' = (booted \/ BootEnds(c)) /\ UNCHANGED gate

ReadPolicies(c) ==
    /\ Settled(c, "policies") /\ Put(c, Idle) /\ booted' = TRUE
    /\ UNCHANGED <<loginOpen, gate>>

Boot(c) ==
    /\ \/ ReadAccount(c)
       \/ ReadConfig(c)
       \/ ReadClients(c)
       \/ ReadPolicies(c)
    /\ UNCHANGED <<token, stored, daemonVars, loads, gestures, slipped>>

-----------------------------------------------------------------------------
(* Signing in and out.                                                     *)

\* Nothing disables the form while a submission is under way.
SubmitLogin(c) ==
    /\ Gesture /\ loginOpen /\ gate = "closed" /\ calls[c] = Idle
    /\ Put(c, Request("login", 0, FALSE))
    /\ UNCHANGED <<token, stored, loginOpen, gate, booted, daemonVars, loads, slipped>>

LoginAnswered(c) ==
    /\ Settled(c, "login")
    /\ IF calls[c].ans = "ok"
       THEN /\ token' = calls[c].gift
            /\ stored' = [k \in Keys |-> calls[c].gift]
            /\ loginOpen' = FALSE
            /\ Put(c, Request("me", calls[c].gift, FALSE))
            /\ gate' = IF calls[c].weak THEN "forced" ELSE gate
       ELSE Put(c, Idle) /\ UNCHANGED <<token, stored, loginOpen, gate>>
    /\ UNCHANGED <<booted, daemonVars, loads, gestures, slipped>>

SignOut(c) ==
    /\ Gesture /\ Clear /\ calls[c] = Idle
    /\ Put(c, Request("logout", token, FALSE))
    /\ UNCHANGED <<token, stored, loginOpen, gate, booted, daemonVars, loads, slipped>>

\* A variant without the finally: only a confirmed sign-out signs out.
SignedOutIfTold(c) ==
    /\ Settled(c, "logout") /\ Put(c, Idle)
    /\ IF calls[c].ans = "ok" THEN token' = 0 /\ stored' = [k \in Keys |-> 0] /\ loginOpen' = TRUE
                              ELSE UNCHANGED <<token, stored, loginOpen>>
    /\ UNCHANGED <<gate, booted, daemonVars, loads, gestures, slipped>>

\* A variant without the catch: what follows the await runs only if an answer came.
SignedOutIfAnswered(c) ==
    /\ Settled(c, "logout") /\ calls[c].ans # "lost" /\ Put(c, Idle)
    /\ token' = 0 /\ stored' = [k \in Keys |-> 0] /\ loginOpen' = TRUE
    /\ UNCHANGED <<gate, booted, daemonVars, loads, gestures, slipped>>

\* The finally block: whatever the daemon said, or if it said nothing.
SignedOut(c) ==
    /\ Settled(c, "logout") /\ Put(c, Idle)
    /\ token' = 0 /\ stored' = [k \in Keys |-> 0]
    /\ loginOpen' = TRUE
    /\ UNCHANGED <<gate, booted, daemonVars, loads, gestures, slipped>>

-----------------------------------------------------------------------------
(* The credential modal.                                                   *)

\* Settings opens it in its voluntary mode.
OpenCredentials ==
    /\ Gesture /\ Clear /\ gate' = "free"
    /\ UNCHANGED <<token, stored, loginOpen, booted, calls, daemonVars, loads, slipped>>

\* Cancel, Escape, a press on the backdrop, a submission that changes nothing:
\* the forced modal's cancel control is hidden, and its password field required.
CloseCredentials ==
    /\ Gesture /\ gate = "free" /\ gate' = "closed"
    /\ UNCHANGED <<token, stored, loginOpen, booted, calls, daemonVars, loads, slipped>>

SubmitCredentials(c, op) ==
    /\ Gesture /\ gate # "closed" /\ (gate = "forced" => op = "change") /\ calls[c] = Idle
    /\ Put(c, Request(op, token, FALSE))
    /\ UNCHANGED <<token, stored, loginOpen, gate, booted, daemonVars, loads, slipped>>

\* An ok answer to a password change carries the token of a new session, one to
\* a rename carries none; both close the modal, in whatever mode it is by now.
CredentialsAnswered(c) ==
    /\ Settled(c, "change") \/ Settled(c, "rename")
    /\ Put(c, Idle)
    /\ IF calls[c].ans = "ok" THEN gate' = "closed" ELSE UNCHANGED gate
    /\ IF calls[c].ans = "ok" /\ calls[c].gift # 0
       THEN token' = calls[c].gift /\ stored' = [k \in Keys |-> calls[c].gift]
       ELSE UNCHANGED <<token, stored>>
    /\ slipped' = (slipped \/ (Ok(c, "rename") /\ gate = "forced"))
    /\ UNCHANGED <<loginOpen, booted, daemonVars, loads, gestures>>

-----------------------------------------------------------------------------
(* Second factor on, second factor off, directory login: the daemon ends    *)
(* every session, and the page drops its token and loads itself again.      *)

\* The button is disabled while its request is under way.
SubmitFactor(c) ==
    /\ Gesture /\ Clear /\ token # 0 /\ calls[c] = Idle
    /\ \A x \in Calls : calls[x].op # "factor"
    /\ Put(c, Request("factor", token, FALSE))
    /\ UNCHANGED <<token, stored, loginOpen, gate, booted, daemonVars, loads, slipped>>

\* Only the second of the two keys is removed (twofa.js:128, 159, 242).
FactorChanged(c) ==
    /\ Ok(c, "factor")
    /\ Load([stored EXCEPT !["JozmozDNS_token"] = 0])
    /\ UNCHANGED <<daemonVars, gestures, slipped>>

FactorRefused(c) ==
    /\ Settled(c, "factor") /\ calls[c].ans # "ok" /\ Put(c, Idle)
    /\ UNCHANGED <<token, stored, loginOpen, gate, booted, daemonVars, loads, gestures, slipped>>

-----------------------------------------------------------------------------
(* The daemon, the network and time.                                       *)

Answer(c, ans, gift, w) ==
    Put(c, [calls[c] EXCEPT !.ans = ans, !.gift = gift, !.weak = @ \/ w])

Mint(keep) == minted < MaxToken /\ minted' = minted + 1 /\ live' = keep \cup {minted + 1}

\* What the daemon does with the request in a slot when it lets it through.
Grant(c) ==
    CASE calls[c].op = "login"  -> Mint(live) /\ Answer(c, "ok", minted + 1, weak) /\ UNCHANGED weak
      [] calls[c].op = "me"     -> Answer(c, "ok", 0, weak) /\ UNCHANGED <<live, minted, weak>>
      [] calls[c].op = "change" -> Mint({}) /\ Answer(c, "ok", minted + 1, FALSE) /\ weak' = FALSE
      [] calls[c].op = "logout" -> live' = live \ {calls[c].tok} /\ Answer(c, "ok", 0, FALSE)
                                   /\ UNCHANGED <<minted, weak>>
      [] calls[c].op = "factor" -> live' = {} /\ Answer(c, "ok", 0, FALSE) /\ UNCHANGED <<minted, weak>>
      [] OTHER                  -> Answer(c, "ok", 0, FALSE) /\ UNCHANGED <<live, minted, weak>>

Serve(c) ==
    /\ calls[c].op # "idle" /\ calls[c].ans = "none"
    /\ \/ (calls[c].op = "login" \/ calls[c].tok \in live) /\ Grant(c) /\ UNCHANGED faults
       \/ calls[c].op # "login" /\ calls[c].tok \notin live
          /\ Answer(c, "refused", 0, FALSE) /\ UNCHANGED <<live, minted, weak, faults>>
       \/ calls[c].op \notin Reads \cup {"logout"}      \* credentials that do not pass
          /\ Answer(c, "refused", 0, FALSE) /\ UNCHANGED <<live, minted, weak, faults>>
       \/ faults < MaxFaults /\ faults' = faults + 1
          /\ Answer(c, "failed", 0, FALSE) /\ UNCHANGED <<live, minted, weak>>
    /\ UNCHANGED <<token, stored, loginOpen, gate, booted, loads, gestures, slipped>>

\* The connection breaks before the daemon saw the request, or after.
Lose(c) ==
    /\ calls[c].op # "idle" /\ calls[c].ans # "lost"
    /\ faults < MaxFaults /\ faults' = faults + 1
    /\ Put(c, [calls[c] EXCEPT !.ans = "lost", !.gift = 0])
    /\ UNCHANGED <<token, stored, loginOpen, gate, booted, live, minted, weak, loads, gestures, slipped>>

Expire(t) ==
    /\ t \in live /\ live' = live \ {t}
    /\ faults < MaxFaults /\ faults' = faults + 1
    /\ UNCHANGED <<token, stored, loginOpen, gate, booted, calls, minted, weak, loads, gestures, slipped>>

\* The steps that leave the feeds alone: every one but a boot's and a page load.
SessionStep ==
    \/ \E c \in Calls : SubmitLogin(c) \/ LoginAnswered(c) \/ SignOut(c) \/ SignedOut(c)
    \/ OpenCredentials
    \/ CloseCredentials
    \/ \E c \in Calls, op \in {"change", "rename"} : SubmitCredentials(c, op)
    \/ \E c \in Calls : CredentialsAnswered(c) \/ SubmitFactor(c) \/ FactorRefused(c)
    \/ \E c \in Calls : Serve(c) \/ Lose(c)
    \/ \E t \in Tokens : Expire(t)

-----------------------------------------------------------------------------
(* What the page says it is.                                               *)

\* The weak-password gate (app.js:472, 697): a dashboard that booted on an account
\* whose password fails the policy shows the forced modal, whatever was refused,
\* failed or lost on the way, and whichever answers came late; the one exception
\* is a rename sent from the voluntary modal before the gate came up (slipped).
WeakGate == booted /\ weak /\ ~slipped => gate = "forced"

\* A sign-out that ends does so at the login screen, with no token left in memory or
\* under either key, though the daemon refuses or never answers (app.js:347-349); only
\* a page load in between takes the operator elsewhere.
Leaving(c) == calls[c].op = "logout"
Outside    == token = 0 /\ loginOpen /\ \A k \in Keys : stored[k] = 0
Leaves     == \A c \in Calls : Leaving(c) /\ ~Leaving(c)' => Outside' \/ loads' # loads
LeavesClean == [][Leaves]_sessionVars

\* And it ends: nobody is kept waiting for a daemon that cannot be reached.
LeavesAlways == \A c \in Calls : Leaving(c) ~> ~Leaving(c)
=============================================================================
