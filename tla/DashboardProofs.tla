---------------------------- MODULE DashboardProofs ----------------------------
(***************************************************************************)
(* What holds of Dashboard for any number of requests, tokens and timers:  *)
(* the types, the one poll that never drops its chain, the gate of a weak  *)
(* password, and where a sign-out lands.  The session keeps an invariant   *)
(* of its own, proved action by action; the feeds do not disturb it.       *)
(***************************************************************************)
EXTENDS Dashboard, TLAPS

\* A password that fails the policy still fails it: a boot that is past the account
\* probe knows so, and so does an answered probe.
Known == weak => \A c \in Calls : calls[c].op = "config" \/ Ok(c, "me") => calls[c].weak

\* A boot that has read the configuration left the gate up, and nothing but a
\* stronger password or the slipped rename takes it down.
Past(c) == calls[c].op \in {"clients", "policies"}
GateUp == weak /\ ~slipped /\ (booted \/ \E c \in Calls : Past(c)) => gate = "forced"

\* A password change that was confirmed made the password pass.
ChangeDone == \A c \in Calls : Ok(c, "change") => ~weak

SInv == SessionTypeOK /\ Known /\ GateUp /\ ChangeDone

\* The types in two halves: Boolean flags, and the rest.
Flags == /\ loginOpen \in BOOLEAN /\ booted \in BOOLEAN
         /\ weak \in BOOLEAN /\ slipped \in BOOLEAN
Data  == /\ token \in 0 .. MaxToken /\ stored \in [Keys -> 0 .. MaxToken]
         /\ gate \in {"closed", "forced", "free"} /\ calls \in [Calls -> Call]
         /\ live \subseteq Tokens /\ minted \in 0 .. MaxToken /\ loads \in Nat
         /\ gestures \in 0 .. MaxGestures /\ faults \in 0 .. MaxFaults

\* The poll: one request at most, the flag says whether there is one, and the
\* handle is of an armed timer, of none while the request is out.
PollFlags == inFlight \in BOOLEAN
PollCount == polls = (IF inFlight THEN 1 ELSE 0)
PollTimer == /\ timers \subseteq Timers /\ handle \in timers \cup {NoTimer}
             /\ inFlight => handle = NoTimer
PollInv   == PollFlags /\ PollCount /\ PollTimer

\* The types of the other feed variables.
RestOK == /\ visible \in BOOLEAN /\ listeners \in Nat /\ turns \in 0 .. MaxTurns
          /\ source \in {"none", "open", "dead", "closed"} /\ lost \in Nat /\ tickets \in Nat

IInv == SInv /\ PollInv /\ RestOK

-----------------------------------------------------------------------------
(* Slots.                                                                  *)

LEMMA Halves == SessionTypeOK <=> Flags /\ Data
  BY DEF SessionTypeOK, Flags, Data

LEMMA HalvesNext == SessionTypeOK' <=> Flags' /\ Data'
  BY DEF SessionTypeOK, Flags, Data

\* What the page puts into a slot is a request or nothing.
LEMMA CallForms ==
    /\ Idle \in Call
    /\ \A op \in Ops, tok \in 0 .. MaxToken, w \in BOOLEAN :
          /\ Request(op, tok, w) \in Call
          /\ Request(op, tok, w).op = op /\ Request(op, tok, w).weak = w
          /\ Request(op, tok, w).ans = "none"
<1>1. Idle \in Call
  BY SessionAssumption DEF Idle, Call, Ops, Answers
<1>2. ASSUME NEW op \in Ops, NEW tok \in 0 .. MaxToken, NEW w \in BOOLEAN
      PROVE  /\ Request(op, tok, w) \in Call
             /\ Request(op, tok, w).op = op /\ Request(op, tok, w).weak = w
             /\ Request(op, tok, w).ans = "none"
  BY <1>1 DEF Idle, Request, Call
<1>. QED
  BY <1>1, <1>2

\* Putting into a slot changes that slot only.
LEMMA PutChanges ==
    ASSUME calls \in [Calls -> Call], NEW c \in Calls, NEW k \in Call, Put(c, k)
    PROVE  /\ calls' \in [Calls -> Call]
           /\ calls'[c] = k
           /\ \A x \in Calls : x # c => calls'[x] = calls[x]
  BY DEF Put

\* A slot that is neither past the configuration nor in it, and has no answer that
\* Known or ChangeDone is about.
Plain(k) == /\ k.op \notin {"config", "clients", "policies"}
            /\ ~(k.ans = "ok" /\ k.op \in {"me", "change"})

LEMMA PlainForms ==
    /\ Plain(Idle)
    /\ \A op \in Ops \ {"config", "clients", "policies"}, tok \in 0 .. MaxToken, w \in BOOLEAN :
          Plain(Request(op, tok, w))
  BY CallForms DEF Plain, Idle, Request, Ops

\* A plain slot leaves the session's invariant to the gate.
LEMMA PlainPut ==
    ASSUME SInv, NEW c \in Calls, NEW k \in Call, Plain(k), Put(c, k),
           weak' = weak, booted' = booted, slipped' = slipped,
           gate' = gate \/ gate' = "forced"
    PROVE  Known' /\ GateUp' /\ ChangeDone'
<1>1. /\ calls' \in [Calls -> Call] /\ calls'[c] = k
      /\ \A x \in Calls : x # c => calls'[x] = calls[x]
  BY PutChanges DEF SInv, SessionTypeOK
<1>2. Known'
  BY <1>1 DEF SInv, Known, Ok, Plain
<1>3. \A x \in Calls : Past(x)' => Past(x)
  BY <1>1 DEF Past, Plain
<1>4. GateUp'
  BY <1>3 DEF SInv, GateUp
<1>5. ChangeDone'
  BY <1>1 DEF SInv, ChangeDone, Ok, Plain
<1>. QED
  BY <1>2, <1>4, <1>5

-----------------------------------------------------------------------------
(* A page load.                                                            *)

LEMMA LoadSession ==
    ASSUME SInv, NEW st \in [Keys -> 0 .. MaxToken], Load(st),
           UNCHANGED <<daemonVars, slipped>>, gestures' \in 0 .. MaxGestures
    PROVE  SInv'
<1>1. token' \in 0 .. MaxToken
  BY DEF Load, StoredToken, Keys
<1>2. PICK c \in Calls : calls' = [x \in Calls |-> IF x = c /\ token' # 0
                                    THEN Request("me", token', FALSE) ELSE Idle]
  BY DEF Load
<1>3. \A x \in Calls : calls'[x] \in Call /\ Plain(calls'[x])
  BY <1>1, <1>2, CallForms, PlainForms DEF Ops, Reads
<1>4. calls' \in [Calls -> Call]
  BY <1>2, <1>3
<1>a. loginOpen' \in BOOLEAN /\ gate' = "closed" /\ booted' = FALSE /\ stored' = st /\ loads' = loads + 1
  BY DEF Load
<1>b. Flags'
  BY <1>a, Halves DEF SInv, Flags, daemonVars
<1>c. Data'
  BY <1>1, <1>4, <1>a, Halves DEF SInv, Data, daemonVars
<1>5. SessionTypeOK'
  BY <1>b, <1>c, HalvesNext
<1>6. booted' = FALSE
  BY DEF Load
<1>7. Known' /\ GateUp' /\ ChangeDone'
  BY <1>3, <1>6 DEF Known, GateUp, ChangeDone, Past, Ok, Plain
<1>. QED
  BY <1>5, <1>7 DEF SInv

LEMMA ReloadSession == SInv /\ Reload => SInv'
<1>. SUFFICES ASSUME SInv, Reload PROVE SInv'
  OBVIOUS
<1>1. stored \in [Keys -> 0 .. MaxToken] /\ gestures' \in 0 .. MaxGestures
  BY SessionAssumption DEF SInv, SessionTypeOK, Reload, Gesture
<1>. QED
  BY <1>1, LoadSession DEF Reload

LEMMA FactorChangedSession ==
    ASSUME SInv, NEW c \in Calls, FactorChanged(c) PROVE SInv'
<1>1. [stored EXCEPT !["JozmozDNS_token"] = 0] \in [Keys -> 0 .. MaxToken]
  BY SessionAssumption DEF SInv, SessionTypeOK, Keys
<1>2. gestures' \in 0 .. MaxGestures
  BY DEF SInv, SessionTypeOK, FactorChanged
<1>. QED
  BY <1>1, <1>2, LoadSession DEF FactorChanged

-----------------------------------------------------------------------------
(* The form, the credential modal and the settings.                        *)

\* The steps that put a plain call into a slot and leave the flags but the login
\* modal, and the daemon, alone.
LEMMA PlainStep ==
    ASSUME SInv, NEW c \in Calls, NEW k \in Call, Plain(k), Put(c, k),
           loginOpen' \in BOOLEAN, UNCHANGED <<booted, daemonVars, loads, slipped>>,
           token' \in 0 .. MaxToken, stored' \in [Keys -> 0 .. MaxToken],
           gate' = gate \/ gate' = "forced", gestures' \in 0 .. MaxGestures
    PROVE  SInv'
<1>1. calls' \in [Calls -> Call]
  BY PutChanges, Halves DEF SInv, Data
<1>2. Flags'
  BY Halves DEF SInv, Flags, daemonVars
<1>3. Data'
  BY <1>1, Halves DEF SInv, Data, daemonVars
<1>4. Known' /\ GateUp' /\ ChangeDone'
  BY PlainPut DEF daemonVars
<1>. QED
  BY <1>2, <1>3, <1>4, HalvesNext DEF SInv

\* A gesture stays within its bound.
LEMMA GestureBound == SInv /\ Gesture => gestures' \in 0 .. MaxGestures
  BY SessionAssumption DEF SInv, SessionTypeOK, Gesture

LEMMA SubmitSession ==
    ASSUME SInv, NEW c \in Calls,
           \/ SubmitLogin(c) \/ SignOut(c) \/ SubmitFactor(c)
           \/ \E op \in {"change", "rename"} : SubmitCredentials(c, op)
    PROVE  SInv'
<1>1. PICK op \in Ops \ {"config", "clients", "policies"}, tok \in 0 .. MaxToken :
         Put(c, Request(op, tok, FALSE))
  <2>1. token \in 0 .. MaxToken /\ 0 \in 0 .. MaxToken
    BY SessionAssumption DEF SInv, SessionTypeOK
  <2>2. {"login", "logout", "factor", "change", "rename"} \subseteq Ops \ {"config", "clients", "policies"}
    BY DEF Ops, Reads
  <2>3. CASE SubmitLogin(c)
    BY <2>1, <2>2, <2>3 DEF SubmitLogin
  <2>4. CASE SignOut(c)
    BY <2>1, <2>2, <2>4 DEF SignOut
  <2>5. CASE SubmitFactor(c)
    BY <2>1, <2>2, <2>5 DEF SubmitFactor
  <2>6. ASSUME NEW o \in {"change", "rename"}, SubmitCredentials(c, o)
        PROVE  Put(c, Request(o, token, FALSE))
    BY <2>6 DEF SubmitCredentials
  <2>. QED
    BY <2>1, <2>2, <2>3, <2>4, <2>5, <2>6
<1>2. Plain(Request(op, tok, FALSE)) /\ Request(op, tok, FALSE) \in Call
  BY PlainForms, CallForms
<1>3. Gesture /\ UNCHANGED <<token, stored, loginOpen, gate, booted, daemonVars, loads, slipped>>
  BY DEF SubmitLogin, SignOut, SubmitFactor, SubmitCredentials
<1>4. /\ loginOpen' \in BOOLEAN /\ token' \in 0 .. MaxToken
      /\ stored' \in [Keys -> 0 .. MaxToken]
  BY <1>3 DEF SInv, SessionTypeOK
<1>5. gestures' \in 0 .. MaxGestures
  BY <1>3, GestureBound
<1>6. gate' = gate /\ UNCHANGED <<booted, daemonVars, loads, slipped>>
  BY <1>3
<1>. QED
  BY <1>1, <1>2, <1>4, <1>5, <1>6, PlainStep

LEMMA LoginAnsweredSession ==
    ASSUME SInv, NEW c \in Calls, LoginAnswered(c) PROVE SInv'
<1>1. calls[c] \in Call /\ calls[c].gift \in 0 .. MaxToken
  BY DEF SInv, SessionTypeOK, Call
<1>2. /\ token' \in 0 .. MaxToken /\ stored' \in [Keys -> 0 .. MaxToken]
      /\ gestures' \in 0 .. MaxGestures
  BY <1>1 DEF SInv, SessionTypeOK, LoginAnswered
<1>3. loginOpen' \in BOOLEAN
  BY DEF SInv, SessionTypeOK, LoginAnswered
<1>4. gate' = gate \/ gate' = "forced"
  BY DEF LoginAnswered
<1>5. PICK k \in Call : Plain(k) /\ Put(c, k)
  <2>1. CASE calls[c].ans = "ok"
    BY <2>1, <1>1, CallForms, PlainForms DEF LoginAnswered, Ops, Reads
  <2>2. CASE calls[c].ans # "ok"
    BY <2>2, CallForms, PlainForms DEF LoginAnswered
  <2>. QED
    BY <2>1, <2>2
<1>6. UNCHANGED <<booted, daemonVars, loads, slipped>>
  BY DEF LoginAnswered
<1>. QED
  BY <1>2, <1>3, <1>4, <1>5, <1>6, PlainStep

LEMMA ReleaseSession ==
    ASSUME SInv, NEW c \in Calls, SignedOut(c) \/ FactorRefused(c) PROVE SInv'
<1>1. Put(c, Idle) /\ Idle \in Call /\ Plain(Idle)
  BY CallForms, PlainForms DEF SignedOut, FactorRefused
<1>2. /\ token' \in 0 .. MaxToken /\ stored' \in [Keys -> 0 .. MaxToken]
      /\ gestures' \in 0 .. MaxGestures
  BY SessionAssumption DEF SInv, SessionTypeOK, SignedOut, FactorRefused
<1>3. loginOpen' \in BOOLEAN
  BY DEF SInv, SessionTypeOK, SignedOut, FactorRefused
<1>4. gate' = gate /\ UNCHANGED <<booted, daemonVars, loads, slipped>>
  BY DEF SignedOut, FactorRefused
<1>. QED
  BY <1>1, <1>2, <1>3, <1>4, PlainStep

\* The voluntary modal opens and closes: neither is a gate that was up.
LEMMA ModalSession == SInv /\ (OpenCredentials \/ CloseCredentials) => SInv'
<1>. SUFFICES ASSUME SInv, OpenCredentials \/ CloseCredentials PROVE SInv'
  OBVIOUS
<1>1. /\ gate # "forced" /\ gate' \in {"closed", "forced", "free"} /\ Gesture
      /\ UNCHANGED <<token, stored, loginOpen, booted, calls, daemonVars, loads, slipped>>
  BY DEF OpenCredentials, CloseCredentials, Clear
<1>2. Flags'
  BY <1>1, Halves DEF SInv, Flags, daemonVars
<1>3. Data'
  BY <1>1, Halves, GestureBound DEF SInv, Data, daemonVars
<1>4. Known' /\ ChangeDone'
  BY <1>1 DEF SInv, Known, ChangeDone, Ok, daemonVars
<1>5. GateUp'
  BY <1>1 DEF SInv, GateUp, Past, daemonVars
<1>. QED
  BY <1>2, <1>3, <1>4, <1>5, HalvesNext DEF SInv

\* An ok answer takes the gate down only for a password that passes, or for a rename
\* that slipped.
LEMMA CredentialsSession ==
    ASSUME SInv, NEW c \in Calls, CredentialsAnswered(c) PROVE SInv'
<1>1. Put(c, Idle) /\ Idle \in Call /\ Plain(Idle)
  BY CallForms, PlainForms DEF CredentialsAnswered
<1>2. /\ calls' \in [Calls -> Call] /\ calls'[c] = Idle
      /\ \A x \in Calls : x # c => calls'[x] = calls[x]
  BY <1>1, PutChanges DEF SInv, SessionTypeOK
<1>3. UNCHANGED <<loginOpen, booted, daemonVars, loads, gestures>>
  BY DEF CredentialsAnswered
<1>4. slipped' = (slipped \/ (Ok(c, "rename") /\ gate = "forced"))
  BY DEF CredentialsAnswered
<1>5. Flags'
  BY <1>3, <1>4, Halves DEF SInv, Flags, daemonVars
<1>6. calls[c].gift \in 0 .. MaxToken
  BY DEF SInv, SessionTypeOK, Call
<1>7. /\ token' \in 0 .. MaxToken /\ stored' \in [Keys -> 0 .. MaxToken]
      /\ gate' \in {"closed", "forced", "free"}
  BY <1>6 DEF SInv, SessionTypeOK, CredentialsAnswered
<1>8. Data'
  BY <1>2, <1>3, <1>7, Halves DEF SInv, Data, daemonVars
<1>9. \A x \in Calls : x # c => (Past(x)' => Past(x)) /\ (Ok(x, "me")' => Ok(x, "me"))
                                  /\ (Ok(x, "change")' => Ok(x, "change"))
  BY <1>2 DEF Past, Ok
<1>10. ~Past(c)' /\ ~Ok(c, "me")' /\ ~Ok(c, "change")' /\ calls'[c].op # "config"
  BY <1>1, <1>2 DEF Past, Ok, Plain
<1>11. Known' /\ ChangeDone'
  BY <1>2, <1>3, <1>9, <1>10 DEF SInv, Known, ChangeDone, daemonVars
<1>12. ASSUME weak, ~slipped, ~slipped', gate = "forced" PROVE gate' = "forced"
  <2>1. ~Ok(c, "rename") /\ ~Ok(c, "change")
    BY <1>4, <1>12 DEF SInv, ChangeDone
  <2>2. calls[c].ans # "ok"
    BY <2>1 DEF CredentialsAnswered, Settled, Ok
  <2>. QED
    BY <2>2, <1>12 DEF CredentialsAnswered
<1>13. GateUp'
  <2>. SUFFICES ASSUME weak', ~slipped', booted' \/ \E x \in Calls : Past(x)'
                PROVE  gate' = "forced"
    BY DEF GateUp
  <2>1. weak /\ ~slipped /\ (booted \/ \E x \in Calls : Past(x))
    BY <1>3, <1>4, <1>9, <1>10 DEF daemonVars
  <2>2. gate = "forced"
    BY <2>1 DEF SInv, GateUp
  <2>. QED
    BY <1>12, <2>1, <2>2
<1>. QED
  BY <1>5, <1>8, <1>11, <1>13, HalvesNext DEF SInv

-----------------------------------------------------------------------------
(* The boot.                                                               *)

\* What every step of a boot leaves alone, and the next read it sends.
LEMMA ProceedForm ==
    ASSUME SInv, NEW c \in Calls, NEW op \in Reads, Proceed(c, op)
    PROVE  \E k \in Call : /\ Put(c, k) /\ k.ans = "none"
                           /\ k = Idle \/ (k.op = op /\ k.weak = calls[c].weak)
<1>1. token \in 0 .. MaxToken /\ calls[c].weak \in BOOLEAN /\ op \in Ops /\ op # "idle"
  BY DEF SInv, SessionTypeOK, Call, Ops, Reads
<1>2. Idle \in Call /\ Idle.ans = "none"
  BY CallForms DEF Idle
<1>3. Request(op, token, calls[c].weak) \in Call
  BY <1>1, CallForms
<1>4. /\ Request(op, token, calls[c].weak).op = op
      /\ Request(op, token, calls[c].weak).weak = calls[c].weak
      /\ Request(op, token, calls[c].weak).ans = "none"
  BY <1>1, CallForms
<1>5. Put(c, Idle) \/ Put(c, Request(op, token, calls[c].weak))
  BY <1>1 DEF Proceed
<1>. QED
  BY <1>2, <1>3, <1>4, <1>5

LEMMA BootTypes ==
    ASSUME SInv, NEW c \in Calls, Boot(c), calls' \in [Calls -> Call],
           loginOpen' \in BOOLEAN, booted' \in BOOLEAN, gate' \in {"closed", "forced", "free"}
    PROVE  SessionTypeOK'
<1>1. UNCHANGED <<token, stored, daemonVars, loads, gestures, slipped>>
  BY DEF Boot
<1>2. Flags'
  BY <1>1, Halves DEF SInv, Flags, daemonVars
<1>3. Data'
  BY <1>1, Halves DEF SInv, Data, daemonVars
<1>. QED
  BY <1>2, <1>3, HalvesNext

LEMMA ReadAccountSession ==
    ASSUME SInv, NEW c \in Calls, Boot(c), ReadAccount(c) PROVE SInv'
<1>1. PICK k \in Call : /\ Put(c, k) /\ k.ans = "none"
                        /\ k = Idle \/ (k.op = "config" /\ Ok(c, "me") /\ k.weak = calls[c].weak)
  <2>1. CASE calls[c].ans = "ok"
    BY <2>1, ProceedForm DEF ReadAccount, Reads, Ok, Settled
  <2>2. CASE calls[c].ans # "ok"
    BY <2>2, CallForms DEF ReadAccount, Idle
  <2>. QED
    BY <2>1, <2>2
<1>a. calls \in [Calls -> Call]
  BY Halves DEF SInv, Data
<1>b. Put(c, k)
  BY <1>1
<1>2. /\ calls' \in [Calls -> Call] /\ calls'[c] = k
      /\ \A x \in Calls : x # c => calls'[x] = calls[x]
  BY <1>a, <1>b, PutChanges
<1>3. UNCHANGED <<gate, booted, daemonVars, slipped>>
  BY DEF ReadAccount, Boot
<1>4. loginOpen' \in BOOLEAN
  BY DEF ReadAccount, SInv, SessionTypeOK, Unauthorized
<1>5. SessionTypeOK'
  BY <1>2, <1>3, <1>4, BootTypes DEF SInv, SessionTypeOK
<1>6. Known'
  BY <1>1, <1>2, <1>3 DEF SInv, Known, Ok, Idle, daemonVars
<1>7. \A x \in Calls : Past(x)' => Past(x)
  BY <1>1, <1>2 DEF Past, Idle
<1>8. GateUp'
  BY <1>3, <1>7 DEF SInv, GateUp, daemonVars
<1>9. ChangeDone'
  BY <1>1, <1>2, <1>3 DEF SInv, ChangeDone, Ok, daemonVars
<1>. QED
  BY <1>5, <1>6, <1>8, <1>9 DEF SInv

LEMMA ReadConfigSession ==
    ASSUME SInv, NEW c \in Calls, Boot(c), ReadConfig(c) PROVE SInv'
<1>1. PICK k \in Call : Put(c, k) /\ k.ans = "none" /\ k.op \in {"idle", "clients"}
                       /\ (k.op = "clients" => calls[c].ans = "ok")
  <2>1. CASE calls[c].ans = "ok"
    BY <2>1, ProceedForm DEF ReadConfig, Reads, Idle
  <2>2. CASE calls[c].ans # "ok"
    BY <2>2, CallForms DEF ReadConfig, Idle
  <2>. QED
    BY <2>1, <2>2
<1>a. calls \in [Calls -> Call]
  BY Halves DEF SInv, Data
<1>b. Put(c, k)
  BY <1>1
<1>2. /\ calls' \in [Calls -> Call] /\ calls'[c] = k
      /\ \A x \in Calls : x # c => calls'[x] = calls[x]
  BY <1>a, <1>b, PutChanges
<1>3. UNCHANGED <<daemonVars, slipped>> /\ calls[c].op = "config"
  BY DEF ReadConfig, Settled, Boot
<1>4. loginOpen' \in BOOLEAN /\ booted' \in BOOLEAN
  BY DEF ReadConfig, SInv, SessionTypeOK, Unauthorized, BootEnds, Ok, Settled
<1>5. gate' \in {"closed", "forced", "free"}
  BY DEF ReadConfig, SInv, SessionTypeOK
<1>6. SessionTypeOK'
  BY <1>2, <1>4, <1>5, BootTypes
<1>7. Known' /\ ChangeDone'
  BY <1>1, <1>2, <1>3 DEF SInv, Known, ChangeDone, Ok, daemonVars
<1>8. weak /\ calls[c].ans = "ok" => gate' = "forced"
  BY <1>3 DEF SInv, Known, ReadConfig
<1>9. calls[c].ans # "ok" => gate' = gate /\ (booted' => booted)
  BY <1>3 DEF ReadConfig, BootEnds, Ok, Settled
<1>10. calls[c].ans # "ok" => \A x \in Calls : Past(x)' => Past(x)
  BY <1>1, <1>2 DEF Past
<1>11. GateUp'
  BY <1>3, <1>8, <1>9, <1>10 DEF SInv, GateUp, daemonVars
<1>. QED
  BY <1>6, <1>7, <1>11 DEF SInv

LEMMA ReadRestSession ==
    ASSUME SInv, NEW c \in Calls, Boot(c), ReadClients(c) \/ ReadPolicies(c) PROVE SInv'
<1>1. PICK k \in Call : Put(c, k) /\ k.ans = "none" /\ k.op \in {"idle", "policies"}
  <2>1. CASE ReadClients(c)
    BY <2>1, ProceedForm DEF ReadClients, Reads, Idle
  <2>2. CASE ReadPolicies(c)
    BY <2>2, CallForms DEF ReadPolicies, Idle
  <2>. QED
    BY <2>1, <2>2
<1>a. calls \in [Calls -> Call]
  BY Halves DEF SInv, Data
<1>b. Put(c, k)
  BY <1>1
<1>2. /\ calls' \in [Calls -> Call] /\ calls'[c] = k
      /\ \A x \in Calls : x # c => calls'[x] = calls[x]
  BY <1>a, <1>b, PutChanges
<1>3. UNCHANGED <<gate, daemonVars, slipped>> /\ Past(c)
  BY DEF ReadClients, ReadPolicies, Settled, Boot, Past
<1>4. loginOpen' \in BOOLEAN /\ booted' \in BOOLEAN
  BY DEF ReadClients, ReadPolicies, SInv, SessionTypeOK, Unauthorized, BootEnds, Ok, Settled
<1>5. SessionTypeOK'
  BY <1>2, <1>3, <1>4, BootTypes DEF SInv, SessionTypeOK
<1>6. Known' /\ ChangeDone'
  BY <1>1, <1>2, <1>3 DEF SInv, Known, ChangeDone, Ok, daemonVars
<1>7. GateUp'
  BY <1>3 DEF SInv, GateUp, daemonVars
<1>. QED
  BY <1>5, <1>6, <1>7 DEF SInv

LEMMA BootSession == ASSUME SInv, NEW c \in Calls, Boot(c) PROVE SInv'
<1>1. ReadAccount(c) \/ ReadConfig(c) \/ (ReadClients(c) \/ ReadPolicies(c))
  BY DEF Boot
<1>. QED
  BY <1>1, ReadAccountSession, ReadConfigSession, ReadRestSession

-----------------------------------------------------------------------------
(* The daemon.                                                             *)

\* An answer, or its loss: the slot keeps what it is for.
LEMMA SameOpPut ==
    ASSUME SInv, NEW c \in Calls, NEW k \in Call, Put(c, k), k.op = calls[c].op,
           calls[c].weak => k.weak,
           k.op = "me" /\ k.ans = "ok" /\ weak => k.weak,
           k.op = "change" => k.ans # "ok",
           UNCHANGED <<weak, booted, slipped, gate>>
    PROVE  Known' /\ GateUp' /\ ChangeDone'
<1>1. /\ calls' \in [Calls -> Call] /\ calls'[c] = k
      /\ \A x \in Calls : x # c => calls'[x] = calls[x]
  BY PutChanges DEF SInv, SessionTypeOK
<1>2. \A x \in Calls : Past(x)' <=> Past(x)
  BY <1>1 DEF Past
<1>3. Known'
  BY <1>1 DEF SInv, Known, Ok
<1>4. GateUp'
  BY <1>2 DEF SInv, GateUp
<1>5. ChangeDone'
  BY <1>1 DEF SInv, ChangeDone, Ok
<1>. QED
  BY <1>3, <1>4, <1>5

\* The form of an answered call.
LEMMA AnswerForm ==
    ASSUME SInv, NEW c \in Calls, NEW ans \in Answers, NEW gift \in 0 .. MaxToken,
           NEW w \in BOOLEAN, Answer(c, ans, gift, w)
    PROVE  \E k \in Call : /\ Put(c, k) /\ k.op = calls[c].op /\ k.ans = ans
                           /\ (calls[c].weak => k.weak) /\ (w => k.weak)
<1>. DEFINE k == [calls[c] EXCEPT !.ans = ans, !.gift = gift, !.weak = @ \/ w]
<1>1. calls[c] \in Call
  BY DEF SInv, SessionTypeOK
<1>2. k \in Call
  BY <1>1 DEF Call
<1>3. k.op = calls[c].op /\ k.ans = ans /\ k.weak = (calls[c].weak \/ w)
  BY <1>1 DEF Call
<1>4. Put(c, k)
  BY DEF Answer
<1>. QED
  BY <1>2, <1>3, <1>4

\* An answer that claims no more than the daemon knows.
LEMMA AnsweredSession ==
    ASSUME SInv, NEW c \in Calls, NEW ans \in Answers, NEW gift \in 0 .. MaxToken,
           NEW w \in BOOLEAN, Answer(c, ans, gift, w),
           UNCHANGED <<token, stored, loginOpen, gate, booted, loads, gestures, slipped>>,
           live' \subseteq Tokens, minted' \in 0 .. MaxToken, faults' \in 0 .. MaxFaults,
           weak' \in BOOLEAN, weak' => weak,
           weak' /\ ans = "ok" => calls[c].op # "change" /\ (calls[c].op = "me" => w)
    PROVE  SInv'
<1>1. PICK k \in Call : /\ Put(c, k) /\ k.op = calls[c].op /\ k.ans = ans
                        /\ (calls[c].weak => k.weak) /\ (w => k.weak)
  BY AnswerForm
<1>2. calls' \in [Calls -> Call]
  BY <1>1, PutChanges, Halves DEF SInv, Data
<1>3. Flags'
  BY Halves DEF SInv, Flags
<1>4. Data'
  BY <1>2, Halves DEF SInv, Data
<1>5. Known' /\ GateUp' /\ ChangeDone'
  <2>1. CASE ~weak'
    BY <2>1 DEF Known, GateUp, ChangeDone
  <2>2. CASE weak'
    <3>1. weak' = weak
      BY <2>2, Halves DEF SInv, Flags
    <3>2. k.op = "me" /\ k.ans = "ok" /\ weak => k.weak
      BY <1>1, <2>2
    <3>3. k.op = "change" => k.ans # "ok"
      BY <1>1, <2>2
    <3>. QED
      BY <1>1, <3>1, <3>2, <3>3, SameOpPut
  <2>. QED
    BY <2>1, <2>2
<1>. QED
  BY <1>3, <1>4, <1>5, HalvesNext DEF SInv

LEMMA MintTypes ==
    ASSUME SInv, NEW keep \in SUBSET Tokens, Mint(keep)
    PROVE  /\ live' \subseteq Tokens /\ minted' \in 0 .. MaxToken
           /\ minted + 1 \in 0 .. MaxToken
<1>1. minted \in 0 .. MaxToken /\ minted < MaxToken /\ MaxToken \in Nat
  BY SessionAssumption DEF SInv, SessionTypeOK, Mint
<1>2. minted + 1 \in 1 .. MaxToken
  BY <1>1
<1>. QED
  BY <1>1, <1>2 DEF Mint, Tokens

\* A request that the daemon lets through.
LEMMA GrantSession ==
    ASSUME SInv, NEW c \in Calls, Grant(c), faults' = faults,
           UNCHANGED <<token, stored, loginOpen, gate, booted, loads, gestures, slipped>>
    PROVE  SInv'
<1>1. /\ "ok" \in Answers /\ 0 \in 0 .. MaxToken /\ faults' \in 0 .. MaxFaults
      /\ live \subseteq Tokens /\ minted \in 0 .. MaxToken
  BY SessionAssumption DEF SInv, SessionTypeOK, Answers
<1>2. weak \in BOOLEAN
  BY Halves DEF SInv, Flags
<1>3. CASE calls[c].op = "login"
  <2>1. Mint(live) /\ Answer(c, "ok", minted + 1, weak) /\ weak' = weak
    BY <1>3 DEF Grant
  <2>2. live' \subseteq Tokens /\ minted' \in 0 .. MaxToken /\ minted + 1 \in 0 .. MaxToken
    BY <1>1, <2>1, MintTypes
  <2>. QED
    BY <1>1, <1>2, <1>3, <2>1, <2>2, AnsweredSession
<1>4. CASE calls[c].op = "me"
  <2>1. Answer(c, "ok", 0, weak) /\ UNCHANGED <<live, minted, weak>>
    BY <1>4 DEF Grant
  <2>. QED
    BY <1>1, <1>2, <1>4, <2>1, AnsweredSession
<1>5. CASE calls[c].op = "change"
  <2>1. Mint({}) /\ Answer(c, "ok", minted + 1, FALSE) /\ weak' = FALSE
    BY <1>5 DEF Grant
  <2>2. live' \subseteq Tokens /\ minted' \in 0 .. MaxToken /\ minted + 1 \in 0 .. MaxToken
    BY <1>1, <2>1, MintTypes
  <2>. QED
    BY <1>1, <2>1, <2>2, AnsweredSession
<1>6. CASE calls[c].op = "logout"
  <2>1. /\ live' = live \ {calls[c].tok} /\ Answer(c, "ok", 0, FALSE)
        /\ UNCHANGED <<minted, weak>>
    BY <1>6 DEF Grant
  <2>. QED
    BY <1>1, <1>2, <1>6, <2>1, AnsweredSession
<1>7. CASE calls[c].op = "factor"
  <2>1. live' = {} /\ Answer(c, "ok", 0, FALSE) /\ UNCHANGED <<minted, weak>>
    BY <1>7 DEF Grant
  <2>. QED
    BY <1>1, <1>2, <1>7, <2>1, AnsweredSession
<1>8. CASE calls[c].op \notin {"login", "me", "change", "logout", "factor"}
  <2>1. Answer(c, "ok", 0, FALSE) /\ UNCHANGED <<live, minted, weak>>
    BY <1>8 DEF Grant
  <2>. QED
    BY <1>1, <1>2, <1>8, <2>1, AnsweredSession
<1>. QED
  BY <1>3, <1>4, <1>5, <1>6, <1>7, <1>8

LEMMA ServeSession == ASSUME SInv, NEW c \in Calls, Serve(c) PROVE SInv'
<1>1. UNCHANGED <<token, stored, loginOpen, gate, booted, loads, gestures, slipped>>
  BY DEF Serve
<1>2. CASE Grant(c) /\ faults' = faults
  BY <1>1, <1>2, GrantSession
<1>3. CASE ~(Grant(c) /\ faults' = faults)
  <2>1. PICK ans \in {"refused", "failed"} : Answer(c, ans, 0, FALSE)
    BY <1>3 DEF Serve
  <2>2. UNCHANGED <<live, minted, weak>> /\ (faults' = faults \/ (faults < MaxFaults /\ faults' = faults + 1))
    BY <1>3 DEF Serve
  <2>3. /\ faults' \in 0 .. MaxFaults /\ live' \subseteq Tokens /\ minted' \in 0 .. MaxToken
        /\ 0 \in 0 .. MaxToken /\ ans \in Answers /\ ans # "ok"
    BY <2>2, SessionAssumption DEF SInv, SessionTypeOK, Answers
  <2>4. weak' \in BOOLEAN /\ (weak' => weak)
    BY <2>2, Halves DEF SInv, Flags
  <2>. QED
    BY <1>1, <2>1, <2>3, <2>4, AnsweredSession
<1>. QED
  BY <1>2, <1>3

LEMMA LoseSession == ASSUME SInv, NEW c \in Calls, Lose(c) PROVE SInv'
<1>. DEFINE k == [calls[c] EXCEPT !.ans = "lost", !.gift = 0]
<1>1. calls[c] \in Call
  BY DEF SInv, SessionTypeOK
<1>a. 0 \in 0 .. MaxToken /\ "lost" \in Answers
  BY SessionAssumption DEF Answers
<1>2. k \in Call
  BY <1>1, <1>a DEF Call
<1>3. k.op = calls[c].op /\ k.ans = "lost" /\ k.weak = calls[c].weak
  BY <1>1 DEF Call
<1>4. /\ Put(c, k)
      /\ UNCHANGED <<token, stored, loginOpen, gate, booted, live, minted, weak, loads, gestures, slipped>>
  BY DEF Lose
<1>5. faults' \in 0 .. MaxFaults
  BY SessionAssumption DEF Lose, SInv, SessionTypeOK
<1>6. calls' \in [Calls -> Call]
  BY <1>2, <1>4, PutChanges, Halves DEF SInv, Data
<1>7. Flags'
  BY <1>4, Halves DEF SInv, Flags
<1>8. Data'
  BY <1>4, <1>5, <1>6, Halves DEF SInv, Data
<1>9. Known' /\ GateUp' /\ ChangeDone'
  <2>. HIDE DEF k
  <2>. QED
    BY <1>2, <1>3, <1>4, SameOpPut
<1>. QED
  BY <1>7, <1>8, <1>9, HalvesNext DEF SInv

\* Steps that leave the page's side of the session alone: an expiry, and every step of
\* the feeds.
LEMMA QuietSession ==
    ASSUME SInv, live' \subseteq live, faults' \in 0 .. MaxFaults,
           UNCHANGED <<token, stored, loginOpen, gate, booted, calls, minted, weak, loads,
                       gestures, slipped>>
    PROVE  SInv'
<1>1. Flags'
  BY Halves DEF SInv, Flags
<1>2. Data'
  BY Halves DEF SInv, Data
<1>3. Known' /\ ChangeDone'
  BY DEF SInv, Known, ChangeDone, Ok
<1>4. GateUp'
  BY DEF SInv, GateUp, Past
<1>. QED
  BY <1>1, <1>2, <1>3, <1>4, HalvesNext DEF SInv

LEMMA ExpireSession == ASSUME SInv, NEW t \in Tokens, Expire(t) PROVE SInv'
<1>1. live' \subseteq live /\ faults' \in 0 .. MaxFaults
  BY SessionAssumption DEF Expire, SInv, SessionTypeOK
<1>2. UNCHANGED <<token, stored, loginOpen, gate, booted, calls, minted, weak, loads,
                  gestures, slipped>>
  BY DEF Expire
<1>. QED
  BY <1>1, <1>2, QuietSession

LEMMA StepSession == SInv /\ SessionStep => SInv'
<1>. SUFFICES ASSUME SInv, SessionStep PROVE SInv'
  OBVIOUS
<1>1. ASSUME NEW c \in Calls, SubmitLogin(c) \/ LoginAnswered(c) \/ SignOut(c) \/ SignedOut(c)
      PROVE  SInv'
  BY <1>1, SubmitSession, LoginAnsweredSession, ReleaseSession
<1>2. CASE OpenCredentials \/ CloseCredentials
  BY <1>2, ModalSession
<1>3. ASSUME NEW c \in Calls, NEW op \in {"change", "rename"}, SubmitCredentials(c, op)
      PROVE  SInv'
  BY <1>3, SubmitSession
<1>4. ASSUME NEW c \in Calls, CredentialsAnswered(c) \/ SubmitFactor(c) \/ FactorRefused(c)
      PROVE  SInv'
  BY <1>4, CredentialsSession, SubmitSession, ReleaseSession
<1>5. ASSUME NEW c \in Calls, Serve(c) \/ Lose(c) PROVE SInv'
  BY <1>5, ServeSession, LoseSession
<1>6. ASSUME NEW t \in Tokens, Expire(t) PROVE SInv'
  BY <1>6, ExpireSession
<1>. QED
  BY <1>1, <1>2, <1>3, <1>4, <1>5, <1>6 DEF SessionStep

LEMMA InitSession == SessionInit => SInv
<1>. SUFFICES ASSUME SessionInit PROVE SInv
  OBVIOUS
<1>1. Flags
  BY DEF SessionInit, Flags
<1>2. calls \in [Calls -> Call] /\ \A c \in Calls : calls[c] = Idle
  BY CallForms DEF SessionInit
<1>3. 0 \in 0 .. MaxToken /\ 0 \in 0 .. MaxGestures /\ 0 \in 0 .. MaxFaults
  BY SessionAssumption
<1>4. Data
  BY <1>2, <1>3 DEF SessionInit, Data
<1>5. Known /\ ChangeDone
  BY <1>2 DEF Known, ChangeDone, Ok, Idle
<1>6. GateUp
  BY <1>2 DEF SessionInit, GateUp, Past, Idle
<1>. QED
  BY <1>1, <1>4, <1>5, <1>6, Halves DEF SInv

-----------------------------------------------------------------------------
(* The poll.                                                               *)

LEMMA ArmKeeps ==
    ASSUME NEW armed \in SUBSET Timers, Arm(armed)
    PROVE  timers' \subseteq Timers /\ handle' \in timers'
<1>1. \E t \in Timers : t \notin armed
  BY DEF Arm
<1>2. Fresh(armed) \in Timers
  BY <1>1 DEF Fresh
<1>. QED
  BY <1>2 DEF Arm

\* A poll that may find its turn taken: it starts a request only when none is out.
LEMMA PollKeeps ==
    ASSUME PollInv, NEW armed \in SUBSET timers, PollStatsOnce(armed) PROVE PollInv'
<1>1. armed \in SUBSET Timers
  BY DEF PollInv, PollTimer
<1>2. CASE inFlight
  <2>1. timers' = armed /\ UNCHANGED <<inFlight, handle, polls>> /\ handle = NoTimer
    BY <1>2 DEF PollStatsOnce, PollInv, PollTimer
  <2>2. PollFlags'
    BY <2>1 DEF PollInv, PollFlags
  <2>3. PollCount'
    BY <2>1 DEF PollInv, PollCount
  <2>4. PollTimer'
    BY <1>1, <2>1 DEF PollTimer
  <2>. QED
    BY <2>2, <2>3, <2>4 DEF PollInv
<1>3. CASE ~inFlight /\ UNCHANGED <<inFlight, polls>>
  <2>1. timers' \subseteq Timers /\ handle' \in timers' \cup {NoTimer}
    BY <1>1, <1>3, ArmKeeps DEF PollStatsOnce
  <2>2. PollFlags' /\ ~inFlight'
    BY <1>3 DEF PollInv, PollFlags
  <2>3. PollCount'
    BY <1>3 DEF PollInv, PollCount
  <2>. QED
    BY <2>1, <2>2, <2>3 DEF PollInv, PollTimer
<1>4. CASE ~inFlight /\ timers' = armed /\ handle' = NoTimer /\ inFlight' = TRUE /\ polls' = polls + 1
  <2>1. polls = 0
    BY <1>4 DEF PollInv, PollCount
  <2>2. polls' = 1 /\ inFlight'
    BY <1>4, <2>1
  <2>3. PollFlags' /\ PollCount'
    BY <1>4, <2>2 DEF PollFlags, PollCount
  <2>4. PollTimer'
    BY <1>1, <1>4 DEF PollTimer
  <2>. QED
    BY <2>3, <2>4 DEF PollInv
<1>. QED
  BY <1>2, <1>3, <1>4 DEF PollStatsOnce, Arm

LEMMA SettleKeeps == ASSUME PollInv, PollSettles PROVE PollInv'
<1>1. polls = 1 /\ inFlight
  BY DEF PollSettles, PollInv, PollCount
<1>2. polls' = 0 /\ inFlight' = FALSE
  BY <1>1 DEF PollSettles
<1>3. timers' \subseteq Timers /\ handle' \in timers' \cup {NoTimer}
  BY ArmKeeps DEF PollSettles, PollInv, PollTimer
<1>. QED
  BY <1>2, <1>3 DEF PollInv, PollFlags, PollCount, PollTimer

LEMMA HideKeeps == ASSUME PollInv, Hide PROVE PollInv'
<1>1. UNCHANGED <<inFlight, polls>>
  BY DEF Hide
<1>2. (timers' = timers \ {handle} /\ handle' = NoTimer) \/ UNCHANGED <<timers, handle>>
  BY DEF Hide
<1>3. PollTimer'
  BY <1>1, <1>2 DEF PollInv, PollTimer
<1>4. PollFlags'
  BY <1>1 DEF PollInv, PollFlags
<1>5. PollCount'
  BY <1>1 DEF PollInv, PollCount
<1>. QED
  BY <1>3, <1>4, <1>5 DEF PollInv

LEMMA SamePoll == ASSUME PollInv, UNCHANGED pollVars PROVE PollInv'
<1>1. PollFlags'
  BY DEF PollInv, PollFlags, pollVars
<1>2. PollCount'
  BY DEF PollInv, PollCount, pollVars
<1>3. PollTimer'
  BY DEF PollInv, PollTimer, pollVars
<1>. QED
  BY <1>1, <1>2, <1>3 DEF PollInv

-----------------------------------------------------------------------------
(* The page.                                                               *)

\* A step that leaves the session alone, but perhaps for a fault counted.
LEMMA FeedsOnly == ASSUME SInv, UNCHANGED sessionVars PROVE SInv'
<1>1. faults' \in 0 .. MaxFaults /\ live' \subseteq live
  BY DEF SInv, SessionTypeOK, sessionVars
<1>2. UNCHANGED <<token, stored, loginOpen, gate, booted, calls, minted, weak, loads,
                  gestures, slipped>>
  BY DEF sessionVars
<1>. QED
  BY <1>1, <1>2, QuietSession

LEMMA SameRest == ASSUME RestOK, UNCHANGED <<visible, listeners, streamVars, turns>> PROVE RestOK'
  BY DEF RestOK, streamVars

LEMMA BootKeeps == ASSUME IInv, NEW c \in Calls, BootStep(c) PROVE IInv'
<1>1. SInv'
  BY BootSession DEF IInv, BootStep
<1>2. CASE BootEnds(c)
  <2>1. StartFeeds /\ UNCHANGED <<visible, turns>>
    BY <1>2 DEF BootStep
  <2>2. PollInv'
    BY <2>1, PollKeeps DEF StartFeeds, IInv
  <2>3. RestOK'
    BY <2>1 DEF StartFeeds, StartLiveStream, IInv, RestOK
  <2>. QED
    BY <1>1, <2>2, <2>3 DEF IInv
<1>3. CASE ~BootEnds(c)
  <2>1. UNCHANGED pollVars /\ UNCHANGED <<visible, listeners, streamVars, turns>>
    BY <1>3 DEF BootStep
  <2>. QED
    BY <1>1, <2>1, SamePoll, SameRest DEF IInv
<1>. QED
  BY <1>2, <1>3

LEMMA LoadKeeps == ASSUME IInv, PageLoads PROVE IInv'
<1>1. SInv'
  BY ReloadSession, FactorChangedSession DEF IInv, PageLoads
<1>2. PollInv'
  BY DEF PageLoads, PollInv, PollFlags, PollCount, PollTimer
<1>3. RestOK'
  BY DEF PageLoads, IInv, RestOK
<1>. QED
  BY <1>1, <1>2, <1>3 DEF IInv

LEMMA TimerKeeps == ASSUME IInv, TimerFires PROVE IInv'
<1>1. SInv' /\ RestOK'
  BY FeedsOnly, SameRest DEF IInv, TimerFires
<1>2. PICK t \in timers : PollStatsOnce(timers \ {t})
  BY DEF TimerFires
<1>3. PollInv'
  BY <1>2, PollKeeps DEF IInv
<1>. QED
  BY <1>1, <1>3 DEF IInv

LEMMA TabKeeps == ASSUME IInv, PollSettles \/ Hide \/ Show PROVE IInv'
<1>1. CASE PollSettles
  BY <1>1, FeedsOnly, SameRest, SettleKeeps DEF IInv, PollSettles
<1>2. CASE Hide
  <2>1. UNCHANGED sessionVars /\ UNCHANGED <<listeners, streamVars>>
    BY <1>2 DEF Hide
  <2>a. visible' \in BOOLEAN
    BY <1>2 DEF Hide
  <2>b. turns \in 0 .. MaxTurns /\ turns < MaxTurns /\ turns' = turns + 1 /\ MaxTurns \in Nat
    BY <1>2, TimerAssumption DEF Hide, IInv, RestOK
  <2>2. visible' \in BOOLEAN /\ turns' \in 0 .. MaxTurns
    BY <2>a, <2>b
  <2>3. RestOK'
    BY <2>1, <2>2 DEF IInv, RestOK, streamVars
  <2>. QED
    BY <1>2, <2>1, <2>3, FeedsOnly, HideKeeps DEF IInv
<1>3. CASE Show
  <2>1. UNCHANGED sessionVars /\ visible' = TRUE /\ UNCHANGED <<listeners, streamVars, turns>>
    BY <1>3 DEF Show
  <2>2. RestOK'
    BY <2>1 DEF IInv, RestOK, streamVars
  <2>3. PollStatsOnce(timers) \/ UNCHANGED pollVars
    BY <1>3 DEF Show
  <2>4. PollInv'
    BY <2>3, PollKeeps, SamePoll DEF IInv
  <2>. QED
    BY <2>1, <2>2, <2>4, FeedsOnly DEF IInv
<1>. QED
  BY <1>1, <1>2, <1>3

LEMMA TicketKeeps == ASSUME IInv, TicketAnswered PROVE IInv'
<1>1. UNCHANGED <<token, stored, loginOpen, gate, booted, calls, live, minted, weak, loads,
                  gestures, slipped, visible, pollVars, listeners, turns>>
  BY DEF TicketAnswered
<1>2. faults \in 0 .. MaxFaults
  BY DEF IInv, SInv, SessionTypeOK
<1>3. faults' = faults \/ (faults < MaxFaults /\ faults' = faults + 1)
  BY DEF TicketAnswered
<1>4. faults' \in 0 .. MaxFaults
  BY <1>2, <1>3, SessionAssumption
<1>5. SInv'
  BY <1>1, <1>4, QuietSession DEF IInv
<1>6. /\ tickets' \in Nat /\ lost' \in Nat
      /\ source' \in {"none", "open", "dead", "closed"}
  BY DEF TicketAnswered, IInv, RestOK
<1>7. RestOK'
  BY <1>1, <1>6 DEF IInv, RestOK
<1>8. PollInv'
  BY <1>1, SamePoll DEF IInv
<1>. QED
  BY <1>5, <1>7, <1>8 DEF IInv

LEMMA Inductive == IInv /\ [Next]_vars => IInv'
<1>. SUFFICES ASSUME IInv, [Next]_vars PROVE IInv'
  OBVIOUS
<1>1. CASE SessionStep /\ UNCHANGED feedVars
  <2>1. SInv'
    BY <1>1, StepSession DEF IInv
  <2>. QED
    BY <1>1, <2>1, SamePoll, SameRest DEF IInv, feedVars
<1>2. ASSUME NEW c \in Calls, BootStep(c) PROVE IInv'
  BY <1>2, BootKeeps
<1>3. CASE PageLoads
  BY <1>3, LoadKeeps
<1>4. CASE TimerFires
  BY <1>4, TimerKeeps
<1>5. CASE PollSettles \/ Hide \/ Show
  BY <1>5, TabKeeps
<1>6. CASE TicketAnswered
  BY <1>6, TicketKeeps
<1>7. CASE UNCHANGED vars
  BY <1>7, FeedsOnly, SamePoll, SameRest DEF IInv, vars, feedVars
<1>. QED
  BY <1>1, <1>2, <1>3, <1>4, <1>5, <1>6, <1>7 DEF Next

LEMMA Initial == Init => IInv
<1>. SUFFICES ASSUME Init PROVE IInv
  OBVIOUS
<1>1. SInv
  BY InitSession DEF Init
<1>2. PollInv
  BY DEF Init, PollInv, PollFlags, PollCount, PollTimer
<1>3. RestOK
  BY TimerAssumption DEF Init, RestOK
<1>. QED
  BY <1>1, <1>2, <1>3 DEF IInv

LEMMA Invariance == Spec => []IInv
<1>. QED
  BY Initial, Inductive, PTL DEF Spec

-----------------------------------------------------------------------------
(* The theorems.                                                           *)

\* The variables of the page and of the daemon keep their types.
THEOREM TypeCorrect == Spec => []TypeOK
<1>1. IInv => TypeOK
  <2>. SUFFICES ASSUME IInv PROVE TypeOK
    OBVIOUS
  <2>1. polls \in Nat
    BY DEF IInv, PollInv, PollCount
  <2>2. inFlight \in BOOLEAN /\ timers \subseteq Timers /\ handle \in timers \cup {NoTimer}
    BY DEF IInv, PollInv, PollFlags, PollTimer
  <2>. QED
    BY <2>1, <2>2 DEF IInv, SInv, RestOK, TypeOK, FeedsTypeOK
<1>. QED
  BY <1>1, Invariance, PTL

\* However many boots start a chain, and however the tab is hidden and shown in
\* between, the daemon has one statistics request of a page to answer, and the flag
\* tells whether it has (app.js:1337-1341).
THEOREM OnePollHolds == Spec => []OnePoll
<1>1. IInv => OnePoll
  BY DEF IInv, PollInv, PollCount, OnePoll
<1>. QED
  BY <1>1, Invariance, PTL

\* A page that booted on a password that fails the policy shows the forced modal,
\* for any number of sign-ins, boots and credential changes under way at once
\* (app.js:472, 697).
THEOREM GateHolds == Spec => []WeakGate
<1>1. IInv => WeakGate
  BY DEF IInv, SInv, GateUp, WeakGate
<1>. QED
  BY <1>1, Invariance, PTL
-----------------------------------------------------------------------------
(* Polling goes on.                                                        *)

\* Arming a timer leaves one armed, and a poll that is shown leaves a request out or
\* a timer armed.
LEMMA PollGoesOn ==
    ASSUME PollInv, NEW armed \in SUBSET Timers, PollStatsOnce(armed), visible'
    PROVE  inFlight' \/ timers' # {}
<1>1. CASE inFlight
  BY <1>1 DEF PollStatsOnce
<1>2. CASE ~inFlight
  BY <1>2 DEF PollStatsOnce, Arm
<1>. QED
  BY <1>1, <1>2

LEMMA PollsOnStep == IInv /\ PollsOn /\ [Next]_vars => PollsOn'
<1>. SUFFICES ASSUME IInv, PollsOn, [Next]_vars PROVE PollsOn'
  OBVIOUS
<1>0. PollInv /\ timers \subseteq Timers
  BY DEF IInv, PollInv, PollTimer
<1>1. CASE SessionStep /\ UNCHANGED feedVars
  BY <1>1 DEF feedVars, pollVars, PollsOn
<1>2. ASSUME NEW c \in Calls, BootStep(c) PROVE PollsOn'
  <2>1. CASE BootEnds(c)
    <3>1. PollStatsOnce(timers)
      BY <1>2, <2>1 DEF BootStep, StartFeeds
    <3>. QED
      BY <1>0, <3>1, PollGoesOn DEF PollsOn
  <2>2. CASE ~BootEnds(c)
    BY <1>2, <2>2 DEF BootStep, pollVars, PollsOn
  <2>. QED
    BY <2>1, <2>2
<1>3. CASE PageLoads
  BY <1>3 DEF PageLoads, PollsOn
<1>4. CASE TimerFires
  <2>1. PICK t \in timers : PollStatsOnce(timers \ {t})
    BY <1>4 DEF TimerFires
  <2>2. timers \ {t} \subseteq Timers
    BY <1>0
  <2>. QED
    BY <1>0, <2>1, <2>2, PollGoesOn DEF PollsOn
<1>5. CASE PollSettles
  <2>1. visible' = visible
    BY <1>5 DEF PollSettles
  <2>. QED
    BY <1>5, <2>1 DEF PollSettles, Arm, PollsOn
<1>6. CASE Hide
  BY <1>6 DEF Hide, PollsOn
<1>7. CASE Show
  <2>1. visible' /\ listeners' = listeners
    BY <1>7 DEF Show
  <2>2. CASE listeners > 0 /\ handle = NoTimer
    <3>1. PollStatsOnce(timers)
      BY <1>7, <2>2 DEF Show
    <3>. QED
      BY <1>0, <2>1, <3>1, PollGoesOn DEF PollsOn
  <2>3. CASE listeners > 0 /\ handle # NoTimer
    BY <1>0, <1>7, <2>3 DEF PollInv, PollTimer, Show, pollVars, PollsOn
  <2>4. CASE ~(listeners > 0)
    BY <2>1, <2>4 DEF PollsOn
  <2>. QED
    BY <2>2, <2>3, <2>4
<1>8. CASE TicketAnswered
  BY <1>8 DEF TicketAnswered, pollVars, PollsOn
<1>9. CASE UNCHANGED vars
  BY <1>9 DEF vars, feedVars, pollVars, PollsOn
<1>. QED
  BY <1>1, <1>2, <1>3, <1>4, <1>5, <1>6, <1>7, <1>8, <1>9 DEF Next

\* However the page boots, hides, shows and signs out, a page that has started to poll
\* and is shown has a request out or a timer armed: no chain of callbacks ends
\* (app.js:1343-1385). That the poll then comes round is a matter of fairness.
THEOREM PollingGoesOn == Spec => []PollsOn
<1>1. Init => PollsOn
  BY DEF Init, PollsOn
<1>2. PollsOn /\ IInv /\ [Next]_vars => PollsOn'
  BY PollsOnStep
<1>. QED
  BY <1>1, <1>2, Invariance, PTL DEF Spec

-----------------------------------------------------------------------------
(* Signing out.                                                            *)

\* A slot that is not of a sign-out, or stays of it.
LEMMA OtherSlot ==
    ASSUME calls \in [Calls -> Call], NEW x \in Calls, NEW k, Put(x, k),
           calls[x].op = "logout" => k.op = "logout"
    PROVE  Leaves
<1>1. calls'[x] = k /\ \A c \in Calls : c # x => calls'[c] = calls[c]
  BY DEF Put
<1>2. \A c \in Calls : calls[c].op = "logout" => calls'[c].op = "logout"
  BY <1>1
<1>. QED
  BY <1>2 DEF Leaves, Leaving

LEMMA SameSlots == UNCHANGED calls => Leaves
  BY DEF Leaves, Leaving

LEMMA IdleOp == Idle.op = "idle"
  BY DEF Idle

LEMMA SessionLeaves == SInv /\ SessionStep => Leaves
<1>. SUFFICES ASSUME SInv, SessionStep PROVE Leaves
  OBVIOUS
<1>1. calls \in [Calls -> Call]
  BY DEF SInv, SessionTypeOK
<1>2. ASSUME NEW c \in Calls, SubmitLogin(c) \/ SignOut(c) \/ SubmitFactor(c)
      PROVE  Leaves
  <2>1. calls[c].op # "logout" /\ \E k : Put(c, k)
    BY <1>2, IdleOp DEF SubmitLogin, SignOut, SubmitFactor
  <2>. QED
    BY <1>1, <2>1, OtherSlot
<1>3. ASSUME NEW c \in Calls, NEW op \in {"change", "rename"}, SubmitCredentials(c, op)
      PROVE  Leaves
  <2>1. calls[c].op # "logout" /\ \E k : Put(c, k)
    BY <1>3, IdleOp DEF SubmitCredentials
  <2>. QED
    BY <1>1, <2>1, OtherSlot
<1>4. ASSUME NEW c \in Calls, LoginAnswered(c) \/ CredentialsAnswered(c) \/ FactorRefused(c)
      PROVE  Leaves
  <2>1. calls[c].op # "logout"
    BY <1>4 DEF LoginAnswered, CredentialsAnswered, FactorRefused, Settled
  <2>2. \E k : Put(c, k)
    BY <1>4 DEF LoginAnswered, CredentialsAnswered, FactorRefused
  <2>. QED
    BY <1>1, <2>1, <2>2, OtherSlot
<1>5. ASSUME NEW c \in Calls, SignedOut(c) PROVE Leaves
  <2>1. token' = 0 /\ loginOpen' = TRUE /\ stored' = [k \in Keys |-> 0]
    BY <1>5 DEF SignedOut
  <2>2. Outside'
    BY <2>1 DEF Outside
  <2>. QED
    BY <2>2 DEF Leaves
<1>6. ASSUME NEW c \in Calls, Lose(c) PROVE Leaves
  <2>1. [calls[c] EXCEPT !.ans = "lost", !.gift = 0].op = calls[c].op
    BY <1>1 DEF Call
  <2>2. Put(c, [calls[c] EXCEPT !.ans = "lost", !.gift = 0])
    BY <1>6 DEF Lose
  <2>. QED
    BY <1>1, <2>1, <2>2, OtherSlot
<1>7. ASSUME NEW c \in Calls, Serve(c) PROVE Leaves
  <2>1. ASSUME NEW ans, NEW gift, NEW w, Answer(c, ans, gift, w) PROVE Leaves
    <3>1. [calls[c] EXCEPT !.ans = ans, !.gift = gift, !.weak = @ \/ w].op = calls[c].op
      BY <1>1 DEF Call
    <3>. QED
      BY <1>1, <2>1, <3>1, OtherSlot DEF Answer
  <2>2. Grant(c) => \E ans, gift, w : Answer(c, ans, gift, w)
    BY DEF Grant
  <2>3. \E ans, gift, w : Answer(c, ans, gift, w)
    BY <1>7, <2>2 DEF Serve
  <2>. QED
    BY <2>1, <2>3
<1>8. CASE OpenCredentials \/ CloseCredentials
  BY <1>8, SameSlots DEF OpenCredentials, CloseCredentials
<1>9. ASSUME NEW t \in Tokens, Expire(t) PROVE Leaves
  BY <1>9, SameSlots DEF Expire
<1>. QED
  BY <1>2, <1>3, <1>4, <1>5, <1>6, <1>7, <1>8, <1>9 DEF SessionStep

LEMMA StepLeaves == IInv /\ [Next]_vars => Leaves
<1>. SUFFICES ASSUME IInv, [Next]_vars PROVE Leaves
  OBVIOUS
<1>1. SInv /\ calls \in [Calls -> Call] /\ loads \in Nat
  BY DEF IInv, SInv, SessionTypeOK
<1>2. CASE SessionStep
  BY <1>1, <1>2, SessionLeaves
<1>3. ASSUME NEW c \in Calls, BootStep(c) PROVE Leaves
  <2>1. calls[c].op # "logout"
    BY <1>3 DEF BootStep, Boot, ReadAccount, ReadConfig, ReadClients, ReadPolicies, Settled
  <2>2. \E k : Put(c, k)
    BY <1>3 DEF BootStep, Boot, ReadAccount, ReadConfig, ReadClients, ReadPolicies, Proceed
  <2>. QED
    BY <1>1, <2>1, <2>2, OtherSlot
<1>4. CASE PageLoads
  <2>1. loads' = loads + 1
    BY <1>4 DEF PageLoads, Reload, FactorChanged, Load
  <2>. QED
    BY <1>1, <2>1 DEF Leaves
<1>5. CASE TimerFires \/ PollSettles \/ Hide \/ Show
  BY <1>5, SameSlots DEF TimerFires, PollSettles, Hide, Show, sessionVars
<1>6. CASE TicketAnswered
  BY <1>6, SameSlots DEF TicketAnswered
<1>7. CASE UNCHANGED vars
  BY <1>7, SameSlots DEF vars, sessionVars
<1>. QED
  BY <1>2, <1>3, <1>4, <1>5, <1>6, <1>7 DEF Next

\* Whatever the daemon answers to a sign-out, or if it never does, and whatever else is
\* under way, the operator ends at the login screen with no token left in memory or
\* under either key, or on a page loaded since (app.js:347-349).
THEOREM SignOutsLand == Spec => LeavesClean
<1>1. IInv /\ [Next]_vars => [Leaves]_sessionVars
  BY StepLeaves
<1>. QED
  BY <1>1, Invariance, PTL DEF Spec, LeavesClean
=============================================================================
