----------------------------- MODULE UpstreamRace -----------------------------
(* The upstream pool: core/upstream/racer.go.  Latency estimates, and with them *)
(* the benchmark that measures them, are left out.                              *)
(*                                                                              *)
(* A call is one Exchange.  Racing, it starts a goroutine per resolver and      *)
(* collects their results from a channel; otherwise it asks them one by one.    *)
(* The call's context is live, expired (its deadline passed) or canceled (the   *)
(* call returned), and a resolver's goroutine may outlive the call.  What a     *)
(* resolver answers, and how an exchange ends once its context is done, is the  *)
(* DNS library's and the network's: any outcome the code tells apart.           *)
EXTENDS Integers, Sequences, SequencesExt, FiniteSets

CONSTANTS
    Addrs,       \* usable host:port addresses
    Calls,       \* Exchange calls, each made once
    Replies,     \* messages a resolver can send, as records [rcode, tc, own]
    Configs,     \* lists an operator can configure, as normalizeUpstreams leaves them
    NoReply, NoStat

Lists == { l \in Seq(Addrs) : \A i, j \in DOMAIN l : l[i] = l[j] => i = j }

ASSUME RepliesAssumption ==
    /\ Replies \subseteq [ rcode : STRING, tc : BOOLEAN, own : BOOLEAN ]
    /\ NoReply \notin Replies
    /\ NoStat \notin [ hits : Nat, errors : Nat ]
    /\ Configs \subseteq Lists

VARIABLES
    racing,      \* UpstreamPool.racing
    upstreams,   \* UpstreamPool.upstreams
    stats,       \* UpstreamPool.stats: hits and errors; latencies are left out
    call,        \* per call: program counter and locals of Exchange
    query,       \* per call and resolver: the goroutine (or loop body) asking it
    chan         \* resChan of every call: resolvers whose results wait in it

vars == << racing, upstreams, stats, call, query, chan >>
pool == << racing, upstreams >>

------------------------------------------------------------------------------
(* Results *)

\* A result of queryOne: a message or an error.
Message(m) == [ err |-> "none", msg |-> m ]
Failure(e) == [ err |-> e, msg |-> NoReply ]

\* usableRcode: a truncated message is none, whatever its rcode.
UsableRcode(m) == ~m.tc /\ m.rcode \in {"NOERROR", "NXDOMAIN"}

Usable(res) == res.err = "none" /\ UsableRcode(res.msg)

\* queryOne's last check, on whichever message the retry left.
Checked(m) == IF m.own THEN Message(m) ELSE Failure("mismatch")

------------------------------------------------------------------------------
(* State *)

Off  == [ pc |-> "off", udp |-> NoReply, res |-> Failure("none") ]
Busy == { "udp", "tcp", "record", "send" }

Fresh == [ hits |-> 0, errors |-> 0 ]

Init ==
    /\ racing \in BOOLEAN
    /\ upstreams \in Configs
    /\ stats = [u \in Addrs |-> IF Contains(upstreams, u) THEN Fresh ELSE NoStat]
    /\ call = [x \in Calls |-> [ pc |-> "idle", list |-> << >>, got |-> {}, ctx |-> "live",
                                 fallback |-> NoReply, out |-> Failure("none") ]]
    /\ query = [x \in Calls |-> [u \in Addrs |-> Off]]
    /\ chan = [x \in Calls |-> << >>]

Locals(x, f)   == call' = [call EXCEPT ![x] = f]
Asks(x, u, q)  == query' = [query EXCEPT ![x][u] = q]

\* recordStat: a resolver that left the list in the meantime has no statistics.
RecordStat(u, ok) ==
    stats' = IF stats[u] = NoStat THEN stats
             ELSE IF ok THEN [stats EXCEPT ![u].hits = @ + 1]
             ELSE [stats EXCEPT ![u].errors = @ + 1]

------------------------------------------------------------------------------
(* Exchange *)

InRace(x) == racing /\ Len(call[x].list) > 1

\* The list is copied under the lock; racing asks all of it, sequentially the first.
Begin(x) ==
    LET list  == upstreams
        first == IF racing THEN Range(list) ELSE {list[1]}
    IN
    /\ call[x].pc = "idle"
    /\ list # << >>
    /\ Locals(x, [call[x] EXCEPT !.pc = "collect", !.list = list])
    /\ query' = [query EXCEPT ![x] = [u \in Addrs |->
                    IF u \in first THEN [Off EXCEPT !.pc = "udp"] ELSE Off]]
    /\ UNCHANGED << stats, chan, pool >>

NoneConfigured(x) ==
    /\ call[x].pc = "idle"
    /\ upstreams = << >>
    /\ Locals(x, [call[x] EXCEPT !.pc = "returned", !.out = Failure("no upstreams")])
    /\ UNCHANGED << stats, query, chan, pool >>

\* The deadline both ways share.
Deadline(x) ==
    /\ call[x].pc = "collect" /\ call[x].ctx = "live"
    /\ Locals(x, [call[x] EXCEPT !.ctx = "expired"])
    /\ UNCHANGED << stats, query, chan, pool >>

\* How the library reports an exchange it gives up: by a network error at any
\* time, by the context's error once it is done.
Errors(x) ==
    CASE call[x].ctx = "live"     -> {"network"}
      [] call[x].ctx = "expired"  -> {"network", "deadline"}
      [] call[x].ctx = "canceled" -> {"network", "canceled"}

\* queryOne: a truncated answer is asked for again over TCP.
AnswerUDP(x, u, m) ==
    /\ query[x][u].pc = "udp"
    /\ Asks(x, u, IF m.tc THEN [query[x][u] EXCEPT !.pc = "tcp", !.udp = m]
                  ELSE [query[x][u] EXCEPT !.pc = "record", !.res = Checked(m)])
    /\ UNCHANGED << stats, call, chan, pool >>

FailUDP(x, u) ==
    /\ query[x][u].pc = "udp"
    /\ \E e \in Errors(x) :
          Asks(x, u, [query[x][u] EXCEPT !.pc = "record", !.res = Failure(e)])
    /\ UNCHANGED << stats, call, chan, pool >>

AnswerTCP(x, u, m) ==
    /\ query[x][u].pc = "tcp"
    /\ Asks(x, u, [query[x][u] EXCEPT !.pc = "record", !.res = Checked(m)])
    /\ UNCHANGED << stats, call, chan, pool >>

\* Whatever the error, the truncated answer stays.
FailTCP(x, u) ==
    /\ query[x][u].pc = "tcp"
    /\ Asks(x, u, [query[x][u] EXCEPT !.pc = "record", !.res = Checked(query[x][u].udp)])
    /\ UNCHANGED << stats, call, chan, pool >>

\* Fault: the context is asked, not the error, as before B-12.
RecordByContext(x, u) ==
    LET q == query[x][u] IN
    /\ q.pc = "record"
    /\ IF q.res.err = "none" \/ call[x].ctx # "canceled"
       THEN RecordStat(u, Usable(q.res)) ELSE UNCHANGED stats
    /\ Asks(x, u, [q EXCEPT !.pc = IF InRace(x) THEN "send" ELSE "done"])
    /\ UNCHANGED << call, chan, pool >>

\* A query abandoned because another answered is not held against its resolver.
Record(x, u) ==
    LET q == query[x][u] IN
    /\ q.pc = "record"
    /\ IF InRace(x) /\ q.res.err = "canceled" THEN UNCHANGED stats
       ELSE RecordStat(u, Usable(q.res))
    /\ Asks(x, u, [q EXCEPT !.pc = IF InRace(x) THEN "send" ELSE "done"])
    /\ UNCHANGED << call, chan, pool >>

\* The channel has room for every result; with the context done the select may
\* take either branch.
Send(x, u) ==
    /\ query[x][u].pc = "send"
    /\ \/ /\ Len(chan[x]) < Len(call[x].list)
          /\ chan' = [chan EXCEPT ![x] = Append(@, u)]
       \/ /\ call[x].ctx # "live"
          /\ UNCHANGED chan
    /\ Asks(x, u, [query[x][u] EXCEPT !.pc = "done"])
    /\ UNCHANGED << stats, call, pool >>

------------------------------------------------------------------------------
(* The caller *)

\* Returning runs the deferred cancel.
Return(x, f, out) ==
    Locals(x, [f EXCEPT !.pc = "returned", !.out = out,
                        !.ctx = IF @ = "live" THEN "canceled" ELSE @])

\* No usable answer came: the first message that was none, or an error.
Verdict(f) == IF f.fallback # NoReply THEN Message(f.fallback) ELSE Failure("failed")

\* What the loop keeps of a result that is not usable.
Noted(x, u) ==
    LET f   == call[x]
        res == query[x][u].res
    IN  [f EXCEPT !.got = @ \cup {u},
                  !.fallback = IF @ = NoReply /\ res.err = "none" THEN res.msg ELSE @]

\* Fault: the first message is given out whether usable or not.
ReceiveFirst(x) ==
    /\ call[x].pc = "collect" /\ InRace(x) /\ chan[x] # << >>
    /\ LET u == Head(chan[x])
       IN  IF query[x][u].res.err = "none" THEN Return(x, call[x], query[x][u].res)
           ELSE IF Noted(x, u).got = Range(call[x].list)
                THEN Return(x, Noted(x, u), Verdict(Noted(x, u)))
                ELSE Locals(x, Noted(x, u))
    /\ chan' = [chan EXCEPT ![x] = Tail(@)]
    /\ UNCHANGED << stats, query, pool >>

\* exchangeRacing's collect loop: one receive per resolver.
Receive(x) ==
    /\ call[x].pc = "collect" /\ InRace(x) /\ chan[x] # << >>
    /\ LET u == Head(chan[x])
           f == Noted(x, u)
       IN  IF Usable(query[x][u].res) THEN Return(x, call[x], query[x][u].res)
           ELSE IF f.got = Range(f.list) THEN Return(x, f, Verdict(f))
           ELSE Locals(x, f)
    /\ chan' = [chan EXCEPT ![x] = Tail(@)]
    /\ UNCHANGED << stats, query, pool >>

\* Fault: the deadline ends the loop only once there is something to fall back on.
SeeDoneWithFallback(x) ==
    /\ call[x].pc = "collect" /\ InRace(x) /\ call[x].ctx = "expired"
    /\ call[x].fallback # NoReply
    /\ Return(x, call[x], Verdict(call[x]))
    /\ UNCHANGED << stats, query, chan, pool >>

\* The deadline ends it even if results wait in the channel.
SeeDone(x) ==
    /\ call[x].pc = "collect" /\ InRace(x) /\ call[x].ctx = "expired"
    /\ Return(x, call[x], Verdict(call[x]))
    /\ UNCHANGED << stats, query, chan, pool >>

\* exchangeSequential, after a query of the loop: the next resolver is asked
\* unless the answer is usable, the list is at its end or the deadline has passed.
NextInTurn(x, u) ==
    /\ call[x].pc = "collect" /\ ~InRace(x)
    /\ query[x][u].pc = "done" /\ u \notin call[x].got
    /\ LET f == Noted(x, u)
           n == Cardinality(f.got)
       IN  IF Usable(query[x][u].res)
           THEN Return(x, call[x], query[x][u].res) /\ UNCHANGED query
           ELSE IF n = Len(f.list) \/ f.ctx = "expired"
           THEN Return(x, f, Verdict(f)) /\ UNCHANGED query
           ELSE /\ Locals(x, f)
                /\ Asks(x, f.list[n + 1], [Off EXCEPT !.pc = "udp"])
    /\ UNCHANGED << stats, chan, pool >>

------------------------------------------------------------------------------
(* The panel *)

\* The panel's new list, normalized.
SetUpstreams(list) ==
    /\ upstreams' = list
    /\ stats' = [u \in Addrs |-> IF ~Contains(list, u) THEN NoStat
                                 ELSE IF stats[u] = NoStat THEN Fresh ELSE stats[u]]
    /\ UNCHANGED << racing, call, query, chan >>

------------------------------------------------------------------------------

QueryStep(x, u) ==
    \/ \E m \in Replies : AnswerUDP(x, u, m) \/ AnswerTCP(x, u, m)
    \/ FailUDP(x, u) \/ FailTCP(x, u) \/ Record(x, u) \/ Send(x, u)

CallerStep(x) == Receive(x) \/ SeeDone(x) \/ \E u \in Addrs : NextInTurn(x, u)

Next ==
    \/ \E x \in Calls : Begin(x) \/ NoneConfigured(x) \/ Deadline(x) \/ CallerStep(x)
    \/ \E x \in Calls, u \in Addrs : QueryStep(x, u)
    \/ \E list \in Configs : SetUpstreams(list)

Spec == Init /\ [][Next]_vars

\* Started goroutines are scheduled, every exchange of the library ends (each of
\* its sockets has a deadline), and the context's timer fires.
Fairness ==
    /\ \A x \in Calls : WF_vars(Deadline(x)) /\ WF_vars(CallerStep(x))
    /\ \A x \in Calls, u \in Addrs : WF_vars(QueryStep(x, u))

FairSpec == Spec /\ Fairness

------------------------------------------------------------------------------
(* Properties *)

Msgs    == Replies \cup {NoReply}
Results == [ err : {"none", "mismatch", "network", "deadline", "canceled", "failed", "no upstreams"},
             msg : Msgs ]

TypeOK ==
    /\ racing \in BOOLEAN
    /\ upstreams \in Lists
    /\ \A u \in Addrs : stats[u] = NoStat \/ stats[u] \in [hits : Nat, errors : Nat]
    /\ \A u \in Addrs : stats[u] # NoStat <=> Contains(upstreams, u)
    /\ call \in [Calls -> [ pc : {"idle", "collect", "returned"}, list : Lists,
                            got : SUBSET Addrs, ctx : {"live", "expired", "canceled"},
                            fallback : Msgs, out : Results ]]
    /\ query \in [Calls -> [Addrs -> [ pc : Busy \cup {"off", "done"}, udp : Msgs, res : Results ]]]
    /\ chan \in [Calls -> Lists]

\* The statistics show what the resolvers did (exchangeRacing on B-12).  A resolver
\* is charged an error whenever it failed, though another had won the race by then,
\* and not for an exchange the winner's cancel cut short.
Recorded(x, u) == query[x][u].pc = "record" /\ query'[x][u].pc # "record"
OwnFailure(res) == res.err \in {"mismatch", "network", "deadline"}
                      \/ (res.err = "none" /\ ~UsableRcode(res.msg))
BlameFits ==
    [][\A u \in Addrs :
          LET failed == \E x \in Calls : Recorded(x, u) /\ OwnFailure(query[x][u].res)
          IN  (stats[u] # NoStat /\ stats'[u] # NoStat) =>
                 /\ failed => stats'[u].errors = stats[u].errors + 1
                 /\ stats'[u].errors > stats[u].errors => failed]_vars

\* The exchange keeps UpstreamPromise, racing or in sequence.  The promise knows no
\* message that answers another question, so none is given out, and none counts as
\* heard, whichever of the two transports it came by (answersTheQuestion).
Kind(res) ==
    IF res.err # "none" THEN "error"
    ELSE IF ~res.msg.own THEN "of another question"   \* never heard, never given out
    ELSE IF UsableRcode(res.msg) THEN "answer" ELSE "verdict"

Asked   == [x \in Calls |-> Range(call[x].list)]
Said    == [x \in Calls |-> [u \in Addrs |->
              IF query[x][u].pc \in {"record", "send", "done"} THEN Kind(query[x][u].res)
              ELSE "nothing"]]
Late    == { x \in Calls : call[x].ctx = "expired" }
Outcome == [x \in Calls |-> IF call[x].pc = "returned" THEN Kind(call[x].out) ELSE "none"]

Promise == INSTANCE UpstreamPromise WITH
    asked <- Asked, said <- Said, late <- Late, outcome <- Outcome
PromiseSpec == Promise!Spec

\* Every exchange ends, by an answer or by its deadline, and a resolver's goroutine
\* ends though nobody waits for its result any more.
ExchangeReturns ==
    \A x \in Calls :
        /\ (call[x].pc = "collect") ~> (call[x].pc = "returned")
        /\ \A u \in Addrs : (query[x][u].pc \in Busy) ~> (query[x][u].pc \notin Busy)
=============================================================================
