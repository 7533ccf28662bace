-------------------------- MODULE UpstreamRaceProofs --------------------------
(* What UpstreamRace's run shows for two resolvers, for any number of calls,     *)
(* resolvers, messages and lists: types, that an exchange keeps the promise of   *)
(* UpstreamPromise, racing or in sequence, and that a resolver is charged for    *)
(* its own failures and for no other.                                            *)
EXTENDS UpstreamRace, SequenceTheorems, FiniteSetTheorems, TLAPS

------------------------------------------------------------------------------
(* The invariant *)

CallRec == [ pc : {"idle", "collect", "returned"}, list : Lists, got : SUBSET Addrs,
             ctx : {"live", "expired", "canceled"}, fallback : Msgs, out : Results ]
Ask     == [ pc : Busy \cup {"off", "done"}, udp : Msgs, res : Results ]
Asks0   == [Addrs -> Ask]
Stat    == [ hits : Nat, errors : Nat ]
Spoken  == { "record", "send", "done" }

Races(c) == racing /\ Len(c.list) > 1

\* What a query can have come to: a message about the right question, or an error.
Sound(res) ==
    /\ res.err \in {"none", "mismatch", "network", "deadline", "canceled"}
    /\ res.err = "none" => res.msg \in Replies /\ res.msg.own

\* In sequence: the resolvers heard are the first of the list, in order, and beyond
\* the next one nobody was asked.
InTurn(c, q) ==
    LET n == Cardinality(c.got) IN
    /\ IsFiniteSet(c.got) /\ n < Len(c.list)
    /\ c.got = { c.list[i] : i \in 1 .. n }
    /\ \A u \in Addrs : q[u].pc # "off" => \E i \in 1 .. n + 1 : u = c.list[i]

\* A call, its queries and its channel.
CallOK(c, q, ch) ==
    /\ c.pc = "idle" => /\ c.list = << >> /\ c.got = {} /\ c.ctx = "live"
                        /\ c.fallback = NoReply /\ ch = << >>
    /\ c.pc = "collect" => c.list # << >>
    /\ c.ctx = "canceled" => c.pc = "returned"
    /\ \A u \in Addrs : q[u].pc # "off" => u \in Range(c.list)

\* What was heard, and what of it the caller has taken from the channel.
HeardOK(c, q, ch) ==
    /\ \A u \in Addrs : q[u].pc = "tcp" => q[u].udp \in Replies
    /\ \A u \in Addrs : q[u].pc \in Spoken => Sound(q[u].res)
    /\ \A u \in Range(ch) : q[u].pc = "done"
    /\ \A u \in c.got : q[u].pc = "done" /\ ~Usable(q[u].res)
    /\ c.fallback = NoReply => \A u \in c.got : q[u].res.err # "none"
    /\ c.fallback # NoReply => \E u \in c.got : q[u].res.err = "none" /\ q[u].res.msg = c.fallback

TurnOK(c, q) ==
    ~Races(c) => /\ c.pc = "collect" => InTurn(c, q)
                 /\ c.pc = "returned" => \A u \in Addrs : q[u].pc \notin Busy
                 /\ \A u \in Addrs : q[u].pc = "record" => q[u].res.err # "canceled"

Types ==
    /\ racing \in BOOLEAN
    /\ upstreams \in Lists
    /\ stats \in [Addrs -> Stat \cup {NoStat}]
    /\ \A u \in Addrs : stats[u] # NoStat <=> Contains(upstreams, u)
    /\ call \in [Calls -> CallRec]
    /\ query \in [Calls -> Asks0]
    /\ chan \in [Calls -> Lists]

Good(c, q, ch) == CallOK(c, q, ch) /\ HeardOK(c, q, ch) /\ TurnOK(c, q)

IInv == Types /\ \A x \in Calls : Good(call[x], query[x], chan[x])

LEMMA OffType == Off \in Ask /\ Off.pc = "off"
BY DEF Off, Ask, Failure, Results, Msgs

LEMMA TypesToTypeOK == Types => TypeOK
BY DEF Types, TypeOK, CallRec, Asks0, Ask, Stat

LEMMA InvInit == Init => IInv
<1> SUFFICES ASSUME Init PROVE IInv
  OBVIOUS
<1> DEFINE idle == [ pc |-> "idle", list |-> << >>, got |-> {}, ctx |-> "live",
                     fallback |-> NoReply, out |-> Failure("none") ]
<1>1. << >> \in Lists /\ Range(<< >>) = {}
  BY DEF Lists, Range
<1>2. idle \in CallRec
  BY <1>1 DEF CallRec, Msgs, Results, Failure
<1>3. Types
  <2>1. call \in [Calls -> CallRec] /\ query \in [Calls -> Asks0] /\ chan \in [Calls -> Lists]
    BY <1>1, <1>2, OffType DEF Init, Asks0
  <2>2. stats \in [Addrs -> Stat \cup {NoStat}] /\ \A u \in Addrs : stats[u] # NoStat <=> Contains(upstreams, u)
    BY RepliesAssumption DEF Init, Fresh, Stat
  <2> QED BY <2>1, <2>2, RepliesAssumption DEF Types, Init
<1>4. ASSUME NEW x \in Calls PROVE Good(call[x], query[x], chan[x])
  <2>1. call[x] = idle /\ query[x] = [u \in Addrs |-> Off] /\ chan[x] = << >>
    BY DEF Init
  <2>2. \A u \in Addrs : query[x][u].pc = "off"
    BY <2>1, OffType
  <2>3. TurnOK(call[x], query[x])
    BY <2>1, <2>2 DEF TurnOK, Busy
  <2>4. CallOK(call[x], query[x], chan[x]) /\ HeardOK(call[x], query[x], chan[x])
    BY <1>1, <2>1, <2>2 DEF CallOK, HeardOK, Spoken
  <2> QED BY <2>3, <2>4 DEF Good
<1> QED BY <1>3, <1>4 DEF IInv

------------------------------------------------------------------------------
(* Steps of one call *)

\* Nothing of the other calls moves.
OthersSame(x) ==
    \A y \in Calls : y # x => call'[y] = call[y] /\ query'[y] = query[y] /\ chan'[y] = chan[y]

LEMMA CallStep ==
    ASSUME IInv, NEW x \in Calls, OthersSame(x), racing' = racing, Types',
           Good(call[x], query[x], chan[x])'
    PROVE  IInv'
<1>1. ASSUME NEW y \in Calls, y # x PROVE Good(call[y], query[y], chan[y])'
  BY <1>1 DEF OthersSame, IInv, Good, CallOK, HeardOK, TurnOK, InTurn, Races
<1> QED BY <1>1 DEF IInv

\* The query of one resolver moves on.
LEMMA AskStep ==
    ASSUME IInv, NEW x \in Calls, NEW u \in Addrs, NEW a \in Ask, Asks(x, u, a), call' = call,
           UNCHANGED pool, stats' \in [Addrs -> Stat \cup {NoStat}],
           \A v \in Addrs : stats'[v] # NoStat <=> stats[v] # NoStat,
           query[x][u].pc \in Busy, a.pc # "off",
           a.pc = "tcp" => a.udp \in Replies,
           a.pc \in Spoken => Sound(a.res),
           (~Races(call[x]) /\ a.pc = "record") => a.res.err # "canceled",
           \/ chan' = chan
           \/ chan' = [chan EXCEPT ![x] = Append(@, u)] /\ a.pc = "done"
    PROVE  IInv'
<1> DEFINE c == call[x]
           q == query[x]
           w == query'[x]
<1>1. Types /\ Good(c, q, chan[x]) /\ c \in CallRec /\ q \in Asks0 /\ chan[x] \in Lists
  BY DEF IInv, Types
<1>2. w = [q EXCEPT ![u] = a] /\ w[u] = a /\ \A v \in Addrs : v # u => w[v] = q[v]
  BY <1>1 DEF Asks, Types, Asks0
<1>3. u \in Range(c.list) /\ c.pc # "idle"
  <2>1. u \in Range(c.list)
    BY <1>1 DEF Good, CallOK, Busy
  <2> QED BY <1>1, <2>1 DEF Good, CallOK, Range
<1>4. u \notin c.got /\ u \notin Range(chan[x])
  BY <1>1 DEF Good, HeardOK, Busy
<1>5. chan' \in [Calls -> Lists] /\ Range(chan'[x]) \in {Range(chan[x]), Range(chan[x]) \cup {u}}
      /\ (u \in Range(chan'[x]) => a.pc = "done") /\ \A y \in Calls : y # x => chan'[y] = chan[y]
  <2>1. CASE chan' = chan
    BY <1>1, <1>4, <2>1 DEF Types
  <2>2. CASE chan' = [chan EXCEPT ![x] = Append(@, u)] /\ a.pc = "done"
    <3>1. chan'[x] = Append(chan[x], u) /\ \A y \in Calls : y # x => chan'[y] = chan[y]
      BY <1>1, <2>2 DEF Types
    <3>2. chan[x] \in Seq(Addrs)
      BY <1>1 DEF Lists
    <3>3. /\ Append(chan[x], u) \in Seq(Addrs)
          /\ DOMAIN Append(chan[x], u) = 1 .. Len(chan[x]) + 1
          /\ \A i \in 1 .. Len(chan[x]) : Append(chan[x], u)[i] = chan[x][i]
          /\ Append(chan[x], u)[Len(chan[x]) + 1] = u
          /\ DOMAIN chan[x] = 1 .. Len(chan[x]) /\ Len(chan[x]) \in Nat
      BY <3>2
    <3>4. Range(Append(chan[x], u)) = Range(chan[x]) \cup {u}
      BY <3>3 DEF Range
    <3>5. \A i \in 1 .. Len(chan[x]) : chan[x][i] # u
      BY <1>4, <3>3 DEF Range
    <3>6. Append(chan[x], u) \in Lists
      <4> SUFFICES ASSUME NEW i \in 1 .. Len(chan[x]) + 1, NEW j \in 1 .. Len(chan[x]) + 1,
                          Append(chan[x], u)[i] = Append(chan[x], u)[j]
                   PROVE  i = j
        BY <3>3 DEF Lists
      <4> DEFINE n == Len(chan[x])
                 l == Append(chan[x], u)
      <4>1. \A k, m \in 1 .. n : chan[x][k] = chan[x][m] => k = m
        BY <1>1, <3>3 DEF Lists
      <4>2. (i \in 1 .. n \/ i = n + 1) /\ (j \in 1 .. n \/ j = n + 1)
        BY <3>3
      <4>3. /\ \A k \in 1 .. n : l[k] = chan[x][k] /\ chan[x][k] # u
            /\ l[n + 1] = u /\ l[i] = l[j]
        BY <3>3, <3>5
      <4> HIDE DEF n, l
      <4>4. CASE i \in 1 .. n /\ j \in 1 .. n
        BY <4>1, <4>3, <4>4
      <4> QED BY <4>2, <4>3, <4>4
    <3>7. chan' \in [Calls -> Lists]
      BY <1>1, <2>2, <3>6 DEF Types
    <3> QED BY <2>2, <3>1, <3>4, <3>7
  <2> QED BY <2>1, <2>2
<1>6. Types'
  <2>1. query' \in [Calls -> Asks0]
    BY <1>1 DEF Asks, Types, Asks0
  <2> QED BY <1>1, <1>5, <2>1 DEF Types, pool
<1>7. OthersSame(x) /\ racing' = racing /\ call'[x] = c
  BY <1>1, <1>5 DEF OthersSame, Asks, Types, pool
<1>8. CallOK(c, w, chan'[x])
  BY <1>1, <1>2, <1>3 DEF Good, CallOK
<1>9. HeardOK(c, w, chan'[x])
  <2>1. HeardOK(c, q, chan[x])
    BY <1>1 DEF Good
  <2>2. \A v \in c.got : w[v] = q[v]
    BY <1>1, <1>2, <1>4 DEF CallRec
  <2>3. \A v \in Range(chan'[x]) : w[v].pc = "done"
    <3>1. Range(chan[x]) \subseteq Addrs
      BY <1>1 DEF Lists, Range
    <3> QED BY <1>2, <1>5, <2>1, <3>1 DEF HeardOK
  <2>4. \A v \in Addrs : (w[v].pc = "tcp" => w[v].udp \in Replies) /\ (w[v].pc \in Spoken => Sound(w[v].res))
    BY <1>2, <2>1 DEF HeardOK
  <2> HIDE DEF w, q
  <2> QED BY <2>1, <2>2, <2>3, <2>4 DEF HeardOK
<1>10. TurnOK(c, w)
  <2> SUFFICES ASSUME ~Races(c) PROVE TurnOK(c, w)
    BY DEF TurnOK
  <2>1. TurnOK(c, q)
    BY <1>1 DEF Good
  <2>2. c.pc = "collect"
    BY <1>1, <1>3, <2>1 DEF TurnOK, CallRec
  <2>3. InTurn(c, w)
    BY <1>2, <2>1, <2>2 DEF TurnOK, InTurn, Busy
  <2>4. \A v \in Addrs : w[v].pc = "record" => w[v].res.err # "canceled"
    BY <1>2, <2>1 DEF TurnOK
  <2> QED BY <2>2, <2>3, <2>4 DEF TurnOK
<1>11. Good(call[x], query[x], chan[x])'
  BY <1>7, <1>8, <1>9, <1>10 DEF Good, CallOK, HeardOK, TurnOK, InTurn, Races
<1> QED BY <1>6, <1>7, <1>11, CallStep

\* The lists: members, tails, first elements.
LEMMA ListFacts ==
    ASSUME NEW l \in Lists
    PROVE  /\ l \in Seq(Addrs) /\ Len(l) \in Nat /\ DOMAIN l = 1 .. Len(l)
           /\ Range(l) \subseteq Addrs /\ Range(l) = { l[i] : i \in 1 .. Len(l) }
           /\ \A i, j \in 1 .. Len(l) : l[i] = l[j] => i = j
           /\ l # << >> => Len(l) > 0 /\ l[1] \in Range(l)
           /\ l = << >> => Range(l) = {}
<1>1. l \in Seq(Addrs) /\ Len(l) \in Nat /\ DOMAIN l = 1 .. Len(l)
  BY DEF Lists
<1>2. \A i, j \in 1 .. Len(l) : l[i] = l[j] => i = j
  BY <1>1 DEF Lists
<1>3. Range(l) \subseteq Addrs /\ Range(l) = { l[i] : i \in 1 .. Len(l) }
  BY <1>1 DEF Range
<1>4. l # << >> => Len(l) > 0 /\ l[1] \in Range(l)
  BY <1>1, <1>3
<1>5. l = << >> => Range(l) = {}
  BY <1>1 DEF Range
<1> QED BY <1>1, <1>2, <1>3, <1>4, <1>5

LEMMA TailFacts ==
    ASSUME NEW l \in Lists, l # << >>
    PROVE  Tail(l) \in Lists /\ Range(Tail(l)) \subseteq Range(l) /\ Head(l) \in Range(l)
<1>1. /\ l \in Seq(Addrs) /\ Len(l) \in Nat /\ Len(l) > 0 /\ DOMAIN l = 1 .. Len(l)
      /\ \A i, j \in 1 .. Len(l) : l[i] = l[j] => i = j
  BY ListFacts
<1>2. /\ Tail(l) \in Seq(Addrs) /\ DOMAIN Tail(l) = 1 .. Len(l) - 1
      /\ \A i \in 1 .. Len(l) - 1 : Tail(l)[i] = l[i + 1]
  BY <1>1
<1>3. Tail(l) \in Lists
  <2> SUFFICES ASSUME NEW i \in 1 .. Len(l) - 1, NEW j \in 1 .. Len(l) - 1, Tail(l)[i] = Tail(l)[j]
               PROVE  i = j
    BY <1>2 DEF Lists
  <2>1. i + 1 \in 1 .. Len(l) /\ j + 1 \in 1 .. Len(l) /\ l[i + 1] = l[j + 1]
    BY <1>1, <1>2
  <2>2. i + 1 = j + 1
    BY <1>1, <2>1
  <2> QED BY <1>1, <2>2
<1>4. Range(Tail(l)) \subseteq Range(l)
  <2> SUFFICES ASSUME NEW i \in 1 .. Len(l) - 1 PROVE Tail(l)[i] \in Range(l)
    BY <1>2 DEF Range
  <2>1. i + 1 \in 1 .. Len(l)
    BY <1>1
  <2> QED BY <1>1, <1>2, <2>1 DEF Range
<1>5. Head(l) \in Range(l)
  BY <1>1, ListFacts
<1> QED BY <1>3, <1>4, <1>5

\* The call record moves, its queries do not.
LEMMA CallerMoves ==
    ASSUME IInv, NEW x \in Calls, NEW f \in CallRec, Locals(x, f), UNCHANGED << stats, query, pool >>,
           NEW ch \in Lists, chan' = [chan EXCEPT ![x] = ch],
           CallOK(f, query[x], ch), HeardOK(f, query[x], ch), TurnOK(f, query[x])
    PROVE  IInv'
<1>1. Types
  BY DEF IInv
<1>2. call'[x] = f /\ query' = query /\ chan'[x] = ch /\ racing' = racing /\ OthersSame(x)
  BY <1>1 DEF Locals, Types, OthersSame, pool
<1>3. Types'
  BY <1>1 DEF Types, Locals, pool
<1>4. Good(call[x], query[x], chan[x])'
  BY <1>2 DEF Good, CallOK, HeardOK, TurnOK, InTurn, Races
<1> QED BY <1>2, <1>3, <1>4, CallStep

LEMMA Now ==
    ASSUME IInv, NEW x \in Calls
    PROVE  /\ call[x] \in CallRec /\ query[x] \in Asks0 /\ chan[x] \in Lists
           /\ call[x].list \in Lists /\ call[x].got \in SUBSET Addrs
           /\ CallOK(call[x], query[x], chan[x]) /\ HeardOK(call[x], query[x], chan[x])
           /\ TurnOK(call[x], query[x]) /\ upstreams \in Lists
           /\ chan = [chan EXCEPT ![x] = chan[x]]
BY DEF IInv, Types, Good, CallRec

LEMMA BeginStep == ASSUME IInv, NEW x \in Calls, Begin(x) PROVE IInv'
<1> DEFINE c == call[x]
           list == upstreams
           first == IF racing THEN Range(list) ELSE {list[1]}
           f == [c EXCEPT !.pc = "collect", !.list = list]
           w == [u \in Addrs |-> IF u \in first THEN [Off EXCEPT !.pc = "udp"] ELSE Off]
<1>1. /\ c \in CallRec /\ chan[x] \in Lists /\ list \in Lists /\ list # << >>
      /\ CallOK(c, query[x], chan[x]) /\ c.pc = "idle"
  BY Now DEF Begin
<1>2. Types /\ query' = [query EXCEPT ![x] = w] /\ Locals(x, f) /\ UNCHANGED << stats, chan, pool >>
  BY DEF IInv, Begin
<1>3. c.got = {} /\ c.ctx = "live" /\ c.fallback = NoReply /\ chan[x] = << >>
  BY <1>1 DEF CallOK
<1>4. [Off EXCEPT !.pc = "udp"] \in Ask /\ [Off EXCEPT !.pc = "udp"].pc = "udp"
  BY OffType DEF Off, Ask, Busy
<1>5. w \in Asks0 /\ \A u \in Addrs : w[u].pc = IF u \in first THEN "udp" ELSE "off"
  BY <1>4, OffType DEF Asks0
<1>6. first \subseteq Range(list) /\ Range(list) # {}
  BY <1>1, ListFacts
<1> HIDE DEF w
<1>7. /\ f \in CallRec /\ f.pc = "collect" /\ f.list = list /\ f.got = {} /\ f.ctx = "live"
      /\ f.fallback = NoReply
  BY <1>1, <1>3 DEF CallRec
<1> HIDE DEF f
<1>8. CallOK(f, w, chan[x])
  BY <1>1, <1>5, <1>6, <1>7 DEF CallOK
<1>9. HeardOK(f, w, chan[x])
  BY <1>3, <1>5, <1>7, ListFacts, <1>1 DEF HeardOK, Spoken
<1>10. TurnOK(f, w)
  <2> SUFFICES ASSUME ~Races(f) PROVE InTurn(f, w)
    BY <1>5, <1>7 DEF TurnOK
  <2>1. IsFiniteSet({}) /\ Cardinality({}) = 0
    BY FS_EmptySet
  <2>2. Len(list) > 0 /\ Len(list) \in Nat
    BY <1>1, ListFacts
  <2>3. first \subseteq {list[1]}
    <3>1. CASE racing
      <4>0. ~(Len(list) > 1)
        BY <1>7, <3>1, Zenon DEF Races
      <4>1. Len(list) = 1
        <5>1. \A n \in Nat : n > 0 /\ ~(n > 1) => n = 1
          OBVIOUS
        <5> QED BY <2>2, <4>0, <5>1, Zenon
      <4> QED BY <1>1, <3>1, <4>1, ListFacts
    <3> QED BY <3>1
  <2>4. \A u \in Addrs : w[u].pc # "off" => \E i \in 1 .. 0 + 1 : u = list[i]
    BY <1>5, <2>3
  <2> QED BY <1>7, <2>1, <2>2, <2>4 DEF InTurn
<1>11. call'[x] = f /\ query'[x] = w /\ chan' = chan /\ racing' = racing /\ OthersSame(x)
  BY <1>2 DEF Locals, Types, OthersSame, pool
<1>12. Types'
  BY <1>2, <1>5, <1>7 DEF Types, Locals, pool
<1>13. Good(call[x], query[x], chan[x])'
  BY <1>8, <1>9, <1>10, <1>11 DEF Good, CallOK, HeardOK, TurnOK, InTurn, Races
<1> QED BY <1>11, <1>12, <1>13, CallStep

LEMMA OutsideStep ==
    ASSUME IInv, NEW x \in Calls, NoneConfigured(x) \/ Deadline(x)
    PROVE  IInv'
<1> DEFINE c == call[x]
<1>1. /\ c \in CallRec /\ chan[x] \in Lists /\ chan = [chan EXCEPT ![x] = chan[x]]
      /\ CallOK(c, query[x], chan[x]) /\ HeardOK(c, query[x], chan[x]) /\ TurnOK(c, query[x])
  BY Now
<1>2. CASE NoneConfigured(x)
  <2> DEFINE f == [c EXCEPT !.pc = "returned", !.out = Failure("no upstreams")]
  <2>1. f \in CallRec /\ f.pc = "returned" /\ f.list = c.list /\ f.got = c.got /\ f.ctx = c.ctx
        /\ f.fallback = c.fallback
    BY <1>1 DEF CallRec, Failure, Results, Msgs
  <2>2. Locals(x, f) /\ UNCHANGED << stats, query, chan, pool >> /\ c.pc = "idle"
    BY <1>2 DEF NoneConfigured
  <2> HIDE DEF f
  <2>3. CallOK(f, query[x], chan[x]) /\ HeardOK(f, query[x], chan[x])
    BY <1>1, <2>1, <2>2 DEF CallOK, HeardOK
  <2>4. \A u \in Addrs : query[x][u].pc = "off"
    <3>1. Range(c.list) = {}
      BY <1>1, <2>2 DEF CallOK, Range
    <3> QED BY <1>1, <3>1 DEF CallOK
  <2>5. TurnOK(f, query[x])
    BY <2>1, <2>4 DEF TurnOK, Busy
  <2> QED BY <1>1, <2>1, <2>2, <2>3, <2>5, CallerMoves
<1>3. CASE Deadline(x)
  <2> DEFINE f == [c EXCEPT !.ctx = "expired"]
  <2>1. f \in CallRec /\ f.pc = c.pc /\ f.list = c.list /\ f.got = c.got /\ f.ctx = "expired"
        /\ f.fallback = c.fallback
    BY <1>1 DEF CallRec
  <2>2. Locals(x, f) /\ UNCHANGED << stats, query, chan, pool >> /\ c.pc = "collect"
    BY <1>3 DEF Deadline
  <2> HIDE DEF f
  <2>3. CallOK(f, query[x], chan[x]) /\ HeardOK(f, query[x], chan[x]) /\ TurnOK(f, query[x])
    BY <1>1, <2>1, <2>2 DEF CallOK, HeardOK, TurnOK, InTurn, Races
  <2> QED BY <1>1, <2>1, <2>2, <2>3, CallerMoves
<1> QED BY <1>2, <1>3

\* What a query may come to.
LEMMA SoundResults ==
    /\ \A m \in Replies : Checked(m) \in Results /\ Sound(Checked(m)) /\ Checked(m).err # "canceled"
    /\ \A e \in {"network", "deadline", "canceled"} :
          Failure(e) \in Results /\ Sound(Failure(e)) /\ Failure(e).err = e
BY DEF Checked, Message, Failure, Results, Msgs, Sound

\* Counting changes no other statistic and none that is not kept.
LEMMA RecordType ==
    ASSUME Types, NEW u \in Addrs, NEW ok \in BOOLEAN, RecordStat(u, ok)
    PROVE  /\ stats' \in [Addrs -> Stat \cup {NoStat}]
           /\ \A v \in Addrs : stats'[v] # NoStat <=> stats[v] # NoStat
           /\ \A v \in Addrs : v # u => stats'[v] = stats[v]
           /\ stats[u] # NoStat => stats[u] \in Stat /\ stats'[u] \in Stat
           /\ stats[u] # NoStat => stats'[u].errors = IF ok THEN stats[u].errors ELSE stats[u].errors + 1
<1>1. stats \in [Addrs -> Stat \cup {NoStat}] /\ NoStat \notin Stat
  BY RepliesAssumption DEF Types, Stat
<1>2. CASE stats[u] = NoStat
  BY <1>1, <1>2 DEF RecordStat
<1>3. CASE stats[u] # NoStat
  <2> DEFINE s == IF ok THEN [stats[u] EXCEPT !.hits = @ + 1] ELSE [stats[u] EXCEPT !.errors = @ + 1]
  <2>1. stats[u] \in Stat
    BY <1>1, <1>3
  <2>2. s \in Stat /\ s.errors = IF ok THEN stats[u].errors ELSE stats[u].errors + 1
    <3>1. CASE ok
      <4>1. s = [stats[u] EXCEPT !.hits = @ + 1]
        BY <3>1
      <4> QED BY <2>1, <3>1, <4>1 DEF Stat
    <3>2. CASE ~ok
      <4>1. s = [stats[u] EXCEPT !.errors = @ + 1]
        BY <3>2
      <4> QED BY <2>1, <3>2, <4>1 DEF Stat
    <3> QED BY <3>1, <3>2
  <2>3. stats' = [stats EXCEPT ![u] = s]
    <3>1. CASE ok
      BY <1>3, <3>1, Zenon DEF RecordStat
    <3>2. CASE ~ok
      BY <1>3, <3>2, Zenon DEF RecordStat
    <3> QED BY <3>1, <3>2
  <2> HIDE DEF s
  <2> QED BY <1>1, <1>3, <2>1, <2>2, <2>3
<1> QED BY <1>2, <1>3

LEMMA QueryInv == ASSUME IInv, NEW x \in Calls, NEW u \in Addrs, QueryStep(x, u) PROVE IInv'
<1> DEFINE c == call[x]
           a == query[x][u]
           Next1(b) == /\ b \in Ask /\ Asks(x, u, b) /\ b.pc # "off"
                       /\ b.pc = "tcp" => b.udp \in Replies
                       /\ b.pc \in Spoken => Sound(b.res)
                       /\ (~Races(c) /\ b.pc = "record") => b.res.err # "canceled"
<1>1. Types /\ stats \in [Addrs -> Stat \cup {NoStat}] /\ a \in Ask
      /\ HeardOK(c, query[x], chan[x]) /\ TurnOK(c, query[x]) /\ c \in CallRec
      /\ CallOK(c, query[x], chan[x])
  BY Now DEF IInv, Types, Asks0
<1>2. a.pc \in {"udp", "tcp"} => (~Races(c) => c.ctx # "canceled")
  <2> SUFFICES ASSUME a.pc \in {"udp", "tcp"}, ~Races(c) PROVE c.ctx # "canceled"
    OBVIOUS
  <2>1. c.pc # "returned"
    BY <1>1 DEF TurnOK, Busy
  <2> QED BY <1>1, <2>1 DEF CallOK
<1>3. \A e \in Errors(x) : e \in {"network", "deadline", "canceled"} /\ (e = "canceled" => c.ctx = "canceled")
  BY <1>1 DEF Errors, CallRec
<1>4. ASSUME \/ \E m \in Replies : AnswerUDP(x, u, m) \/ AnswerTCP(x, u, m)
             \/ FailUDP(x, u) \/ FailTCP(x, u)
      PROVE  IInv'
  <2>1. a.pc \in {"udp", "tcp"} /\ UNCHANGED << stats, call, chan, pool >>
    BY <1>4 DEF AnswerUDP, AnswerTCP, FailUDP, FailTCP
  <2>2. \A r : r \in Results => LET b == [a EXCEPT !.pc = "record", !.res = r]
                                IN  b \in Ask /\ b.pc = "record" /\ b.res = r
    BY <1>1 DEF Ask, Busy
  <2>3. \E b : Next1(b)
    <3>1. ASSUME NEW m \in Replies, AnswerUDP(x, u, m), m.tc PROVE \E b : Next1(b)
      <4> DEFINE b == [a EXCEPT !.pc = "tcp", !.udp = m]
      <4>1. b \in Ask /\ b.pc = "tcp" /\ b.udp = m
        BY <1>1 DEF Ask, Busy, Msgs
      <4>2. Asks(x, u, b)
        BY <3>1 DEF AnswerUDP
      <4> HIDE DEF b
      <4>3. Next1(b)
        BY <4>1, <4>2 DEF Spoken
      <4> QED BY <4>3
    <3>2. ASSUME NEW r \in Results, Sound(r), ~Races(c) => r.err # "canceled",
                 Asks(x, u, [a EXCEPT !.pc = "record", !.res = r])
          PROVE  \E b : Next1(b)
      <4> DEFINE b == [a EXCEPT !.pc = "record", !.res = r]
      <4>1. b \in Ask /\ b.pc = "record" /\ b.res = r /\ Asks(x, u, b)
        BY <2>2, <3>2
      <4> HIDE DEF b
      <4>2. Next1(b)
        BY <3>2, <4>1
      <4> QED BY <4>2
    <3>3. ASSUME NEW m \in Replies, AnswerUDP(x, u, m), ~m.tc PROVE \E b : Next1(b)
      <4>1. Asks(x, u, [a EXCEPT !.pc = "record", !.res = Checked(m)])
        BY <3>3 DEF AnswerUDP
      <4> QED BY <3>2, <4>1, SoundResults
    <3>4. ASSUME NEW m \in Replies, AnswerTCP(x, u, m) PROVE \E b : Next1(b)
      <4>1. Asks(x, u, [a EXCEPT !.pc = "record", !.res = Checked(m)])
        BY <3>4 DEF AnswerTCP
      <4> QED BY <3>2, <4>1, SoundResults
    <3>5. ASSUME FailUDP(x, u) PROVE \E b : Next1(b)
      <4>1. PICK e \in Errors(x) : Asks(x, u, [a EXCEPT !.pc = "record", !.res = Failure(e)])
        BY <3>5 DEF FailUDP
      <4>2. e \in {"network", "deadline", "canceled"} /\ (~Races(c) => e # "canceled")
        BY <1>2, <1>3, <2>1
      <4> QED BY <3>2, <4>1, <4>2, SoundResults
    <3>6. ASSUME FailTCP(x, u) PROVE \E b : Next1(b)
      <4>1. Asks(x, u, [a EXCEPT !.pc = "record", !.res = Checked(a.udp)]) /\ a.pc = "tcp"
        BY <3>6 DEF FailTCP
      <4>2. a.udp \in Replies
        BY <1>1, <4>1 DEF HeardOK
      <4> QED BY <3>2, <4>1, <4>2, SoundResults
    <3> QED BY <1>4, <3>1, <3>3, <3>4, <3>5, <3>6
  <2>4. PICK b : Next1(b)
    BY <2>3
  <2>5. stats' \in [Addrs -> Stat \cup {NoStat}] /\ \A v \in Addrs : stats'[v] # NoStat <=> stats[v] # NoStat
    BY <1>1, <2>1
  <2> QED BY <2>1, <2>4, <2>5, AskStep DEF Busy
<1>5. ASSUME Record(x, u) PROVE IInv'
  <2> DEFINE pc == IF InRace(x) THEN "send" ELSE "done"
             b  == [a EXCEPT !.pc = pc]
  <2>1. a.pc = "record" /\ Asks(x, u, b) /\ UNCHANGED << call, chan, pool >>
    BY <1>5 DEF Record
  <2>2. b \in Ask /\ b.pc = pc /\ b.res = a.res /\ pc \in {"send", "done"}
    BY <1>1 DEF Ask, Busy
  <2> HIDE DEF b, pc
  <2>3. Sound(b.res)
    BY <1>1, <2>1, <2>2 DEF HeardOK, Spoken
  <2>4. stats' \in [Addrs -> Stat \cup {NoStat}] /\ \A v \in Addrs : stats'[v] # NoStat <=> stats[v] # NoStat
    <3>1. Usable(a.res) \in BOOLEAN
      BY DEF Usable
    <3>2. RecordStat(u, Usable(a.res)) \/ stats' = stats
      BY <1>5 DEF Record
    <3> QED BY <1>1, <3>1, <3>2, RecordType
  <2> QED BY <2>1, <2>2, <2>3, <2>4, AskStep DEF Busy
<1>6. ASSUME Send(x, u) PROVE IInv'
  <2> DEFINE b == [a EXCEPT !.pc = "done"]
  <2>1. /\ a.pc = "send" /\ Asks(x, u, b) /\ UNCHANGED << stats, call, pool >>
        /\ chan' = chan \/ chan' = [chan EXCEPT ![x] = Append(@, u)]
    BY <1>6 DEF Send
  <2>2. b \in Ask /\ b.pc = "done" /\ b.res = a.res
    BY <1>1 DEF Ask, Busy
  <2> HIDE DEF b
  <2>3. Sound(b.res)
    BY <1>1, <2>1, <2>2 DEF HeardOK, Spoken
  <2>4. stats' \in [Addrs -> Stat \cup {NoStat}] /\ \A v \in Addrs : stats'[v] # NoStat <=> stats[v] # NoStat
    BY <1>1, <2>1
  <2> QED BY <2>1, <2>2, <2>3, <2>4, AskStep DEF Busy
<1> QED BY <1>4, <1>5, <1>6 DEF QueryStep

\* What the caller keeps of a result it cannot use.
LEMMA NotedOK ==
    ASSUME IInv, NEW x \in Calls, NEW u \in Addrs, call[x].pc = "collect",
           query[x][u].pc = "done", ~Usable(query[x][u].res)
    PROVE  LET c == call[x]
               f == Noted(x, u)
           IN  /\ f \in CallRec /\ f.pc = "collect" /\ f.list = c.list /\ f.ctx = c.ctx
               /\ f.got = c.got \cup {u} /\ f.out = c.out
               /\ \A ch : HeardOK(c, query[x], ch) => HeardOK(f, query[x], ch)
<1> DEFINE c == call[x]
           q == query[x]
           fallback == IF c.fallback = NoReply /\ q[u].res.err = "none" THEN q[u].res.msg ELSE c.fallback
           f == Noted(x, u)
<1>1. /\ c \in CallRec /\ q \in Asks0 /\ HeardOK(c, q, chan[x])
  BY Now
<1>2. Sound(q[u].res)
  BY <1>1 DEF HeardOK, Spoken
<1>3. fallback \in Msgs
  BY <1>1, <1>2 DEF CallRec, Sound, Msgs
<1>4. f = [c EXCEPT !.got = c.got \cup {u}, !.fallback = fallback]
  BY <1>1 DEF Noted, CallRec
<1>5. c.got \cup {u} \in SUBSET Addrs
  BY <1>1 DEF CallRec
<1> HIDE DEF fallback
<1>6. /\ f \in CallRec /\ f.pc = "collect" /\ f.list = c.list /\ f.ctx = c.ctx
      /\ f.got = c.got \cup {u} /\ f.out = c.out /\ f.fallback = fallback
  BY <1>1, <1>3, <1>4, <1>5 DEF CallRec
<1> HIDE DEF f
<1>7. ASSUME NEW ch, HeardOK(c, q, ch) PROVE HeardOK(f, q, ch)
  <2>1. \A v \in f.got : q[v].pc = "done" /\ ~Usable(q[v].res)
    BY <1>1, <1>6 DEF HeardOK
  <2>2. f.fallback = NoReply => \A v \in f.got : q[v].res.err # "none"
    <3> SUFFICES ASSUME fallback = NoReply PROVE \A v \in f.got : q[v].res.err # "none"
      BY <1>6
    <3>1. c.fallback = NoReply /\ q[u].res.err # "none"
      BY <1>2, RepliesAssumption DEF fallback, Sound
    <3> QED BY <1>1, <1>6, <3>1 DEF HeardOK
  <2>3. f.fallback # NoReply => \E v \in f.got : q[v].res.err = "none" /\ q[v].res.msg = f.fallback
    <3> SUFFICES ASSUME fallback # NoReply
                 PROVE  \E v \in f.got : q[v].res.err = "none" /\ q[v].res.msg = fallback
      BY <1>6
    <3>1. CASE c.fallback = NoReply /\ q[u].res.err = "none"
      BY <1>6, <3>1 DEF fallback
    <3>2. CASE ~(c.fallback = NoReply /\ q[u].res.err = "none")
      <4>1. fallback = c.fallback
        BY <3>2 DEF fallback
      <4> QED BY <1>1, <1>6, <4>1 DEF HeardOK
    <3> QED BY <3>1, <3>2
  <2> QED BY <1>7, <2>1, <2>2, <2>3 DEF HeardOK
<1> QED BY <1>6, <1>7 DEF f

\* Returning changes neither what was asked nor what was heard.
LEMMA ReturnOK ==
    ASSUME NEW x, NEW f \in CallRec, NEW out \in Results, Return(x, f, out), f.pc = "collect"
    PROVE  \E g \in CallRec :
              /\ Locals(x, g) /\ g.pc = "returned" /\ g.list = f.list /\ g.got = f.got
              /\ g.fallback = f.fallback /\ g.out = out
              /\ g.ctx = IF f.ctx = "live" THEN "canceled" ELSE f.ctx
              /\ \A q, ch : HeardOK(f, q, ch) => HeardOK(g, q, ch)
              /\ \A q, ch : CallOK(f, q, ch) => CallOK(g, q, ch)
<1> DEFINE ctx == IF f.ctx = "live" THEN "canceled" ELSE f.ctx
           g   == [f EXCEPT !.pc = "returned", !.out = out, !.ctx = ctx]
<1>1. Locals(x, g)
  BY DEF Return, CallRec
<1>2. ctx \in {"live", "expired", "canceled"}
  BY DEF CallRec
<1> HIDE DEF ctx
<1>3. /\ g \in CallRec /\ g.pc = "returned" /\ g.list = f.list /\ g.got = f.got
      /\ g.fallback = f.fallback /\ g.out = out /\ g.ctx = ctx
  BY <1>2 DEF CallRec
<1> HIDE DEF g
<1>4. \A q, ch : HeardOK(f, q, ch) => HeardOK(g, q, ch)
  BY <1>3 DEF HeardOK
<1>5. \A q, ch : CallOK(f, q, ch) => CallOK(g, q, ch)
  BY <1>3 DEF CallOK
<1> QED BY <1>1, <1>3, <1>4, <1>5 DEF ctx

LEMMA VerdictType == \A f \in CallRec : Verdict(f) \in Results
BY DEF Verdict, CallRec, Message, Failure, Results, Msgs

LEMMA CollectorStep ==
    ASSUME IInv, NEW x \in Calls, Receive(x) \/ SeeDone(x)
    PROVE  IInv'
<1> DEFINE c == call[x]
           q == query[x]
<1>1. /\ c \in CallRec /\ q \in Asks0 /\ chan[x] \in Lists /\ chan = [chan EXCEPT ![x] = chan[x]]
      /\ CallOK(c, q, chan[x]) /\ HeardOK(c, q, chan[x])
  BY Now
<1>2. c.pc = "collect" /\ Races(c) /\ UNCHANGED << stats, query, pool >>
  BY DEF Receive, SeeDone, InRace, Races
<1>3. ASSUME NEW f \in CallRec, Races(f), f.pc \in {"collect", "returned"}, Locals(x, f), NEW ch \in Lists,
             chan' = [chan EXCEPT ![x] = ch], CallOK(f, q, ch), HeardOK(f, q, ch)
      PROVE  IInv'
  <2>1. TurnOK(f, q)
    BY <1>3 DEF TurnOK
  <2> QED BY <1>2, <1>3, <2>1, CallerMoves
<1>4. CASE SeeDone(x)
  <2>1. Return(x, c, Verdict(c)) /\ chan' = chan /\ Verdict(c) \in Results
    BY <1>1, <1>4, VerdictType DEF SeeDone
  <2>2. PICK g \in CallRec :
           /\ Locals(x, g) /\ g.pc = "returned" /\ g.list = c.list
           /\ HeardOK(g, q, chan[x]) /\ CallOK(g, q, chan[x])
    BY <1>1, <1>2, <2>1, ReturnOK
  <2>3. Races(g)
    BY <1>2, <2>2 DEF Races
  <2> QED BY <1>1, <1>3, <2>1, <2>2, <2>3
<1>5. CASE Receive(x)
  <2> DEFINE u == Head(chan[x])
             ch == Tail(chan[x])
             f == Noted(x, u)
  <2>1. /\ ch \in Lists /\ Range(ch) \subseteq Range(chan[x]) /\ u \in Range(chan[x])
        /\ chan' = [chan EXCEPT ![x] = ch]
    BY <1>1, <1>5, TailFacts DEF Receive
  <2>2. u \in Addrs /\ q[u].pc = "done" /\ q[u].res \in Results
    <3>1. u \in Addrs
      BY <1>1, <2>1, ListFacts
    <3> QED BY <1>1, <2>1, <3>1 DEF HeardOK, Asks0, Ask
  <2>3. HeardOK(c, q, ch) /\ CallOK(c, q, ch)
    BY <1>1, <1>2, <2>1 DEF HeardOK, CallOK
  <2> HIDE DEF u, ch
  <2>4. ASSUME NEW g \in CallRec, g.pc = "collect", g.list = c.list, HeardOK(g, q, ch), CallOK(g, q, ch),
               NEW out \in Results, Return(x, g, out)
        PROVE  IInv'
    <3>1. PICK h \in CallRec :
             /\ Locals(x, h) /\ h.pc = "returned" /\ h.list = g.list
             /\ HeardOK(h, q, ch) /\ CallOK(h, q, ch)
      BY <2>4, ReturnOK
    <3>2. Races(h)
      BY <1>2, <2>4, <3>1 DEF Races
    <3> QED BY <1>3, <2>1, <3>1, <3>2
  <2>5. CASE Usable(q[u].res)
    <3>1. Return(x, c, q[u].res)
      BY <1>5, <2>5 DEF Receive, u
    <3> QED BY <1>1, <1>2, <2>2, <2>3, <2>4, <3>1
  <2>6. CASE ~Usable(q[u].res)
    <3>1. f \in CallRec /\ f.pc = "collect" /\ f.list = c.list /\ f.ctx = c.ctx /\ HeardOK(f, q, ch)
      BY <1>2, <2>2, <2>3, <2>6, NotedOK
    <3>2. CallOK(f, q, ch)
      BY <2>3, <3>1, <1>2 DEF CallOK
    <3>3. Return(x, f, Verdict(f)) \/ Locals(x, f)
      BY <1>5, <2>6 DEF Receive, u
    <3> HIDE DEF f
    <3>4. CASE Return(x, f, Verdict(f))
      BY <2>4, <3>1, <3>2, <3>4, VerdictType
    <3>5. CASE Locals(x, f)
      <4>1. Races(f)
        BY <1>2, <3>1 DEF Races
      <4> QED BY <1>3, <2>1, <3>1, <3>2, <3>5, <4>1
    <3> QED BY <3>3, <3>4, <3>5
  <2> QED BY <2>5, <2>6
<1> QED BY <1>4, <1>5

\* In sequence, the resolver heard is the one whose turn it was.
LEMMA TurnOf ==
    ASSUME IInv, NEW x \in Calls, NEW u \in Addrs, NextInTurn(x, u)
    PROVE  LET c == call[x]
               n == Cardinality(c.got)
               got == c.got \cup {u}
           IN  /\ n \in Nat /\ n < Len(c.list) /\ u = c.list[n + 1]
               /\ IsFiniteSet(got) /\ Cardinality(got) = n + 1
               /\ got = { c.list[i] : i \in 1 .. n + 1 }
               /\ \A v \in Addrs : query[x][v].pc # "off" => v \in got
<1> DEFINE c == call[x]
           q == query[x]
           n == Cardinality(c.got)
           got == c.got \cup {u}
<1>1. c.list \in Lists /\ TurnOK(c, q) /\ c.pc = "collect" /\ ~Races(c) /\ q[u].pc = "done" /\ u \notin c.got
  BY Now DEF NextInTurn, InRace, Races
<1>2. /\ IsFiniteSet(c.got) /\ n < Len(c.list)
      /\ c.got = { c.list[i] : i \in 1 .. n }
      /\ \A v \in Addrs : q[v].pc # "off" => \E i \in 1 .. n + 1 : v = c.list[i]
  BY <1>1 DEF TurnOK, InTurn
<1>3. n \in Nat
  BY <1>2, FS_CardinalityType
<1>4. IsFiniteSet(got) /\ Cardinality(got) = n + 1
  BY <1>1, <1>2, FS_AddElement
<1> HIDE DEF n
<1>5. \A i \in 1 .. n + 1 : i \in 1 .. n \/ i = n + 1
  BY <1>3
<1>6. PICK j \in 1 .. n + 1 : u = c.list[j]
  BY <1>1, <1>2
<1>7. u = c.list[n + 1]
  BY <1>1, <1>2, <1>5, <1>6
<1>8. got = { c.list[i] : i \in 1 .. n + 1 }
  <2>1. \A i \in 1 .. n : i \in 1 .. n + 1
    BY <1>3
  <2>2. n + 1 \in 1 .. n + 1
    BY <1>3
  <2>3. \A v \in got : \E i \in 1 .. n + 1 : v = c.list[i]
    BY <1>2, <1>7, <2>1, <2>2
  <2>4. \A i \in 1 .. n + 1 : c.list[i] \in got
    BY <1>2, <1>5, <1>7
  <2> QED BY <2>3, <2>4
<1>9. \A v \in Addrs : q[v].pc # "off" => v \in got
  BY <1>2, <1>8
<1> QED BY <1>2, <1>3, <1>4, <1>7, <1>8, <1>9 DEF n

LEMMA TurnStep == ASSUME IInv, NEW x \in Calls, NEW u \in Addrs, NextInTurn(x, u) PROVE IInv'
<1> DEFINE c == call[x]
           q == query[x]
           n == Cardinality(c.got)
           f == Noted(x, u)
<1>1. /\ c \in CallRec /\ q \in Asks0 /\ chan[x] \in Lists /\ chan = [chan EXCEPT ![x] = chan[x]]
      /\ CallOK(c, q, chan[x]) /\ HeardOK(c, q, chan[x]) /\ c.list \in Lists
  BY Now
<1>2. /\ c.pc = "collect" /\ ~Races(c) /\ UNCHANGED << stats, chan, pool >>
      /\ q[u].pc = "done" /\ u \notin c.got /\ q[u].res \in Results
  <2>1. q[u] \in Ask
    BY <1>1 DEF Asks0
  <2> QED BY <2>1 DEF NextInTurn, InRace, Races, Ask
<1>3. /\ n \in Nat /\ n < Len(c.list) /\ u = c.list[n + 1]
      /\ IsFiniteSet(c.got \cup {u}) /\ Cardinality(c.got \cup {u}) = n + 1
      /\ c.got \cup {u} = { c.list[i] : i \in 1 .. n + 1 }
      /\ \A v \in Addrs : q[v].pc # "off" => v \in c.got \cup {u}
  BY TurnOf
<1>4. \A v \in Addrs : q[v].pc \notin Busy
  BY <1>1, <1>2, <1>3 DEF HeardOK, Busy
<1> HIDE DEF n
<1>5. ASSUME NEW g \in CallRec, g.pc = "collect", g.list = c.list, HeardOK(g, q, chan[x]), CallOK(g, q, chan[x]),
             NEW out \in Results, Return(x, g, out), query' = query
      PROVE  IInv'
  <2>1. PICK h \in CallRec :
           /\ Locals(x, h) /\ h.pc = "returned" /\ h.list = g.list
           /\ HeardOK(h, q, chan[x]) /\ CallOK(h, q, chan[x])
    BY <1>5, ReturnOK
  <2>2. TurnOK(h, q)
    BY <1>4, <2>1 DEF TurnOK, Busy
  <2> QED BY <1>1, <1>2, <1>5, <2>1, <2>2, CallerMoves
<1>6. CASE Usable(q[u].res)
  <2>1. Return(x, c, q[u].res) /\ query' = query
    BY <1>6 DEF NextInTurn
  <2> QED BY <1>1, <1>2, <1>5, <2>1
<1>7. CASE ~Usable(q[u].res)
  <2>1. /\ f \in CallRec /\ f.pc = "collect" /\ f.list = c.list /\ f.ctx = c.ctx
        /\ f.got = c.got \cup {u} /\ HeardOK(f, q, chan[x])
    BY <1>1, <1>2, <1>7, NotedOK
  <2>2. CallOK(f, q, chan[x])
    BY <1>1, <1>2, <2>1 DEF CallOK
  <2> DEFINE m == Cardinality(f.got)
             v == f.list[m + 1]
             a == [Off EXCEPT !.pc = "udp"]
  <2>3. \/ Return(x, f, Verdict(f)) /\ query' = query
        \/ m # Len(f.list) /\ Locals(x, f) /\ Asks(x, v, a)
    BY <1>7 DEF NextInTurn
  <2>4. m = n + 1
    BY <1>3, <2>1
  <2> HIDE DEF f
  <2>5. CASE Return(x, f, Verdict(f)) /\ query' = query
    BY <1>5, <2>1, <2>2, <2>5, VerdictType
  <2>6. CASE m # Len(f.list) /\ Locals(x, f) /\ Asks(x, v, a)
    <3>0. Len(c.list) \in Nat
      BY <1>1, ListFacts
    <3>1. n + 1 < Len(c.list) /\ n + 2 \in 1 .. Len(c.list) /\ v = c.list[n + 2] /\ m + 1 = n + 2
      <4>1. n + 1 # Len(c.list) /\ n \in Nat /\ n < Len(c.list)
        BY <1>3, <2>1, <2>4, <2>6, Zenon
      <4>2. n + 1 < Len(c.list) /\ n + 2 \in 1 .. Len(c.list) /\ (n + 1) + 1 = n + 2
        BY <3>0, <4>1
      <4> QED BY <2>1, <2>4, <4>2
    <3>2. v \in Range(c.list) /\ v \in Addrs
      BY <1>1, <3>1, ListFacts
    <3>3. v \notin f.got
      <4> SUFFICES ASSUME v \in f.got PROVE FALSE
        OBVIOUS
      <4>1. PICK i \in 1 .. n + 1 : v = c.list[i]
        BY <1>3, <2>1
      <4>2. i \in 1 .. Len(c.list)
        BY <1>3, <3>0, <3>1
      <4>3. i = n + 2
        BY <1>1, <3>1, <4>1, <4>2, ListFacts
      <4> QED BY <1>3, <4>3
    <3>4. q[v].pc = "off"
      BY <1>3, <2>1, <3>2, <3>3
    <3> HIDE DEF v, m
    <3> DEFINE w == query'[x]
    <3>5. a \in Ask /\ a.pc = "udp"
      BY OffType DEF Off, Ask, Busy
    <3>6. w[v] = a /\ (\A y \in Addrs : y # v => w[y] = q[y]) /\ query' \in [Calls -> Asks0] /\ OthersSame(x)
          /\ call'[x] = f /\ call' \in [Calls -> CallRec] /\ chan' = chan /\ racing' = racing
      <4>1. Types
        BY DEF IInv
      <4>2. query'[x] = [query[x] EXCEPT ![v] = a] /\ \A y \in Calls : y # x => query'[y] = query[y]
        BY <2>6, <4>1 DEF Asks, Types
      <4>3. query' \in [Calls -> Asks0]
        BY <2>6, <3>5, <4>1 DEF Asks, Types, Asks0
      <4>4. call'[x] = f /\ call' \in [Calls -> CallRec] /\ \A y \in Calls : y # x => call'[y] = call[y]
        BY <2>1, <2>6, <4>1 DEF Locals, Types
      <4>5. chan' = chan /\ racing' = racing
        BY <1>2 DEF pool
      <4> QED BY <1>1, <3>2, <4>2, <4>3, <4>4, <4>5 DEF Asks0, OthersSame
    <3>7. CallOK(f, w, chan[x])
      BY <1>2, <2>1, <2>2, <3>2, <3>6 DEF CallOK
    <3>8. HeardOK(f, w, chan[x])
      <4>1. v \notin Range(chan[x])
        BY <1>1, <3>4 DEF HeardOK
      <4>2. \A y \in f.got : y \in Addrs /\ w[y] = q[y]
        BY <2>1, <3>3, <3>6 DEF CallRec
      <4>3. \A y \in Range(chan[x]) : w[y] = q[y]
        BY <1>1, <3>6, <4>1, ListFacts
      <4> HIDE DEF w
      <4>4. \A y \in Addrs : /\ w[y].pc = "tcp" => w[y].udp \in Replies
                             /\ w[y].pc \in Spoken => Sound(w[y].res)
        BY <2>1, <3>5, <3>6 DEF HeardOK, Spoken
      <4>5. \A y \in f.got : w[y].pc = "done" /\ ~Usable(w[y].res)
        BY <2>1, <4>2 DEF HeardOK
      <4>6. \A y \in Range(chan[x]) : w[y].pc = "done"
        BY <2>1, <4>3 DEF HeardOK
      <4>7. f.fallback = NoReply => \A y \in f.got : w[y].res.err # "none"
        BY <2>1, <4>2 DEF HeardOK
      <4>8. f.fallback # NoReply => \E y \in f.got : w[y].res.err = "none" /\ w[y].res.msg = f.fallback
        BY <2>1, <4>2 DEF HeardOK
      <4> QED BY <4>4, <4>5, <4>6, <4>7, <4>8 DEF HeardOK
    <3>9. TurnOK(f, w)
      <4>1. \A y \in Addrs : w[y].pc # "off" => \E i \in 1 .. n + 2 : y = c.list[i]
        <5> SUFFICES ASSUME NEW y \in Addrs, w[y].pc # "off" PROVE \E i \in 1 .. n + 2 : y = c.list[i]
          OBVIOUS
        <5>1. CASE y = v
          BY <1>3, <3>1, <5>1
        <5>2. CASE y # v
          <6>1. y \in c.got \cup {u}
            BY <1>3, <3>6, <5>2
          <6>2. PICK i \in 1 .. n + 1 : y = c.list[i]
            BY <1>3, <6>1
          <6>3. i \in 1 .. n + 2
            BY <1>3
          <6> QED BY <6>2, <6>3
        <5> QED BY <5>1, <5>2
      <4>2. Cardinality(f.got) = n + 1 /\ IsFiniteSet(f.got) /\ (n + 1) + 1 = n + 2
        BY <1>3, <2>1
      <4> HIDE DEF w
      <4>3. InTurn(f, w)
        <5>1. f.got = { f.list[i] : i \in 1 .. n + 1 } /\ n + 1 < Len(f.list)
          BY <1>3, <2>1, <3>1
        <5>2. \A y \in Addrs : w[y].pc # "off" => \E i \in 1 .. (n + 1) + 1 : y = f.list[i]
          BY <2>1, <4>1, <4>2
        <5> QED BY <4>2, <5>1, <5>2 DEF InTurn
      <4>4. \A y \in Addrs : w[y].pc # "record"
        BY <1>4, <3>5, <3>6 DEF Busy
      <4> QED BY <2>1, <4>3, <4>4 DEF TurnOK
    <3>10. Good(call[x], query[x], chan[x])'
      BY <3>6, <3>7, <3>8, <3>9 DEF Good, CallOK, HeardOK, TurnOK, InTurn, Races
    <3>11. Types'
      BY <1>2, <3>6 DEF IInv, Types, pool
    <3> QED BY <3>6, <3>10, <3>11, CallStep
  <2> QED BY <2>3, <2>5, <2>6
<1> QED BY <1>6, <1>7

LEMMA PanelStep == ASSUME IInv, NEW list \in Configs, SetUpstreams(list) PROVE IInv'
<1>1. Types
  BY DEF IInv
<1>2. list \in Lists
  BY RepliesAssumption
<1>3. stats' \in [Addrs -> Stat \cup {NoStat}] /\ \A u \in Addrs : stats'[u] # NoStat <=> Contains(list, u)
  <2>1. Fresh \in Stat /\ NoStat \notin Stat
    BY RepliesAssumption DEF Fresh, Stat
  <2>2. \A u \in Addrs : stats[u] \in Stat \cup {NoStat}
    BY <1>1 DEF Types
  <2> HIDE DEF Contains
  <2> QED BY <2>1, <2>2 DEF SetUpstreams
<1>4. Types'
  BY <1>1, <1>2, <1>3 DEF Types, SetUpstreams
<1>5. \A x \in Calls : Good(call[x], query[x], chan[x])'
  BY DEF IInv, SetUpstreams, Good, CallOK, HeardOK, TurnOK, InTurn, Races
<1> QED BY <1>4, <1>5 DEF IInv

LEMMA InvStep == IInv /\ [Next]_vars => IInv'
<1> SUFFICES ASSUME IInv, [Next]_vars PROVE IInv'
  OBVIOUS
<1>1. CASE UNCHANGED vars
  BY <1>1 DEF vars, IInv, Types, Good, CallOK, HeardOK, TurnOK, InTurn, Races
<1> QED BY <1>1, BeginStep, OutsideStep, QueryInv, CollectorStep, TurnStep, PanelStep DEF Next, CallerStep

\* Every variable keeps its type: no list or channel ever names a resolver twice, and
\* statistics are kept of the configured resolvers and of no others.
THEOREM TypeCorrect == Spec => []TypeOK
<1>1. IInv => TypeOK
  BY TypesToTypeOK DEF IInv
<1> QED BY <1>1, InvInit, InvStep, PTL DEF Spec

------------------------------------------------------------------------------
(* Who is charged *)

\* Only Record takes a query past its recording.
LEMMA OnlyRecord ==
    ASSUME IInv, [Next]_vars, NEW y \in Calls, NEW v \in Addrs, Recorded(y, v)
    PROVE  Record(y, v)
<1>1. Types
  BY DEF IInv
<1>2. query'[y][v] # query[y][v] /\ query[y][v].pc = "record"
  BY DEF Recorded
<1>3. ASSUME NEW x \in Calls, NEW u \in Addrs, NEW a, Asks(x, u, a)
      PROVE  x = y /\ u = v
  <2>1. query' = [query EXCEPT ![x] = [query[x] EXCEPT ![u] = a]]
    BY <1>3 DEF Asks
  <2>2. query[x] \in Asks0
    BY <1>1 DEF Types
  <2> QED BY <1>1, <1>2, <2>1, <2>2 DEF Types, Asks0
<1>4. query' # query
  BY <1>2
<1>5. ASSUME NEW x \in Calls, Begin(x) PROVE FALSE
  <2>1. x = y
    BY <1>1, <1>2, <1>5 DEF Begin, Types
  <2>2. call[x].pc = "idle" /\ CallOK(call[x], query[x], chan[x])
    BY <1>5, Now DEF Begin
  <2>3. Range(call[x].list) = {}
    BY <2>2 DEF CallOK, Range
  <2> QED BY <1>2, <2>1, <2>2, <2>3 DEF CallOK
<1>6. ASSUME NEW x \in Calls, NEW u \in Addrs, NextInTurn(x, u) PROVE FALSE
  <2> DEFINE c == call[x]
             f == Noted(x, u)
             w == f.list[Cardinality(f.got) + 1]
  <2>1. query' = query \/ (Asks(x, w, [Off EXCEPT !.pc = "udp"]) /\ ~Usable(query[x][u].res))
    BY <1>6 DEF NextInTurn
  <2>2. Asks(x, w, [Off EXCEPT !.pc = "udp"])
    BY <1>4, <2>1
  <2>3. x = y
    BY <1>1, <1>2, <2>2 DEF Asks, Types
  <2>4. \A a \in Addrs : query[x][a].pc # "off" => a \in c.got \cup {u}
    BY <1>6, TurnOf
  <2>5. v \in c.got \cup {u} /\ query[x][u].pc = "done"
    BY <1>2, <1>6, <2>3, <2>4 DEF NextInTurn
  <2> QED BY <1>2, <2>3, <2>5, Now DEF HeardOK
<1>7. ASSUME NEW x \in Calls, NEW u \in Addrs, QueryStep(x, u) PROVE Record(y, v)
  <2>1. \E a : Asks(x, u, a)
    BY <1>7 DEF QueryStep, AnswerUDP, AnswerTCP, FailUDP, FailTCP, Record, Send
  <2>2. x = y /\ u = v
    BY <1>3, <2>1
  <2> QED BY <1>2, <1>7, <2>2 DEF QueryStep, AnswerUDP, AnswerTCP, FailUDP, FailTCP, Send
<1>8. ASSUME \/ UNCHANGED vars \/ \E list \in Configs : SetUpstreams(list)
             \/ \E x \in Calls : NoneConfigured(x) \/ Deadline(x) \/ Receive(x) \/ SeeDone(x)
      PROVE  FALSE
  BY <1>4, <1>8 DEF vars, SetUpstreams, NoneConfigured, Deadline, Receive, SeeDone
<1> QED BY <1>5, <1>6, <1>7, <1>8 DEF Next, CallerStep

\* A statistic that is kept through a step changes in Record only.
LEMMA OnlyRecordCharges ==
    ASSUME IInv, [Next]_vars, NEW u \in Addrs, stats[u] # NoStat, stats'[u] # NoStat,
           stats'[u] # stats[u]
    PROVE  \E x \in Calls : Record(x, u)
<1>1. Types
  BY DEF IInv
<1>2. ASSUME NEW list \in Configs, SetUpstreams(list) PROVE FALSE
  <2> HIDE DEF Contains
  <2> QED BY <1>2 DEF SetUpstreams
<1>3. ASSUME NEW x \in Calls, NEW v \in Addrs, QueryStep(x, v) PROVE Record(x, u)
  <2>1. Record(x, v)
    BY <1>3 DEF QueryStep, AnswerUDP, AnswerTCP, FailUDP, FailTCP, Send
  <2>2. RecordStat(v, Usable(query[x][v].res)) /\ Usable(query[x][v].res) \in BOOLEAN
    BY <2>1 DEF Record, Usable
  <2>3. u = v
    BY <1>1, <2>2, RecordType
  <2> QED BY <2>1, <2>3
<1> QED
  BY <1>2, <1>3 DEF Next, CallerStep, vars, Begin, NoneConfigured, Deadline, Receive, SeeDone, NextInTurn

\* What Record charges: the resolver's own failure, and nothing else.
LEMMA RecordCharges ==
    ASSUME IInv, NEW x \in Calls, NEW u \in Addrs, Record(x, u), stats[u] # NoStat
    PROVE  /\ stats[u] \in Stat /\ stats'[u] \in Stat
           /\ stats'[u].errors = IF OwnFailure(query[x][u].res) THEN stats[u].errors + 1
                                 ELSE stats[u].errors
<1> DEFINE res == query[x][u].res
           race == Races(call[x])
<1>1. Types /\ HeardOK(call[x], query[x], chan[x]) /\ TurnOK(call[x], query[x])
  BY Now DEF IInv
<1>2. query[x][u].pc = "record"
  BY DEF Record
<1>3. Sound(res) /\ (~race => res.err # "canceled")
  BY <1>1, <1>2 DEF HeardOK, TurnOK, Spoken
<1>4. stats[u] \in Stat
  BY <1>1 DEF Types
<1>5. CASE race /\ res.err = "canceled"
  <2>1. stats' = stats
    BY <1>5 DEF Record, InRace, Races
  <2>2. ~OwnFailure(res)
    BY <1>5 DEF OwnFailure
  <2> QED BY <1>4, <2>1, <2>2
<1>6. CASE ~(race /\ res.err = "canceled")
  <2>1. RecordStat(u, Usable(res)) /\ Usable(res) \in BOOLEAN
    BY <1>6 DEF Record, InRace, Races, Usable
  <2>2. stats'[u] \in Stat /\ stats'[u].errors = IF Usable(res) THEN stats[u].errors ELSE stats[u].errors + 1
    BY <1>1, <2>1, RecordType
  <2>3. OwnFailure(res) <=> ~Usable(res)
    BY <1>3, <1>6 DEF OwnFailure, Usable, Sound
  <2> QED BY <1>4, <2>2, <2>3
<1> QED BY <1>5, <1>6

\* A resolver is charged whenever it failed, though another had won by then, and for
\* no exchange the winner's cancel cut short (exchangeRacing on B-12): BlameFits.
THEOREM BlameIsFair == Spec => BlameFits
<1> DEFINE Failed(u) == \E x \in Calls : Recorded(x, u) /\ OwnFailure(query[x][u].res)
           Fits == \A u \in Addrs :
                     LET failed == \E x \in Calls : Recorded(x, u) /\ OwnFailure(query[x][u].res)
                     IN  (stats[u] # NoStat /\ stats'[u] # NoStat) =>
                            /\ failed => stats'[u].errors = stats[u].errors + 1
                            /\ stats'[u].errors > stats[u].errors => failed
<1>1. ASSUME IInv, [Next]_vars PROVE Fits
  <2> SUFFICES ASSUME NEW u \in Addrs, stats[u] # NoStat, stats'[u] # NoStat
               PROVE  /\ Failed(u) => stats'[u].errors = stats[u].errors + 1
                      /\ stats'[u].errors > stats[u].errors => Failed(u)
    OBVIOUS
  <2>1. ASSUME Failed(u) PROVE stats'[u].errors = stats[u].errors + 1
    <3>1. PICK x \in Calls : Recorded(x, u) /\ OwnFailure(query[x][u].res)
      BY <2>1
    <3> QED BY <1>1, <3>1, OnlyRecord, RecordCharges
  <2>2. ASSUME stats'[u].errors > stats[u].errors PROVE Failed(u)
    <3>1. stats[u] \in Stat
      BY <1>1 DEF IInv, Types
    <3>2. stats'[u] # stats[u]
      BY <2>2, <3>1 DEF Stat
    <3>3. PICK x \in Calls : Record(x, u)
      BY <1>1, <3>2, OnlyRecordCharges
    <3>4. OwnFailure(query[x][u].res)
      BY <1>1, <2>2, <3>1, <3>3, RecordCharges DEF Stat
    <3>5. Recorded(x, u)
      <4>1. query[x] \in Asks0
        BY <1>1 DEF IInv, Types
      <4>2. query[x][u] \in Ask /\ query[x][u].pc = "record"
        BY <3>3, <4>1 DEF Record, Asks0
      <4> DEFINE b == [query[x][u] EXCEPT !.pc = IF InRace(x) THEN "send" ELSE "done"]
      <4>3. Asks(x, u, b) /\ b.pc # "record"
        BY <3>3, <4>2 DEF Record, Ask
      <4> HIDE DEF b
      <4>4. query'[x][u] = b
        BY <1>1, <4>1, <4>3 DEF Asks, IInv, Types, Asks0
      <4> QED BY <4>2, <4>3, <4>4 DEF Recorded
    <3> QED BY <3>4, <3>5
  <2> QED BY <2>1, <2>2
<1>2. Spec => [][Fits]_vars
  <2>1. IInv /\ [Next]_vars => [Fits]_vars
    BY <1>1
  <2> QED BY <2>1, InvInit, InvStep, PTL DEF Spec
<1>3. BlameFits <=> [][Fits]_vars
  BY DEF BlameFits
<1> QED BY <1>2, <1>3, PTL

------------------------------------------------------------------------------
(* The promise *)

SaidOf(q)    == [u \in Addrs |-> IF q[u].pc \in Spoken THEN Kind(q[u].res) ELSE "nothing"]
OutcomeOf(c) == IF c.pc = "returned" THEN Kind(c.out) ELSE "none"

\* What a step of one call does to what the promise sees.
LEMMA MapStep ==
    ASSUME NEW x \in Calls, OthersSame(x)
    PROVE  /\ Asked' = [Asked EXCEPT ![x] = Range(call'[x].list)]
           /\ Said' = [Said EXCEPT ![x] = SaidOf(query'[x])]
           /\ Late' = IF call'[x].ctx = "expired" THEN Late \cup {x} ELSE Late \ {x}
           /\ Outcome' = [Outcome EXCEPT ![x] = OutcomeOf(call'[x])]
<1> HIDE DEF Range, Kind
<1>1. \A y \in Calls : y # x => call'[y] = call[y] /\ query'[y] = query[y]
  BY DEF OthersSame
<1>2. Asked' = [Asked EXCEPT ![x] = Range(call'[x].list)]
  BY <1>1 DEF Asked
<1>3. Said' = [Said EXCEPT ![x] = SaidOf(query'[x])]
  <2>1. Said = [y \in Calls |-> SaidOf(query[y])] /\ Said' = [y \in Calls |-> SaidOf(query'[y])]
    BY DEF Said, SaidOf, Spoken
  <2> HIDE DEF SaidOf
  <2> QED BY <1>1, <2>1
<1>4. Late' = IF call'[x].ctx = "expired" THEN Late \cup {x} ELSE Late \ {x}
  BY <1>1 DEF Late
<1>5. Outcome' = [Outcome EXCEPT ![x] = OutcomeOf(call'[x])]
  BY <1>1 DEF Outcome, OutcomeOf
<1> QED BY <1>2, <1>3, <1>4, <1>5

\* What the promise sees of one call.
LEMMA MapNow ==
    ASSUME NEW x \in Calls
    PROVE  /\ Asked[x] = Range(call[x].list) /\ Said[x] = SaidOf(query[x])
           /\ x \in Late <=> call[x].ctx = "expired"
           /\ Outcome[x] = OutcomeOf(call[x])
           /\ Asked = [Asked EXCEPT ![x] = Asked[x]] /\ Said = [Said EXCEPT ![x] = Said[x]]
           /\ Outcome = [Outcome EXCEPT ![x] = Outcome[x]]
BY DEF Asked, Said, Late, Outcome, SaidOf, OutcomeOf, Spoken

\* What is said of a sound result.
LEMMA Kinds ==
    ASSUME NEW res, Sound(res)
    PROVE  /\ Kind(res) \in Promise!Kinds
           /\ Kind(res) = "answer" <=> Usable(res)
           /\ (Kind(res) = "verdict") <=> (res.err = "none" /\ ~Usable(res))
<1>1. CASE res.err # "none"
  <2>1. Kind(res) = "error"
    BY <1>1 DEF Kind
  <2>2. ~Usable(res)
    BY <1>1 DEF Usable
  <2> QED BY <1>1, <2>1, <2>2 DEF Promise!Kinds
<1>2. CASE res.err = "none" /\ UsableRcode(res.msg)
  <2>1. res.msg.own
    BY <1>2 DEF Sound
  <2>2. Kind(res) = "answer"
    BY <1>2, <2>1 DEF Kind
  <2> QED BY <1>2, <2>2 DEF Usable, Promise!Kinds
<1>3. CASE res.err = "none" /\ ~UsableRcode(res.msg)
  <2>1. res.msg.own
    BY <1>3 DEF Sound
  <2>2. Kind(res) = "verdict"
    BY <1>3, <2>1 DEF Kind
  <2> QED BY <1>3, <2>2 DEF Usable, Promise!Kinds
<1> QED BY <1>1, <1>2, <1>3

\* A query that speaks is heard.
LEMMA HearStep ==
    ASSUME IInv, NEW x \in Calls, NEW u \in Addrs, NEW a \in Ask, Asks(x, u, a), call' = call, chan' = chan,
           query[x][u].pc \in {"udp", "tcp"}, a.pc = "record", Sound(a.res)
    PROVE  \E kind \in Promise!Kinds : Promise!Hear(x, u, kind)
<1> DEFINE q == query[x]
<1>1. Types /\ q \in Asks0 /\ CallOK(call[x], q, chan[x])
  BY Now DEF IInv
<1>2. u \in Range(call[x].list)
  BY <1>1 DEF CallOK
<1>3. query'[x] = [q EXCEPT ![u] = a] /\ OthersSame(x)
  BY <1>1 DEF Asks, Types, OthersSame
<1>4. Said[x] = SaidOf(q)
  BY MapNow
<1>5. SaidOf(q)[u] = "nothing" /\ SaidOf(query'[x]) = [SaidOf(q) EXCEPT ![u] = Kind(a.res)]
  <2> HIDE DEF Kind
  <2>1. q[u].pc \notin Spoken /\ a.pc \in Spoken
    BY DEF Spoken
  <2>2. query'[x][u] = a /\ \A v \in Addrs : v # u => query'[x][v] = q[v]
    BY <1>1, <1>3 DEF Asks0
  <2> HIDE DEF q, Spoken
  <2> QED BY <2>1, <2>2 DEF SaidOf
<1>6. Said' = [Said EXCEPT ![x] = [Said[x] EXCEPT ![u] = Kind(a.res)]]
  <2>1. Said' = [Said EXCEPT ![x] = SaidOf(query'[x])]
    BY <1>3, MapStep
  <2> HIDE DEF SaidOf, Kind, Said
  <2> QED BY <1>4, <1>5, <2>1
<1>7. UNCHANGED << Asked, Late, Outcome >>
  BY DEF Asked, Late, Outcome
<1>8. Promise!Hear(x, u, Kind(a.res))
  <2>1. Asked[x] = Range(call[x].list)
    BY MapNow
  <2> HIDE DEF Kind, Said, Asked, Late, Outcome, SaidOf
  <2> QED BY <1>2, <1>4, <1>5, <1>6, <1>7, <2>1 DEF Promise!Hear
<1> QED BY <1>8, Kinds

\* A step that the promise does not see.
LEMMA Unseen ==
    ASSUME NEW x \in Calls, OthersSame(x), call'[x].list = call[x].list, call'[x].ctx = call[x].ctx,
           OutcomeOf(call'[x]) = OutcomeOf(call[x]), SaidOf(query'[x]) = SaidOf(query[x])
    PROVE  UNCHANGED Promise!vars
<1>1. Asked' = Asked /\ Said' = Said /\ Outcome' = Outcome
  <2>1. /\ Asked' = [Asked EXCEPT ![x] = Range(call'[x].list)]
        /\ Said' = [Said EXCEPT ![x] = SaidOf(query'[x])]
        /\ Outcome' = [Outcome EXCEPT ![x] = OutcomeOf(call'[x])]
    BY MapStep
  <2>2. /\ Asked = [Asked EXCEPT ![x] = Range(call[x].list)]
        /\ Said = [Said EXCEPT ![x] = SaidOf(query[x])]
        /\ Outcome = [Outcome EXCEPT ![x] = OutcomeOf(call[x])]
    BY MapNow
  <2> HIDE DEF Asked, Said, Outcome, OutcomeOf, SaidOf, Range
  <2> QED BY <2>1, <2>2
<1>2. Late' = Late
  <2>1. Late' = IF call[x].ctx = "expired" THEN Late \cup {x} ELSE Late \ {x}
    BY MapStep
  <2>2. x \in Late <=> call[x].ctx = "expired"
    BY MapNow
  <2> HIDE DEF Late
  <2> QED BY <2>1, <2>2
<1> QED BY <1>1, <1>2 DEF Promise!vars

LEMMA QueryRefines ==
    ASSUME IInv, NEW x \in Calls, NEW u \in Addrs, QueryStep(x, u)
    PROVE  (\E kind \in Promise!Kinds : Promise!Hear(x, u, kind)) \/ UNCHANGED Promise!vars
<1> DEFINE c == call[x]
           a == query[x][u]
<1>1. Types /\ query[x] \in Asks0 /\ a \in Ask /\ HeardOK(c, query[x], chan[x]) /\ c \in CallRec
  BY Now DEF IInv, Asks0
<1>2. call' = call
  BY DEF QueryStep, AnswerUDP, AnswerTCP, FailUDP, FailTCP, Record, Send
<1>3. ASSUME NEW r \in Results, Sound(r), a.pc \in {"udp", "tcp"}, chan' = chan,
             Asks(x, u, [a EXCEPT !.pc = "record", !.res = r])
      PROVE  \E kind \in Promise!Kinds : Promise!Hear(x, u, kind)
  <2> DEFINE b == [a EXCEPT !.pc = "record", !.res = r]
  <2>1. b \in Ask /\ b.pc = "record" /\ b.res = r
    BY <1>1, <1>3 DEF Ask, Busy
  <2> HIDE DEF b
  <2>2. Asks(x, u, b)
    BY <1>3 DEF b
  <2> QED BY <1>2, <1>3, <2>1, <2>2, HearStep
<1>4. ASSUME NEW b, Asks(x, u, b), b.pc \in Spoken <=> a.pc \in Spoken, b.res = a.res,
             chan' = chan \/ chan' = [chan EXCEPT ![x] = Append(@, u)]
      PROVE  UNCHANGED Promise!vars
  <2>1. OthersSame(x)
    BY <1>1, <1>2, <1>4 DEF OthersSame, Asks, Types
  <2>2. query'[x] = [query[x] EXCEPT ![u] = b]
    BY <1>1, <1>4 DEF Asks, Types
  <2>3. SaidOf(query'[x]) = SaidOf(query[x])
    <3> HIDE DEF Kind
    <3>1. \A v \in Addrs : query'[x][v].pc \in Spoken <=> query[x][v].pc \in Spoken
      BY <1>1, <1>4, <2>2 DEF Asks0
    <3>2. \A v \in Addrs : query'[x][v].res = query[x][v].res
      BY <1>1, <1>4, <2>2 DEF Asks0
    <3> HIDE DEF Spoken
    <3> QED BY <3>1, <3>2 DEF SaidOf
  <2> QED BY <1>2, <2>1, <2>3, Unseen
<1>5. ASSUME NEW m \in Replies, AnswerUDP(x, u, m)
      PROVE  (\E kind \in Promise!Kinds : Promise!Hear(x, u, kind)) \/ UNCHANGED Promise!vars
  <2>1. a.pc = "udp" /\ chan' = chan
    BY <1>5 DEF AnswerUDP
  <2>2. CASE m.tc
    <3> DEFINE b == [a EXCEPT !.pc = "tcp", !.udp = m]
    <3>1. Asks(x, u, b) /\ b.pc = "tcp" /\ b.res = a.res
      BY <1>1, <1>5, <2>2 DEF AnswerUDP, Ask
    <3> HIDE DEF b
    <3> QED BY <1>4, <2>1, <3>1 DEF Spoken
  <2>3. CASE ~m.tc
    <3>1. Asks(x, u, [a EXCEPT !.pc = "record", !.res = Checked(m)])
      BY <1>5, <2>3 DEF AnswerUDP
    <3> QED BY <1>3, <2>1, <3>1, SoundResults
  <2> QED BY <2>2, <2>3
<1>6. ASSUME NEW m \in Replies, AnswerTCP(x, u, m)
      PROVE  \E kind \in Promise!Kinds : Promise!Hear(x, u, kind)
  <2>1. Asks(x, u, [a EXCEPT !.pc = "record", !.res = Checked(m)]) /\ a.pc = "tcp" /\ chan' = chan
    BY <1>6 DEF AnswerTCP
  <2> QED BY <1>3, <2>1, SoundResults
<1>7. ASSUME FailUDP(x, u) PROVE \E kind \in Promise!Kinds : Promise!Hear(x, u, kind)
  <2>1. PICK e \in Errors(x) : Asks(x, u, [a EXCEPT !.pc = "record", !.res = Failure(e)])
    BY <1>7 DEF FailUDP
  <2>2. e \in {"network", "deadline", "canceled"} /\ a.pc = "udp" /\ chan' = chan
    BY <1>1, <1>7 DEF Errors, CallRec, FailUDP
  <2> QED BY <1>3, <2>1, <2>2, SoundResults
<1>8. ASSUME FailTCP(x, u) PROVE \E kind \in Promise!Kinds : Promise!Hear(x, u, kind)
  <2>1. Asks(x, u, [a EXCEPT !.pc = "record", !.res = Checked(a.udp)]) /\ a.pc = "tcp" /\ chan' = chan
    BY <1>8 DEF FailTCP
  <2>2. a.udp \in Replies
    BY <1>1, <2>1 DEF HeardOK
  <2> QED BY <1>3, <2>1, <2>2, SoundResults
<1>9. ASSUME Record(x, u) PROVE UNCHANGED Promise!vars
  <2> DEFINE b == [a EXCEPT !.pc = IF InRace(x) THEN "send" ELSE "done"]
  <2>1. Asks(x, u, b) /\ b.pc \in Spoken /\ b.res = a.res /\ a.pc \in Spoken /\ chan' = chan
    BY <1>1, <1>9 DEF Record, Ask, Spoken
  <2> HIDE DEF b
  <2> QED BY <1>4, <2>1
<1>10. ASSUME Send(x, u) PROVE UNCHANGED Promise!vars
  <2> DEFINE b == [a EXCEPT !.pc = "done"]
  <2>1. /\ Asks(x, u, b) /\ b.pc \in Spoken /\ b.res = a.res /\ a.pc \in Spoken
        /\ chan' = chan \/ chan' = [chan EXCEPT ![x] = Append(@, u)]
    BY <1>1, <1>10 DEF Send, Ask, Spoken
  <2> HIDE DEF b
  <2> QED BY <1>4, <2>1
<1> QED BY <1>5, <1>6, <1>7, <1>8, <1>9, <1>10 DEF QueryStep

\* What the promise knows of a call that has begun and not ended.
LEMMA Collecting ==
    ASSUME IInv, NEW x \in Calls, call[x].pc = "collect"
    PROVE  /\ Asked[x] = Range(call[x].list) /\ Asked[x] # {} /\ Asked[x] \subseteq Addrs
           /\ Outcome[x] = "none" /\ call[x].got \subseteq Asked[x]
           /\ \A u \in Addrs : query[x][u].pc = "done" =>
                 u \in Asked[x] /\ Said[x][u] = Kind(query[x][u].res) /\ Sound(query[x][u].res)
<1>1. /\ CallOK(call[x], query[x], chan[x]) /\ HeardOK(call[x], query[x], chan[x])
      /\ call[x].list \in Lists /\ call[x].list # << >> /\ call[x].got \in SUBSET Addrs
  <2>1. CallOK(call[x], query[x], chan[x])
    BY Now
  <2> QED BY <2>1, Now DEF CallOK
<1>2. Asked[x] = Range(call[x].list) /\ Said[x] = SaidOf(query[x]) /\ Outcome[x] = "none"
  BY MapNow DEF OutcomeOf
<1>3. Asked[x] # {} /\ Asked[x] \subseteq Addrs
  BY <1>1, <1>2, ListFacts
<1>4. ASSUME NEW u \in Addrs, query[x][u].pc = "done"
      PROVE  u \in Asked[x] /\ Said[x][u] = Kind(query[x][u].res) /\ Sound(query[x][u].res)
  <2>1. u \in Asked[x]
    BY <1>1, <1>2, <1>4 DEF CallOK
  <2>2. Sound(query[x][u].res)
    BY <1>1, <1>4 DEF HeardOK, Spoken
  <2>3. Said[x][u] = Kind(query[x][u].res)
    <3> HIDE DEF Said, Kind
    <3> QED BY <1>2, <1>4 DEF SaidOf, Spoken
  <2> QED BY <2>1, <2>2, <2>3
<1>5. call[x].got \subseteq Asked[x]
  <2>1. \A u \in call[x].got : query[x][u].pc = "done"
    BY <1>1 DEF HeardOK
  <2> QED BY <1>1, <1>4, <2>1
<1> QED BY <1>2, <1>3, <1>4, <1>5

\* The call ends with what it may end with: a usable result, or, when the deadline
\* has passed or every resolver was heard, the verdict over what it heard.
LEMMA ConcludeStep ==
    ASSUME IInv, NEW x \in Calls, call[x].pc = "collect", OthersSame(x), query' = query,
           NEW f \in CallRec, f.pc = "collect", f.list = call[x].list, f.ctx = call[x].ctx,
           f.got \subseteq Addrs, HeardOK(f, query[x], << >>),
           NEW out \in Results, Return(x, f, out),
           \/ \E u \in Addrs : query[x][u].pc = "done" /\ out = query[x][u].res /\ Usable(out)
           \/ out = Verdict(f) /\ (f.ctx = "expired" \/ f.got = Range(f.list))
    PROVE  \E kind \in Promise!Kinds : Promise!Conclude(x, kind)
<1> DEFINE q == query[x]
<1>1. /\ Asked[x] = Range(call[x].list) /\ Asked[x] # {} /\ Asked[x] \subseteq Addrs
      /\ Outcome[x] = "none"
      /\ \A u \in Addrs : q[u].pc = "done" => u \in Asked[x] /\ Said[x][u] = Kind(q[u].res) /\ Sound(q[u].res)
  BY Collecting
<1>2. /\ call'[x].list = call[x].list /\ OutcomeOf(call'[x]) = Kind(out)
      /\ call'[x].ctx = IF call[x].ctx = "live" THEN "canceled" ELSE call[x].ctx
  <2>1. call'[x] = [f EXCEPT !.pc = "returned", !.out = out,
                             !.ctx = IF @ = "live" THEN "canceled" ELSE @]
    BY DEF Return, Locals, IInv, Types
  <2>2. call'[x].pc = "returned" /\ call'[x].list = f.list /\ call'[x].out = out
        /\ call'[x].ctx = IF f.ctx = "live" THEN "canceled" ELSE f.ctx
    BY <2>1 DEF CallRec
  <2> QED BY <2>2 DEF OutcomeOf
<1>3. UNCHANGED << Asked, Said, Late >> /\ Outcome' = [Outcome EXCEPT ![x] = Kind(out)]
  <2>1. Asked' = Asked
    <3>1. Asked' = [Asked EXCEPT ![x] = Range(call[x].list)] /\ Asked = [Asked EXCEPT ![x] = Asked[x]]
      BY <1>2, MapStep, MapNow
    <3> HIDE DEF Asked, Range
    <3> QED BY <1>1, <3>1
  <2>2. Said' = Said
    BY DEF Said
  <2>3. Late' = Late
    <3>1. Late' = IF call[x].ctx = "expired" THEN Late \cup {x} ELSE Late \ {x}
      BY <1>2, MapStep
    <3>2. x \in Late <=> call[x].ctx = "expired"
      BY MapNow
    <3> HIDE DEF Late
    <3> QED BY <3>1, <3>2
  <2>4. Outcome' = [Outcome EXCEPT ![x] = OutcomeOf(call'[x])]
    BY MapStep
  <2> HIDE DEF Outcome, OutcomeOf, Kind
  <2> QED BY <1>2, <2>1, <2>2, <2>3, <2>4
<1>4. x \in Late <=> f.ctx = "expired"
  BY MapNow
<1> HIDE DEF Asked, Said, Late, Outcome, Range
<1>5. CASE \E u \in Addrs : q[u].pc = "done" /\ out = q[u].res /\ Usable(out)
  <2>1. PICK u \in Addrs : q[u].pc = "done" /\ out = q[u].res /\ Usable(out)
    BY <1>5
  <2>2. u \in Asked[x] /\ Said[x][u] = Kind(out) /\ Kind(out) = "answer"
    BY <1>1, <2>1, Kinds
  <2> HIDE DEF Kind
  <2> QED BY <1>1, <1>3, <2>2 DEF Promise!Conclude, Promise!Heard, Promise!Kinds
<1>6. CASE out = Verdict(f) /\ (f.ctx = "expired" \/ f.got = Range(f.list))
  <2>1. \A u \in f.got : /\ q[u].pc = "done" /\ ~Usable(q[u].res)
                         /\ u \in Asked[x] /\ Said[x][u] = Kind(q[u].res) /\ Sound(q[u].res)
    BY <1>1 DEF HeardOK
  <2>2. /\ Kind(out) \in {"verdict", "error"} /\ (Kind(out) = "verdict" => Promise!Heard(x, "verdict"))
        /\ (Kind(out) = "error" => \A u \in f.got : Said[x][u] # "verdict")
    <3>1. CASE f.fallback = NoReply
      <4>1. Kind(out) = "error"
        BY <1>6, <3>1 DEF Verdict, Failure, Kind
      <4>2. \A u \in f.got : q[u].res.err # "none"
        BY <3>1 DEF HeardOK
      <4>3. \A u \in f.got : Said[x][u] # "verdict"
        BY <2>1, <4>2, Kinds
      <4> QED BY <4>1, <4>3
    <3>2. CASE f.fallback # NoReply
      <4>1. PICK u \in f.got : q[u].res.err = "none" /\ q[u].res.msg = f.fallback
        BY <3>2 DEF HeardOK
      <4>2. Said[x][u] = "verdict"
        BY <2>1, <4>1, Kinds
      <4>3. Kind(out) = Kind(q[u].res)
        BY <1>6, <3>2, <4>1 DEF Verdict, Message, Kind
      <4>4. Kind(out) = "verdict"
        <5> HIDE DEF Kind
        <5> QED BY <2>1, <4>2, <4>3
      <4> QED BY <2>1, <4>2, <4>4 DEF Promise!Heard
    <3> QED BY <3>1, <3>2
  <2>3. ASSUME f.got = Asked[x] PROVE Promise!AllSpoke(x) /\ ~Promise!Heard(x, "answer")
    <3>1. \A u \in Asked[x] : Said[x][u] \in Promise!Kinds /\ Said[x][u] # "answer"
      BY <2>1, <2>3, Kinds
    <3> QED BY <3>1 DEF Promise!AllSpoke, Promise!Heard, Promise!Kinds
  <2>4. x \in Late \/ f.got = Asked[x]
    BY <1>1, <1>4, <1>6
  <2> HIDE DEF Kind, q
  <2>5. x \in Late \/ /\ Promise!AllSpoke(x) /\ ~Promise!Heard(x, "answer")
                      /\ Kind(out) = "error" => ~Promise!Heard(x, "verdict")
    BY <2>2, <2>3, <2>4 DEF Promise!Heard
  <2> HIDE DEF Promise!Heard, Promise!AllSpoke
  <2>6. Promise!Conclude(x, Kind(out))
    BY <1>1, <1>3, <2>2, <2>5 DEF Promise!Conclude
  <2> QED BY <2>2, <2>6 DEF Promise!Kinds
<1> QED BY <1>5, <1>6

LEMMA BeginRefines ==
    ASSUME IInv, NEW x \in Calls, Begin(x)
    PROVE  \E us \in SUBSET Addrs : Promise!Begin(x, us)
<1> DEFINE first == IF racing THEN Range(upstreams) ELSE {upstreams[1]}
           w     == [u \in Addrs |-> IF u \in first THEN [Off EXCEPT !.pc = "udp"] ELSE Off]
<1>1. /\ call[x] \in CallRec /\ query[x] \in Asks0 /\ upstreams \in Lists
      /\ call[x].pc = "idle" /\ CallOK(call[x], query[x], chan[x]) /\ Types
  BY Now DEF Begin, IInv
<1>2. call[x].list = << >> /\ call[x].ctx = "live" /\ \A u \in Addrs : query[x][u].pc = "off"
  <2>1. call[x].list = << >> /\ call[x].ctx = "live"
    BY <1>1 DEF CallOK
  <2>2. Range(<< >>) = {}
    BY DEF Range
  <2> QED BY <1>1, <2>1, <2>2 DEF CallOK
<1>3. query' = [query EXCEPT ![x] = w] /\ UNCHANGED chan
      /\ Locals(x, [call[x] EXCEPT !.pc = "collect", !.list = upstreams])
  BY DEF Begin
<1>4. \A u \in Addrs : w[u].pc \notin Spoken
  <2>1. [Off EXCEPT !.pc = "udp"].pc = "udp" /\ Off.pc = "off"
    BY OffType DEF Off
  <2> HIDE DEF first
  <2> QED BY <2>1 DEF Spoken
<1> HIDE DEF w
<1>5. /\ call'[x].pc = "collect" /\ call'[x].list = upstreams /\ call'[x].ctx = "live"
      /\ query'[x] = w /\ OthersSame(x)
  <2>1. call' = [call EXCEPT ![x] = [call[x] EXCEPT !.pc = "collect", !.list = upstreams]]
    BY <1>3 DEF Locals
  <2>2. call'[x] = [call[x] EXCEPT !.pc = "collect", !.list = upstreams]
    BY <1>1, <2>1 DEF Types
  <2>3. call'[x].pc = "collect" /\ call'[x].list = upstreams /\ call'[x].ctx = "live"
    BY <1>1, <1>2, <2>2 DEF CallRec
  <2> QED BY <1>1, <1>3, <2>1, <2>3 DEF OthersSame, Types
<1>6. SaidOf(w) = SaidOf(query[x])
  <2> HIDE DEF Kind
  <2> QED BY <1>2, <1>4 DEF SaidOf, Spoken
<1>7. OutcomeOf(call'[x]) = "none" /\ OutcomeOf(call[x]) = "none"
  BY <1>1, <1>5 DEF OutcomeOf
<1>8. Range(upstreams) \subseteq Addrs /\ Range(call[x].list) = {}
  <2>1. << >> \in Lists
    BY DEF Lists
  <2> QED BY <1>1, <1>2, <2>1, ListFacts
<1>9. Asked' = [Asked EXCEPT ![x] = Range(upstreams)] /\ Asked[x] = {} /\ Outcome[x] = "none"
  <2>1. Asked' = [Asked EXCEPT ![x] = Range(call'[x].list)]
    BY <1>5, MapStep
  <2> QED BY <1>5, <1>7, <1>8, <2>1, MapNow
<1>10. Said' = Said
  <2>1. Said' = [Said EXCEPT ![x] = SaidOf(query'[x])] /\ Said = [Said EXCEPT ![x] = Said[x]]
        /\ Said[x] = SaidOf(query[x])
    BY <1>5, MapStep, MapNow
  <2> HIDE DEF Said, SaidOf
  <2> QED BY <1>5, <1>6, <2>1
<1>11. Outcome' = Outcome
  <2>1. Outcome' = [Outcome EXCEPT ![x] = OutcomeOf(call'[x])] /\ Outcome = [Outcome EXCEPT ![x] = Outcome[x]]
        /\ Outcome[x] = OutcomeOf(call[x])
    BY <1>5, MapStep, MapNow
  <2> HIDE DEF Outcome, OutcomeOf
  <2> QED BY <1>7, <2>1
<1>12. Late' = Late
  <2>1. Late' = IF call'[x].ctx = "expired" THEN Late \cup {x} ELSE Late \ {x}
    BY <1>5, MapStep
  <2>2. x \in Late <=> call[x].ctx = "expired"
    BY MapNow
  <2> HIDE DEF Late
  <2> QED BY <1>2, <1>5, <2>1, <2>2
<1>13. Promise!Begin(x, Range(upstreams))
  <2> HIDE DEF Asked, Said, Late, Outcome, Range
  <2> QED BY <1>9, <1>10, <1>11, <1>12 DEF Promise!Begin
<1> QED BY <1>8, <1>13

LEMMA RefuseRefines ==
    ASSUME IInv, NEW x \in Calls, NoneConfigured(x)
    PROVE  Promise!Refuse(x)
<1>1. /\ call[x] \in CallRec /\ call[x].pc = "idle" /\ CallOK(call[x], query[x], chan[x]) /\ Types
      /\ query' = query /\ chan' = chan
      /\ Locals(x, [call[x] EXCEPT !.pc = "returned", !.out = Failure("no upstreams")])
  BY Now DEF NoneConfigured, IInv
<1>2. call' = [call EXCEPT ![x] = [call[x] EXCEPT !.pc = "returned", !.out = Failure("no upstreams")]]
  BY <1>1 DEF Locals
<1>3. /\ call'[x].list = call[x].list /\ call'[x].ctx = call[x].ctx /\ OthersSame(x)
      /\ call'[x].pc = "returned" /\ call'[x].out = Failure("no upstreams")
  <2>1. call'[x] = [call[x] EXCEPT !.pc = "returned", !.out = Failure("no upstreams")]
    BY <1>1, <1>2 DEF Types
  <2> QED BY <1>1, <1>2, <2>1 DEF OthersSame, Types, CallRec
<1>4. OutcomeOf(call'[x]) = "error" /\ OutcomeOf(call[x]) = "none"
  <2>1. Kind(Failure("no upstreams")) = "error"
    BY DEF Kind, Failure
  <2> HIDE DEF Kind
  <2> QED BY <1>1, <1>3, <2>1 DEF OutcomeOf
<1>5. call[x].list = << >> /\ Range(<< >>) = {}
  BY <1>1 DEF CallOK, Range
<1>6. Asked[x] = {} /\ Outcome[x] = "none" /\ Outcome' = [Outcome EXCEPT ![x] = "error"]
  <2>1. Outcome' = [Outcome EXCEPT ![x] = OutcomeOf(call'[x])]
    BY <1>3, MapStep
  <2> QED BY <1>4, <1>5, <2>1, MapNow
<1>7. Asked' = Asked /\ Said' = Said
  <2>1. \A y \in Calls : call'[y].list = call[y].list
    BY <1>3 DEF OthersSame
  <2> QED BY <1>1, <2>1 DEF Asked, Said
<1>8. Late' = Late
  BY <1>3 DEF OthersSame, Late
<1> HIDE DEF Asked, Said, Late, Outcome
<1> QED BY <1>6, <1>7, <1>8 DEF Promise!Refuse

LEMMA ExpireRefines ==
    ASSUME IInv, NEW x \in Calls, Deadline(x)
    PROVE  Promise!Expire(x)
<1>1. /\ call[x] \in CallRec /\ call[x].pc = "collect" /\ Types /\ query' = query /\ chan' = chan
      /\ Locals(x, [call[x] EXCEPT !.ctx = "expired"])
  BY Now DEF Deadline, IInv
<1>2. call' = [call EXCEPT ![x] = [call[x] EXCEPT !.ctx = "expired"]]
  BY <1>1 DEF Locals
<1>3. /\ call'[x].list = call[x].list /\ call'[x].ctx = "expired" /\ OthersSame(x)
      /\ call'[x].pc = call[x].pc /\ call'[x].out = call[x].out
  <2>1. call'[x] = [call[x] EXCEPT !.ctx = "expired"]
    BY <1>1, <1>2 DEF Types
  <2> QED BY <1>1, <1>2, <2>1 DEF OthersSame, Types, CallRec
<1>4. Asked' = Asked /\ Said' = Said /\ Outcome' = Outcome
  <2>1. \A y \in Calls : /\ call'[y].list = call[y].list /\ call'[y].pc = call[y].pc
                         /\ call'[y].out = call[y].out
    BY <1>3 DEF OthersSame
  <2> HIDE DEF Range, Kind
  <2> QED BY <1>1, <2>1 DEF Asked, Said, Outcome
<1>5. Late' = Late \cup {x}
  BY <1>3, MapStep
<1>6. Asked[x] # {} /\ Outcome[x] = "none"
  BY <1>1, Collecting
<1> HIDE DEF Asked, Said, Late, Outcome
<1> QED BY <1>4, <1>5, <1>6 DEF Promise!Expire

\* The caller goes on collecting: nothing new was said.
LEMMA GoesOn ==
    ASSUME IInv, NEW x \in Calls, NEW u \in Addrs, call[x].pc = "collect",
           query[x][u].pc = "done", ~Usable(query[x][u].res), Locals(x, Noted(x, u)), OthersSame(x),
           SaidOf(query'[x]) = SaidOf(query[x])
    PROVE  UNCHANGED Promise!vars
<1> DEFINE f == Noted(x, u)
<1>1. f.pc = "collect" /\ f.list = call[x].list /\ f.ctx = call[x].ctx
  BY NotedOK
<1> HIDE DEF f
<1>2. call'[x] = f
  BY DEF Locals, IInv, Types, f
<1>3. OutcomeOf(call'[x]) = OutcomeOf(call[x])
  BY <1>1, <1>2 DEF OutcomeOf
<1> QED BY <1>1, <1>2, <1>3, Unseen

LEMMA CollectorRefines ==
    ASSUME IInv, NEW x \in Calls, Receive(x) \/ SeeDone(x)
    PROVE  (\E kind \in Promise!Kinds : Promise!Conclude(x, kind)) \/ UNCHANGED Promise!vars
<1> DEFINE c == call[x]
           q == query[x]
<1>1. /\ c \in CallRec /\ q \in Asks0 /\ chan[x] \in Lists /\ HeardOK(c, q, chan[x])
      /\ c.pc = "collect" /\ query' = query /\ c.list \in Lists /\ Types
  BY Now DEF Receive, SeeDone, IInv
<1>2. HeardOK(c, q, << >>) /\ Verdict(c) \in Results /\ c.got \subseteq Addrs
  <2>1. Range(<< >>) = {}
    BY DEF Range
  <2> QED BY <1>1, <2>1, VerdictType, Now DEF HeardOK
<1>3. CASE SeeDone(x)
  <2>1. Return(x, c, Verdict(c)) /\ c.ctx = "expired"
    BY <1>3 DEF SeeDone
  <2>2. OthersSame(x)
    BY <1>1, <1>3 DEF SeeDone, Return, Locals, OthersSame, Types
  <2> QED BY <1>1, <1>2, <2>1, <2>2, ConcludeStep
<1>4. CASE Receive(x)
  <2> DEFINE u == Head(chan[x])
             f == Noted(x, u)
  <2>1. u \in Range(chan[x]) /\ u \in Addrs
    BY <1>1, <1>4, TailFacts, ListFacts DEF Receive
  <2>2. q[u].pc = "done" /\ q[u].res \in Results
    BY <1>1, <2>1 DEF HeardOK, Asks0, Ask
  <2>3. OthersSame(x)
    BY <1>1, <1>4 DEF Receive, Return, Locals, OthersSame, Types
  <2> HIDE DEF u
  <2>4. CASE Usable(q[u].res)
    <3>1. Return(x, c, q[u].res)
      BY <1>4, <2>4 DEF Receive, u
    <3> QED BY <1>1, <1>2, <2>1, <2>2, <2>3, <2>4, <3>1, ConcludeStep
  <2>5. CASE ~Usable(q[u].res)
    <3>1. /\ f \in CallRec /\ f.pc = "collect" /\ f.list = c.list /\ f.ctx = c.ctx
          /\ f.got = c.got \cup {u} /\ HeardOK(f, q, << >>)
      BY <1>1, <1>2, <2>1, <2>2, <2>5, NotedOK
    <3>2. (Return(x, f, Verdict(f)) /\ f.got = Range(f.list)) \/ Locals(x, f)
      BY <1>4, <2>5 DEF Receive, u
    <3>3. Verdict(f) \in Results /\ f.got \subseteq Addrs
      BY <1>2, <2>1, <3>1, VerdictType
    <3>4. CASE Locals(x, f)
      BY <1>1, <2>1, <2>2, <2>3, <2>5, <3>4, GoesOn
    <3> HIDE DEF f
    <3>5. CASE Return(x, f, Verdict(f)) /\ f.got = Range(f.list)
      BY <1>1, <2>3, <3>1, <3>3, <3>5, ConcludeStep
    <3> QED BY <3>2, <3>4, <3>5
  <2> QED BY <2>4, <2>5
<1> QED BY <1>3, <1>4

LEMMA TurnRefines ==
    ASSUME IInv, NEW x \in Calls, NEW u \in Addrs, NextInTurn(x, u)
    PROVE  (\E kind \in Promise!Kinds : Promise!Conclude(x, kind)) \/ UNCHANGED Promise!vars
<1> DEFINE c == call[x]
           q == query[x]
           n == Cardinality(c.got)
           f == Noted(x, u)
           g == c.got \cup {u}
<1>1. /\ c \in CallRec /\ q \in Asks0 /\ HeardOK(c, q, chan[x]) /\ c.pc = "collect"
      /\ chan' = chan /\ c.list \in Lists /\ Types /\ q[u].pc = "done"
  BY Now DEF NextInTurn, IInv
<1>2. HeardOK(c, q, << >>) /\ c.got \subseteq Addrs /\ q[u].res \in Results
  <2>1. Range(<< >>) = {}
    BY DEF Range
  <2> QED BY <1>1, <2>1, Now DEF HeardOK, Asks0, Ask
<1>3. /\ n \in Nat /\ n < Len(c.list) /\ u = c.list[n + 1] /\ Cardinality(g) = n + 1
      /\ g = { c.list[i] : i \in 1 .. n + 1 }
      /\ \A v \in Addrs : q[v].pc # "off" => v \in g
  BY TurnOf
<1> HIDE DEF n
<1>4. CASE Usable(q[u].res)
  <2>1. Return(x, c, q[u].res) /\ query' = query
    BY <1>4 DEF NextInTurn
  <2>2. OthersSame(x)
    BY <1>1, <2>1 DEF Return, Locals, OthersSame, Types
  <2> QED BY <1>1, <1>2, <1>4, <2>1, <2>2, ConcludeStep
<1>5. CASE ~Usable(q[u].res)
  <2>1. /\ f \in CallRec /\ f.pc = "collect" /\ f.list = c.list /\ f.ctx = c.ctx
        /\ f.got = g /\ HeardOK(f, q, << >>)
    BY <1>1, <1>2, <1>5, NotedOK
  <2>2. \/ /\ n + 1 = Len(f.list) \/ f.ctx = "expired"
           /\ Return(x, f, Verdict(f)) /\ query' = query
        \/ /\ n + 1 # Len(f.list)
           /\ Locals(x, f) /\ Asks(x, f.list[n + 2], [Off EXCEPT !.pc = "udp"])
    <3>1. Cardinality(f.got) = n + 1 /\ (n + 1) + 1 = n + 2
      BY <1>3, <2>1
    <3> HIDE DEF f
    <3>2. LET m == Cardinality(f.got)
          IN  IF m = Len(f.list) \/ f.ctx = "expired"
              THEN Return(x, f, Verdict(f)) /\ query' = query
              ELSE Locals(x, f) /\ Asks(x, f.list[m + 1], [Off EXCEPT !.pc = "udp"])
      BY <1>5 DEF NextInTurn, f
    <3> QED BY <3>1, <3>2
  <2>3. Verdict(f) \in Results /\ f.got \subseteq Addrs
    BY <1>2, <2>1, VerdictType
  <2>4. CASE /\ n + 1 = Len(f.list) \/ f.ctx = "expired"
             /\ Return(x, f, Verdict(f)) /\ query' = query
    <3> HIDE DEF f
    <3>1. OthersSame(x)
      BY <1>1, <2>4 DEF Return, Locals, OthersSame, Types
    <3>2. n + 1 = Len(f.list) => f.got = Range(f.list)
      BY <1>1, <1>3, <2>1, ListFacts
    <3> QED BY <1>1, <2>1, <2>3, <2>4, <3>1, <3>2, ConcludeStep
  <2>5. CASE /\ n + 1 # Len(f.list)
             /\ Locals(x, f) /\ Asks(x, f.list[n + 2], [Off EXCEPT !.pc = "udp"])
    <3> DEFINE v == c.list[n + 2]
               b == [Off EXCEPT !.pc = "udp"]
    <3>1. /\ n + 2 \in 1 .. Len(c.list) /\ \A i \in 1 .. n + 1 : i \in 1 .. Len(c.list) /\ i # n + 2
          /\ \A i, j \in 1 .. Len(c.list) : c.list[i] = c.list[j] => i = j
          /\ Range(c.list) = { c.list[i] : i \in 1 .. Len(c.list) } /\ Range(c.list) \subseteq Addrs
      <4>1. n + 1 # Len(c.list)
        BY <2>1, <2>5
      <4>2. Len(c.list) \in Nat
        BY <1>1, ListFacts
      <4>3. \A k, l \in Nat : k < l /\ k + 1 # l =>
              k + 2 \in 1 .. l /\ \A i \in 1 .. k + 1 : i \in 1 .. l /\ i # k + 2
        OBVIOUS
      <4>4. n + 2 \in 1 .. Len(c.list) /\ \A i \in 1 .. n + 1 : i \in 1 .. Len(c.list) /\ i # n + 2
        <5> HIDE DEF c, f
        <5> QED BY <1>3, <4>1, <4>2, <4>3
      <4> HIDE DEF c
      <4> QED BY <1>1, <4>4, ListFacts
    <3>2. v \in Addrs /\ v \notin g
      BY <1>3, <3>1
    <3> HIDE DEF v
    <3>3. query' = [query EXCEPT ![x][v] = b]
      BY <2>1, <2>5 DEF Asks, v
    <3>4. q[v].pc = "off" /\ b.pc = "udp"
      <4>1. b.pc = "udp"
        BY DEF Off
      <4> QED BY <1>3, <3>2, <4>1
    <3> HIDE DEF b
    <3>5. query'[x][v] = b /\ \A w \in Addrs : w # v => query'[x][w] = q[w]
      <4>1. query' = [query EXCEPT ![x] = [q EXCEPT ![v] = b]]
        BY <3>3
      <4>2. query'[x] = [q EXCEPT ![v] = b]
        BY <1>1, <4>1 DEF Types
      <4> HIDE DEF q
      <4> QED BY <1>1, <3>2, <4>2 DEF Asks0
    <3>6. SaidOf(query'[x]) = SaidOf(q)
      <4> HIDE DEF Kind, q
      <4> QED BY <3>4, <3>5 DEF SaidOf, Spoken
    <3>7. OthersSame(x)
      BY <1>1, <2>5, <3>3 DEF Locals, OthersSame, Types
    <3> QED BY <1>1, <1>5, <2>5, <3>6, <3>7, GoesOn
  <2> QED BY <2>2, <2>4, <2>5
<1> QED BY <1>4, <1>5

\* Configuring the pool touches no exchange under way.
LEMMA PanelRefines == ASSUME call' = call, query' = query PROVE UNCHANGED Promise!vars
<1>1. Asked' = Asked /\ Said' = Said /\ Late' = Late /\ Outcome' = Outcome
  BY DEF Asked, Said, Late, Outcome
<1> QED BY <1>1 DEF Promise!vars

\* An exchange, racing or in sequence, gives out what UpstreamPromise lets it: a usable
\* answer some resolver gave, or else, once all have spoken or the deadline has passed,
\* the verdict of one that declined, or else a failure; and it ends once: PromiseSpec.
THEOREM Refinement == Spec => PromiseSpec
<1>1. Init => Promise!Init
  <2> SUFFICES ASSUME Init PROVE Promise!Init
    OBVIOUS
  <2>1. \A x \in Calls : call[x].pc = "idle" /\ call[x].list = << >> /\ call[x].ctx = "live"
    BY DEF Init
  <2>2. \A x \in Calls, u \in Addrs : query[x][u].pc = "off"
    BY OffType DEF Init
  <2>3. Range(<< >>) = {}
    BY DEF Range
  <2>4. Asked = [x \in Calls |-> {}]
    <3> HIDE DEF Range
    <3> QED BY <2>1, <2>3 DEF Asked
  <2>5. Said = [x \in Calls |-> [u \in Addrs |-> "nothing"]]
    <3> HIDE DEF Kind
    <3> QED BY <2>2 DEF Said
  <2>6. Late = {} /\ Outcome = [x \in Calls |-> "none"]
    <3> HIDE DEF Kind
    <3> QED BY <2>1 DEF Late, Outcome
  <2> QED BY <2>4, <2>5, <2>6 DEF Promise!Init
<1>2. ASSUME IInv, [Next]_vars PROVE [Promise!Next]_Promise!vars
  <2>1. ASSUME NEW x \in Calls, Begin(x) \/ NoneConfigured(x) \/ Deadline(x) \/ CallerStep(x)
        PROVE  [Promise!Next]_Promise!vars
    <3>1. CASE Begin(x)
      BY <1>2, <3>1, BeginRefines DEF Promise!Next
    <3>2. CASE NoneConfigured(x)
      BY <1>2, <3>2, RefuseRefines DEF Promise!Next
    <3>3. CASE Deadline(x)
      BY <1>2, <3>3, ExpireRefines DEF Promise!Next
    <3>4. CASE CallerStep(x)
      BY <1>2, <3>4, CollectorRefines, TurnRefines DEF CallerStep, Promise!Next
    <3> QED BY <2>1, <3>1, <3>2, <3>3, <3>4
  <2>2. ASSUME NEW x \in Calls, NEW u \in Addrs, QueryStep(x, u)
        PROVE  [Promise!Next]_Promise!vars
    BY <1>2, <2>2, QueryRefines DEF Promise!Next
  <2>3. ASSUME NEW list \in Configs, SetUpstreams(list) PROVE UNCHANGED Promise!vars
    BY <2>3, PanelRefines DEF SetUpstreams
  <2>4. ASSUME UNCHANGED vars PROVE UNCHANGED Promise!vars
    BY <2>4, PanelRefines DEF vars
  <2> QED BY <1>2, <2>1, <2>2, <2>3, <2>4 DEF Next
<1> QED BY <1>1, <1>2, InvInit, InvStep, PTL DEF Spec, PromiseSpec, Promise!Spec
=============================================================================
