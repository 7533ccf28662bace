------------------------------ MODULE DashStream ------------------------------
(***************************************************************************)
(* The live log, from the resolver's query to the row on the Logs page:    *)
(* the daemon numbers a query, stores it in a ring and offers it to the    *)
(* stream (service/stats_service.go); the dashboard (web/js/app.js) keeps  *)
(* what arrives in a buffer on every page and paints the table only where  *)
(* somebody looks.  Tab, visibility, pause, filter and clear interleave    *)
(* with arrivals and reconnections.                                        *)
(***************************************************************************)
EXTENDS Naturals, FiniteSets, Sequences

CONSTANTS
    Ring,           \* the daemon's ring of recent queries
    Channel,        \* frames a stream's channel holds
    StreamBufferMax,    \* STREAM_BUFFER_MAX
    Handlers,       \* queries the daemon handles at once
    MaxLogged, MaxMoves \* bounds: queries; what the operator and the browser do

ASSUME StreamAssumption ==
    /\ {Ring, Channel, StreamBufferMax, Handlers} \subseteq Nat \ {0}
    /\ {MaxLogged, MaxMoves} \subseteq Nat

VARIABLES
    logged,         \* logCounter
    handling,       \* queries between their number and the broadcast: [id, stored]
    recentLogs,     \* the ring
    stream,         \* the connection: down, subscribed, or past its history
    channel,        \* the stream's channel
    wire,           \* what is on its way to the browser
    streamBuffer,   \* newest on top
    table,          \* #stream-tbody: a placeholder, or the rows
    narrow,         \* the filter or the search box is set
    isStreamPaused, visible, activeDashTab,
    streamPendingRender,
    moves,          \* counter behind the bound
    unpainted       \* ghost: a query went into the buffer and no paint was asked for

logVars == <<logged, handling, recentLogs, stream, channel, wire, streamBuffer, table, narrow,
                isStreamPaused, visible, activeDashTab, streamPendingRender, moves, unpainted>>
ringVars == <<logged, handling, recentLogs>>
connVars == <<stream, channel, wire>>
viewVars == <<table, unpainted>>
controlVars == <<narrow, isStreamPaused, visible, activeDashTab>>

Ids == 1 .. MaxLogged
Listening == <<0>>      \* the two placeholder rows; no query has these numbers
NoMatch == <<MaxLogged + 1>>

StreamTypeOK ==
    /\ logged \in 0 .. MaxLogged /\ handling \subseteq [id : Ids, stored : BOOLEAN]
    /\ recentLogs \in Seq(Ids) /\ Len(recentLogs) <= Ring
    /\ stream \in {"down", "subscribed", "streaming"}
    /\ channel \in Seq(Ids) /\ Len(channel) <= Channel
    /\ \A i \in DOMAIN wire : wire[i] \in [kind : {"history", "query"}, list : Seq(Ids)]
    /\ streamBuffer \in Seq(Ids) /\ Len(streamBuffer) <= StreamBufferMax
    /\ table \in Seq(Ids) \cup {Listening, NoMatch} /\ narrow \in BOOLEAN
    /\ isStreamPaused \in BOOLEAN /\ visible \in BOOLEAN /\ streamPendingRender \in BOOLEAN
    /\ activeDashTab \in {"stream", "dashboard"} /\ moves \in 0 .. MaxMoves /\ unpainted \in BOOLEAN

StreamInit ==
    /\ logged = 0 /\ handling = {} /\ recentLogs = <<>>
    /\ stream = "down" /\ channel = <<>> /\ wire = <<>>
    /\ streamBuffer = <<>> /\ table = Listening /\ narrow = FALSE
    /\ isStreamPaused = FALSE /\ visible = TRUE /\ activeDashTab = "dashboard"
    /\ streamPendingRender = FALSE /\ moves = 0 /\ unpainted = FALSE

-----------------------------------------------------------------------------
(* The daemon.                                                             *)

\* A query draws its number before the ring is locked.
DrawNumber ==
    /\ logged < MaxLogged /\ Cardinality(handling) < Handlers
    /\ logged' = logged + 1 /\ handling' = handling \cup {[id |-> logged', stored |-> FALSE]}
    /\ UNCHANGED <<recentLogs, connVars, streamBuffer, viewVars, controlVars, streamPendingRender, moves>>

\* The oldest leaves the ring, the newest goes to its end.
StoreLog(h) ==
    /\ h \in handling /\ ~h.stored
    /\ handling' = (handling \ {h}) \cup {[h EXCEPT !.stored = TRUE]}
    /\ recentLogs' = Append(IF Len(recentLogs) >= Ring THEN Tail(recentLogs) ELSE recentLogs, h.id)
    /\ UNCHANGED <<logged, connVars, streamBuffer, viewVars, controlVars, streamPendingRender, moves>>

\* Nobody waits for a stream: a frame its channel has no room for is dropped.
Broadcast(h) ==
    /\ h \in handling /\ h.stored /\ handling' = handling \ {h}
    /\ channel' = IF stream # "down" /\ Len(channel) < Channel THEN Append(channel, h.id) ELSE channel
    /\ UNCHANGED <<logged, recentLogs, stream, wire, streamBuffer, viewVars, controlVars,
                   streamPendingRender, moves>>

\* ServeSSE subscribes first and sends the history, GetRecentLogs, afterwards.
Subscribe ==
    /\ stream = "down" /\ stream' = "subscribed"
    /\ UNCHANGED <<ringVars, channel, wire, streamBuffer, viewVars, controlVars, streamPendingRender, moves>>

GetRecentLogs == recentLogs
SendHistory ==
    /\ stream = "subscribed" /\ stream' = "streaming"
    /\ wire' = Append(wire, [kind |-> "history", list |-> GetRecentLogs])
    /\ UNCHANGED <<ringVars, channel, streamBuffer, viewVars, controlVars, streamPendingRender, moves>>

SendFrame ==
    /\ stream = "streaming" /\ channel # <<>> /\ channel' = Tail(channel)
    /\ wire' = Append(wire, [kind |-> "query", list |-> <<Head(channel)>>])
    /\ UNCHANGED <<ringVars, stream, streamBuffer, viewVars, controlVars, streamPendingRender, moves>>

Move == moves < MaxMoves /\ moves' = moves + 1

\* The connection breaks, with what was on it; EventSource comes back by itself.
Disconnect ==
    /\ Move /\ stream # "down" /\ stream' = "down" /\ channel' = <<>> /\ wire' = <<>>
    /\ UNCHANGED <<ringVars, streamBuffer, viewVars, controlVars, streamPendingRender>>

-----------------------------------------------------------------------------
(* The table.                                                              *)

\* The narrowed view keeps every second query.
QueryMatches(q, f) == f => q % 2 = 0
RenderOf(b, f) ==
    IF b = <<>> THEN Listening
    ELSE LET rows == SelectSeq(b, LAMBDA q : QueryMatches(q, f)) IN
         IF rows = <<>> THEN NoMatch ELSE rows
RenderQueryStream(b, f) == table' = RenderOf(b, f) /\ unpainted' = FALSE

Capped(b) == SubSeq(b, 1, IF Len(b) < StreamBufferMax THEN Len(b) ELSE StreamBufferMax)
InView == visible /\ activeDashTab = "stream" /\ ~isStreamPaused

\* seedStreamQueries: a history replaces the buffer and is painted wherever one is.
SeedStreamQueries ==
    /\ wire # <<>> /\ Head(wire).kind = "history" /\ wire' = Tail(wire)
    /\ streamBuffer' = Capped(Head(wire).list)
    /\ RenderQueryStream(streamBuffer', narrow)
    /\ UNCHANGED <<ringVars, stream, channel, controlVars, streamPendingRender, moves>>

\* pushStreamQuery: a paused stream drops the query; otherwise it is buffered, and a
\* frame is asked for where somebody looks and none is pending.
PushStreamQuery ==
    /\ wire # <<>> /\ Head(wire).kind = "query" /\ wire' = Tail(wire)
    /\ IF isStreamPaused THEN UNCHANGED <<streamBuffer, streamPendingRender, unpainted>>
       ELSE /\ streamBuffer' = Capped(Head(wire).list \o streamBuffer)
            /\ streamPendingRender' = (streamPendingRender \/ InView)
            /\ unpainted' = (unpainted \/ ~InView)
    /\ UNCHANGED <<ringVars, stream, channel, table, controlVars, moves>>

\* The frame looks again before it paints.
AnimationFrame ==
    /\ streamPendingRender /\ streamPendingRender' = FALSE
    /\ IF InView THEN RenderQueryStream(streamBuffer, narrow)
       ELSE unpainted' = TRUE /\ UNCHANGED table
    /\ UNCHANGED <<ringVars, connVars, streamBuffer, controlVars, moves>>

-----------------------------------------------------------------------------
(* The controls, which are on the Logs page.                               *)

\* A variant that applies the filter to the rows that arrive later.
SetFilterQuietly ==
    /\ Move /\ activeDashTab = "stream" /\ narrow' = ~narrow
    /\ UNCHANGED <<ringVars, connVars, streamBuffer, viewVars, isStreamPaused, visible, activeDashTab, streamPendingRender>>

SetFilter ==
    /\ Move /\ activeDashTab = "stream" /\ narrow' = ~narrow
    /\ RenderQueryStream(streamBuffer, narrow')
    /\ UNCHANGED <<ringVars, connVars, streamBuffer, isStreamPaused, visible, activeDashTab, streamPendingRender>>

\* The button of the no-match row.
ShowAllQueries ==
    /\ activeDashTab = "stream" /\ table = NoMatch /\ narrow' = FALSE
    /\ RenderQueryStream(streamBuffer, FALSE)
    /\ UNCHANGED <<ringVars, connVars, streamBuffer, isStreamPaused, visible, activeDashTab,
                   streamPendingRender, moves>>

\* Resuming paints nothing.
TogglePause ==
    /\ Move /\ activeDashTab = "stream" /\ isStreamPaused' = ~isStreamPaused
    /\ UNCHANGED <<ringVars, connVars, streamBuffer, viewVars, narrow, visible, activeDashTab, streamPendingRender>>

ClearStream ==
    /\ Move /\ activeDashTab = "stream" /\ streamBuffer' = <<>>
    /\ RenderQueryStream(<<>>, narrow)
    /\ UNCHANGED <<ringVars, connVars, controlVars, streamPendingRender>>

\* Coming back to the Logs page paints the buffer.
SwitchTab(tab) ==
    /\ Move /\ activeDashTab # tab /\ activeDashTab' = tab
    /\ IF tab = "stream" THEN RenderQueryStream(streamBuffer, narrow) ELSE UNCHANGED viewVars
    /\ UNCHANGED <<ringVars, connVars, streamBuffer, narrow, isStreamPaused, visible, streamPendingRender>>

HideOrShow ==
    /\ Move /\ visible' = ~visible
    /\ UNCHANGED <<ringVars, connVars, streamBuffer, viewVars, narrow, isStreamPaused, activeDashTab,
                   streamPendingRender>>

StreamNext ==
    \/ DrawNumber
    \/ \E h \in handling : StoreLog(h) \/ Broadcast(h)
    \/ Subscribe
    \/ SendHistory
    \/ SendFrame
    \/ Disconnect
    \/ SeedStreamQueries
    \/ PushStreamQuery
    \/ AnimationFrame
    \/ SetFilter
    \/ ShowAllQueries
    \/ TogglePause
    \/ ClearStream
    \/ \E tab \in {"stream", "dashboard"} : SwitchTab(tab)
    \/ HideOrShow

StreamSpec == StreamInit /\ [][StreamNext]_logVars

-----------------------------------------------------------------------------
(* What the table shows.                                                   *)

\* A control that only applies to rows that arrive later reads as broken: unless a
\* frame is pending or an arrival was left unpainted, the table is exactly the
\* buffer seen through the filter, or the placeholder that says why there is none.
TableAgrees == ~streamPendingRender /\ ~unpainted => table = RenderOf(streamBuffer, narrow)

=============================================================================
