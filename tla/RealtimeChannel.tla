-------------------------- MODULE RealtimeChannel --------------------------
(***************************************************************************)
(* The live counters of a dashboard page. The page has one event stream    *)
(* that all its subscribers share: it opens with the first of them, on a   *)
(* single-use ticket, and closes with the last. The server ends each       *)
(* stream after a while and the page opens the next. The stream sends the  *)
(* count when it differs from what it sent last, and knows nothing of who  *)
(* subscribed meanwhile. A subscriber may also fetch the count by REST,    *)
(* and an answer on its way is not updated by the stream.                  *)
(*                                                                         *)
(* Delays decide when a timer fires and a stream ends: here at any time.   *)
(***************************************************************************)
EXTENDS Integers, Sequences

CONSTANTS
  Handlers,     \* subscribers on the page
  Streams,      \* names for EventSource objects: a closed one is free again
  NoStream,     \* source = null
  NoCount,      \* nothing shown, fetched or sent
  MaxCount,     \* bound on the count, which only grows here
  MaxFailures,  \* bound on failed requests and broken streams
  MaxSent       \* bound on the events on their way in a stream

ASSUME NoStreamOutside == NoStream \notin Streams
ASSUME NaturalBounds == MaxCount \in Nat /\ MaxFailures \in Nat

VARIABLES
  unread,       \* the server's count
  subscribers,  \* const subscribers
  source,       \* let source
  timer,        \* reconnectTimer is pending
  connecting,   \* let connecting
  asked,        \* ticket requests in flight
  open,         \* EventSource objects not closed
  running,      \* those with a generator running on the server
  last,         \* what each generator sent last
  channel,      \* events on their way to the page
  fetch,        \* the answer to each subscriber's REST request, if it is on its way
  shown,        \* what each subscriber shows: its query cache, which it leaves behind
  failures

server == <<unread, running, last>>
vars == <<unread, subscribers, source, timer, connecting, asked, open, running, last,
          channel, fetch, shown, failures>>

Counts == 0..MaxCount
End == MaxCount + 1

TypeOK ==
  /\ unread \in Counts /\ failures \in 0..MaxFailures
  /\ subscribers \subseteq Handlers
  /\ source \in Streams \union {NoStream}
  /\ timer \in BOOLEAN /\ connecting \in BOOLEAN /\ asked \in Nat
  /\ open \subseteq Streams /\ running \subseteq Streams
  /\ last \in [Streams -> Counts \union {NoCount}]
  /\ channel \in [Streams -> Seq(Counts \union {End})]
  /\ fetch \in [Handlers -> Counts \union {NoCount}]
  /\ shown \in [Handlers -> Counts \union {NoCount}]

Init ==
  /\ unread = 0 /\ failures = 0
  /\ subscribers = {}
  /\ source = NoStream /\ timer = FALSE /\ connecting = FALSE /\ asked = 0
  /\ open = {} /\ running = {}
  /\ last = [s \in Streams |-> NoCount]
  /\ channel = [s \in Streams |-> <<>>]
  /\ fetch = [h \in Handlers |-> NoCount]
  /\ shown = [h \in Handlers |-> NoCount]

-----------------------------------------------------------------------------
(* The page *)

\* Mutant of Connect: a second connect does not see the first.
ConnectTwice ==
  IF subscribers' # {} THEN connecting' = TRUE /\ asked' = asked + 1
  ELSE UNCHANGED <<connecting, asked>>

\* connect() up to its await.
Connect ==
  IF ~connecting /\ subscribers' # {} THEN connecting' = TRUE /\ asked' = asked + 1
  ELSE UNCHANGED <<connecting, asked>>

\* What goes with a stream that is closed: its events on their way and its generator.
ForgetSource ==
  /\ running' = running \ {source}
  /\ channel' = [s \in Streams |-> IF s = source THEN <<>> ELSE channel[s]]
  /\ last' = [s \in Streams |-> IF s = source THEN NoCount ELSE last[s]]

\* source?.close()
CloseSource == open' = open \ {source} /\ ForgetSource

UNCHANGED_STREAMS == UNCHANGED <<open, running, channel, last>>

\* subscribeRealtime: the first subscriber connects.
Subscribe(h) ==
  /\ h \notin subscribers
  /\ subscribers' = subscribers \union {h}
  /\ IF subscribers = {} THEN Connect ELSE UNCHANGED <<connecting, asked>>
  /\ UNCHANGED_STREAMS
  /\ UNCHANGED <<unread, source, timer, fetch, shown, failures>>

\* The last subscriber to leave tears down. A ticket request in flight goes on.
Unsubscribe(h) ==
  /\ h \in subscribers
  /\ subscribers' = subscribers \ {h}
  /\ IF subscribers' = {} THEN CloseSource /\ source' = NoStream /\ timer' = FALSE
     ELSE UNCHANGED_STREAMS /\ UNCHANGED <<source, timer>>
  /\ UNCHANGED <<unread, connecting, asked, fetch, shown, failures>>

TimerFires ==
  /\ timer /\ timer' = FALSE
  /\ UNCHANGED subscribers
  /\ Connect
  /\ UNCHANGED_STREAMS
  /\ UNCHANGED <<unread, source, fetch, shown, failures>>

\* Mutant of TicketGranted: whether anyone is left is not asked again after the await.
TicketGrantedAnyway ==
  /\ asked > 0 /\ asked' = asked - 1
  /\ connecting' = FALSE
  /\ \E s \in Streams \ open :
       /\ open' = (open \ {source}) \union {s}
       /\ source' = s
  /\ ForgetSource
  /\ UNCHANGED <<unread, subscribers, timer, fetch, shown, failures>>

\* The ticket arrives: open a stream in place of the current one, if anyone subscribes still.
TicketGranted ==
  /\ asked > 0 /\ asked' = asked - 1
  /\ connecting' = FALSE
  /\ IF subscribers = {} THEN UNCHANGED_STREAMS /\ UNCHANGED source
     ELSE /\ \E s \in Streams \ open :
               /\ open' = (open \ {source}) \union {s}
               /\ source' = s
          /\ ForgetSource
  /\ UNCHANGED <<unread, subscribers, timer, fetch, shown, failures>>

\* scheduleReconnect
ScheduleReconnect == IF subscribers = {} THEN UNCHANGED timer ELSE timer' = TRUE

\* Mutant of TicketFails: connecting is not reset.
TicketFailsStuck ==
  /\ asked > 0 /\ asked' = asked - 1
  /\ failures < MaxFailures /\ failures' = failures + 1
  /\ ScheduleReconnect
  /\ UNCHANGED_STREAMS
  /\ UNCHANGED <<unread, subscribers, source, connecting, fetch, shown>>

TicketFails ==
  /\ asked > 0 /\ asked' = asked - 1
  /\ failures < MaxFailures /\ failures' = failures + 1
  /\ connecting' = FALSE
  /\ ScheduleReconnect
  /\ UNCHANGED_STREAMS
  /\ UNCHANGED <<unread, subscribers, source, fetch, shown>>

\* The handlers of a stream close what source names by then.
Reconnect ==
  /\ CloseSource
  /\ source' = NoStream
  /\ ScheduleReconnect

\* onerror: the stream was refused or broke.
StreamFails(s) ==
  /\ s \in open
  /\ failures < MaxFailures /\ failures' = failures + 1
  /\ Reconnect
  /\ UNCHANGED <<unread, subscribers, connecting, asked, fetch, shown>>

\* Mutant of Notified: an end event is dispatched as a count.
NotifiedOfEnd(s) ==
  /\ s \in open /\ channel[s] # <<>>
  /\ shown' = [h \in Handlers |-> IF h \in subscribers THEN Head(channel[s]) ELSE shown[h]]
  /\ channel' = [channel EXCEPT ![s] = Tail(@)]
  /\ UNCHANGED <<unread, subscribers, source, timer, connecting, asked, open, running, last,
                 fetch, failures>>

\* The count is dispatched to all subscribers.
Notified(s) ==
  /\ s \in open /\ channel[s] # <<>> /\ Head(channel[s]) # End
  /\ shown' = [h \in Handlers |-> IF h \in subscribers THEN Head(channel[s]) ELSE shown[h]]
  /\ channel' = [channel EXCEPT ![s] = Tail(@)]
  /\ UNCHANGED <<unread, subscribers, source, timer, connecting, asked, open, running, last,
                 fetch, failures>>

\* The "end" event.
Ended(s) ==
  /\ s \in open /\ channel[s] # <<>> /\ Head(channel[s]) = End
  /\ Reconnect
  /\ UNCHANGED <<unread, subscribers, connecting, asked, fetch, shown, failures>>

-----------------------------------------------------------------------------
(* REST and the server *)

\* The server answers a REST request of a subscriber: the answer is on its way.
Fetch(h) ==
  /\ h \in subscribers /\ fetch[h] = NoCount
  /\ fetch' = [fetch EXCEPT ![h] = unread]
  /\ UNCHANGED <<unread, subscribers, source, timer, connecting, asked, open, running, last,
                 channel, shown, failures>>

\* It arrives, and is shown whatever the stream has shown since.
Fetched(h) ==
  /\ fetch[h] # NoCount
  /\ shown' = [shown EXCEPT ![h] = fetch[h]]
  /\ fetch' = [fetch EXCEPT ![h] = NoCount]
  /\ UNCHANGED <<unread, subscribers, source, timer, connecting, asked, open, running, last,
                 channel, failures>>

\* A notification is created.
Changes ==
  /\ unread < MaxCount
  /\ unread' = unread + 1
  /\ UNCHANGED <<subscribers, source, timer, connecting, asked, open, running, last, channel,
                 fetch, shown, failures>>

\* realtime_stream consumes the ticket and starts the generator.
Accept(s) ==
  /\ s \in open \ running /\ last[s] = NoCount /\ channel[s] = <<>>
  /\ running' = running \union {s}
  /\ UNCHANGED <<unread, subscribers, source, timer, connecting, asked, open, last, channel,
                 fetch, shown, failures>>

\* What one turn of the generator sends: the count unless it was sent last.
News(s) == IF last[s] = unread THEN <<>> ELSE <<unread>>

Poll(s) ==
  /\ s \in running /\ Len(channel[s]) < MaxSent
  /\ News(s) # <<>>
  /\ channel' = [channel EXCEPT ![s] = @ \o News(s)]
  /\ last' = [last EXCEPT ![s] = unread]
  /\ UNCHANGED <<unread, subscribers, source, timer, connecting, asked, open, running, fetch,
                 shown, failures>>

\* Mutant of LastPoll: a stream goes on for as long as the page does.
LastPollEndless(s) == Poll(s)

\* The turn after the deadline.
LastPoll(s) ==
  /\ s \in running /\ Len(channel[s]) < MaxSent
  /\ channel' = [channel EXCEPT ![s] = @ \o News(s) \o <<End>>]
  /\ last' = [last EXCEPT ![s] = unread]
  /\ running' = running \ {s}
  /\ UNCHANGED <<unread, subscribers, source, timer, connecting, asked, open, fetch, shown,
                 failures>>

-----------------------------------------------------------------------------
Next ==
  \/ \E h \in Handlers : Subscribe(h) \/ Unsubscribe(h) \/ Fetch(h) \/ Fetched(h)
  \/ \E s \in Streams :
       StreamFails(s) \/ Notified(s) \/ Ended(s) \/ Accept(s) \/ Poll(s) \/ LastPoll(s)
  \/ TimerFires \/ TicketGranted \/ TicketFails \/ Changes

\* Timers fire, requests are answered, streams are polled, delivered in the end, and end.
\* Nobody has to subscribe, leave or be notified, and nothing has to fail.
Fairness ==
  /\ WF_vars(TimerFires) /\ WF_vars(TicketGranted)
  /\ \A s \in Streams :
       /\ WF_vars(Accept(s)) /\ WF_vars(LastPoll(s))
       /\ WF_vars(Notified(s)) /\ WF_vars(Ended(s))
  /\ \A h \in Handlers : WF_vars(Fetched(h))

Spec == Init /\ [][Next]_vars /\ Fairness

-----------------------------------------------------------------------------
(* Properties *)

\* "The connection opens with the first subscriber and closes with the last": without
\* subscribers no stream is open and no timer runs, also when the last one leaves while a
\* ticket is on its way.
ClosedWithoutSubscribers == subscribers = {} => open = {} /\ ~timer

\* "Single shared SSE connection": one stream or one attempt to open one, also when
\* subscribers leave and return while a ticket or a timer is pending.
SingleConnection ==
  /\ open \subseteq {source} /\ asked <= 1
  /\ ~(timer /\ source # NoStream)

\* Whoever subscribes is connected, or a request or a timer is pending that reconnects: neither
\* an end or an error at any stage of connect, nor a subscriber who leaves and returns in the
\* middle of it, leaves the page with nothing pending.
StaysConnected == subscribers # {} => source \in open \/ timer \/ asked > 0

\* Someone who stays on the page comes to show the server's count once that is stable: no
\* stale REST answer, missed event, end of a stream or error leaves the page behind for good.
ShowsCountInTheEnd ==
  \A h \in Handlers : <>[](h \in subscribers) => <>[](shown[h] = unread)
=============================================================================
