----------------------- MODULE RealtimeChannelProofs -----------------------
(***************************************************************************)
(* The event stream of a page, for any number of subscribers, streams,     *)
(* failures and counts. connect() is a chain of callbacks over four        *)
(* variables of a module; the invariant says in which combinations they    *)
(* can be: a stream, a pending timer and a ticket request exclude each     *)
(* other, and a page without subscribers has at most the request.          *)
(***************************************************************************)
EXTENDS RealtimeChannel, TLAPS

Counters ==
  /\ unread \in Counts /\ failures \in 0..MaxFailures
  /\ last \in [Streams -> Counts \union {NoCount}]
  /\ channel \in [Streams -> Seq(Counts \union {End})]
  /\ fetch \in [Handlers -> Counts \union {NoCount}]
  /\ shown \in [Handlers -> Counts \union {NoCount}]

Page ==
  /\ subscribers \subseteq Handlers /\ running \subseteq Streams
  /\ source \in Streams \union {NoStream}
  /\ timer \in BOOLEAN /\ connecting \in BOOLEAN

Requests == asked = IF connecting THEN 1 ELSE 0

Opened == open = {source} \ {NoStream}

Apart ==
  /\ source # NoStream => ~timer /\ ~connecting
  /\ timer => ~connecting
  /\ subscribers = {} => source = NoStream /\ ~timer
  /\ subscribers # {} => source # NoStream \/ timer \/ connecting

Inv == Counters /\ Page /\ Requests /\ Opened /\ Apart

-----------------------------------------------------------------------------
\* Closing a stream forgets what it sent; no other data changes.
LEMMA CloseKeepsCounters ==
  ASSUME Inv, ForgetSource
  PROVE  /\ last' \in [Streams -> Counts \union {NoCount}]
         /\ channel' \in [Streams -> Seq(Counts \union {End})]
<1>1. last' \in [Streams -> Counts \union {NoCount}]
  BY DEF Inv, Counters, ForgetSource
<1>2. channel' = [s \in Streams |-> IF s = source THEN <<>> ELSE channel[s]]
  BY DEF ForgetSource
<1>3. <<>> \in Seq(Counts \union {End})
  OBVIOUS
<1>4. channel \in [Streams -> Seq(Counts \union {End})]
  BY DEF Inv, Counters
<1>5. channel' \in [Streams -> Seq(Counts \union {End})]
  BY <1>2, <1>3, <1>4
<1> QED BY <1>1, <1>5

\* A step leaves counts counts and sends counts and ends only.
LEMMA CountersStep == ASSUME Inv, [Next]_vars PROVE Counters'
<1> USE DEF UNCHANGED_STREAMS
<1>0. CASE UNCHANGED vars
  BY <1>0 DEF Inv, Counters, vars, Counts, End
<1>1. ASSUME NEW h \in Handlers, Subscribe(h) PROVE Counters'
  BY <1>1 DEF Inv, Counters, Subscribe, Counts, End
<1>2. ASSUME NEW h \in Handlers, Unsubscribe(h) PROVE Counters'
  BY <1>2, CloseKeepsCounters DEF Inv, Counters, Unsubscribe, CloseSource, Counts, End
<1>3. ASSUME NEW h \in Handlers, Fetch(h) \/ Fetched(h) PROVE Counters'
  BY <1>3 DEF Inv, Counters, Fetch, Fetched, Counts, End
<1>4. ASSUME NEW s \in Streams, StreamFails(s) \/ Ended(s) PROVE Counters'
  BY <1>4, CloseKeepsCounters, NaturalBounds
     DEF Inv, Counters, StreamFails, Ended, Reconnect, CloseSource, Counts, End
<1>5. ASSUME NEW s \in Streams, Accept(s) PROVE Counters'
  BY <1>5 DEF Inv, Counters, Accept, Counts, End
<1>6. ASSUME NEW s \in Streams, Notified(s) PROVE Counters'
  <2>1. channel[s] \in Seq(Counts \union {End}) /\ channel[s] # <<>>
    BY <1>6 DEF Inv, Counters, Notified
  <2>2. Head(channel[s]) \in Counts \union {End} /\ Tail(channel[s]) \in Seq(Counts \union {End})
    BY <2>1
  <2>3. Head(channel[s]) \in Counts
    BY <2>2, <1>6 DEF Notified
  <2>4. channel' \in [Streams -> Seq(Counts \union {End})]
    BY <1>6, <2>2 DEF Inv, Counters, Notified
  <2>5. shown' \in [Handlers -> Counts \union {NoCount}]
    BY <1>6, <2>3 DEF Inv, Counters, Notified
  <2> QED BY <1>6, <2>4, <2>5 DEF Inv, Counters, Notified, Counts, End
<1>7. ASSUME NEW s \in Streams, Poll(s) \/ LastPoll(s) PROVE Counters'
  <2>1. /\ channel[s] \in Seq(Counts \union {End})
        /\ News(s) \in Seq(Counts \union {End}) /\ <<End>> \in Seq(Counts \union {End})
    <3>1. unread \in Counts \union {End} /\ channel[s] \in Seq(Counts \union {End})
      BY DEF Inv, Counters
    <3>2. /\ <<>> \in Seq(Counts \union {End}) /\ <<unread>> \in Seq(Counts \union {End})
          /\ <<End>> \in Seq(Counts \union {End})
      BY <3>1
    <3>3. News(s) = <<>> \/ News(s) = <<unread>>
      BY DEF News
    <3> QED BY <3>1, <3>2, <3>3
  <2>2. /\ channel[s] \o News(s) \in Seq(Counts \union {End})
        /\ channel[s] \o News(s) \o <<End>> \in Seq(Counts \union {End})
    BY <2>1
  <2>3. channel' \in [Streams -> Seq(Counts \union {End})]
    BY <1>7, <2>2 DEF Inv, Counters, Poll, LastPoll
  <2> QED BY <1>7, <2>1, <2>3 DEF Inv, Counters, Poll, LastPoll, Counts, End
<1>8. CASE TimerFires \/ TicketFails
  BY <1>8, NaturalBounds DEF Inv, Counters, TimerFires, TicketFails, Counts, End
<1>9. CASE TicketGranted
  <2>1. CASE subscribers = {}
    BY <1>9, <2>1 DEF Inv, Counters, TicketGranted, Counts, End
  <2>2. CASE subscribers # {}
    BY <1>9, <2>2, CloseKeepsCounters DEF Inv, Counters, TicketGranted, Counts, End
  <2> QED BY <2>1, <2>2
<1>10. CASE Changes
  BY <1>10, NaturalBounds DEF Inv, Counters, Changes, Counts, End
<1> QED BY <1>0, <1>1, <1>2, <1>3, <1>4, <1>5, <1>6, <1>7, <1>8, <1>9, <1>10 DEF Next

\* A step keeps the types of the variables of realtime.ts.
LEMMA PageStep == ASSUME Inv, [Next]_vars PROVE Page'
<1> USE NoStreamOutside DEF UNCHANGED_STREAMS, Inv
<1>0. CASE UNCHANGED vars
  BY <1>0 DEF Page, vars
<1>1. ASSUME NEW h \in Handlers, Subscribe(h) PROVE Page'
  BY <1>1 DEF Page, Subscribe, Connect
<1>2. ASSUME NEW h \in Handlers, Unsubscribe(h) PROVE Page'
  BY <1>2 DEF Page, Unsubscribe, CloseSource, ForgetSource
<1>3. ASSUME NEW s \in Streams, StreamFails(s) \/ Ended(s) PROVE Page'
  BY <1>3 DEF Page, StreamFails, Ended, Reconnect, ScheduleReconnect, CloseSource, ForgetSource
<1>4. CASE TimerFires
  BY <1>4 DEF Page, TimerFires, Connect
<1>5. CASE TicketGranted
  BY <1>5 DEF Page, TicketGranted, ForgetSource
<1>6. CASE TicketFails
  BY <1>6 DEF Page, TicketFails, ScheduleReconnect
<1>7. ASSUME NEW s \in Streams, Accept(s) \/ Poll(s) \/ LastPoll(s) \/ Notified(s) PROVE Page'
  BY <1>7 DEF Page, Accept, Poll, LastPoll, Notified
<1>8. CASE Changes \/ \E h \in Handlers : Fetch(h) \/ Fetched(h)
  BY <1>8 DEF Page, Changes, Fetch, Fetched
<1> QED BY <1>0, <1>1, <1>2, <1>3, <1>4, <1>5, <1>6, <1>7, <1>8 DEF Next

\* `connecting` says whether a ticket request is in flight.
LEMMA RequestsStep == ASSUME Inv, [Next]_vars PROVE Requests'
<1> USE NoStreamOutside DEF UNCHANGED_STREAMS, Inv
<1>0. CASE UNCHANGED vars
  BY <1>0 DEF Page, Requests, Apart, vars
<1>1. ASSUME NEW h \in Handlers, Subscribe(h) PROVE Requests'
  BY <1>1 DEF Page, Requests, Apart, Subscribe, Connect
<1>2. ASSUME NEW h \in Handlers, Unsubscribe(h) PROVE Requests'
  BY <1>2 DEF Page, Requests, Apart, Unsubscribe, CloseSource, ForgetSource
<1>3. ASSUME NEW s \in Streams, StreamFails(s) \/ Ended(s) PROVE Requests'
  BY <1>3 DEF Page, Requests, Apart, StreamFails, Ended, Reconnect, ScheduleReconnect, CloseSource, ForgetSource
<1>4. CASE TimerFires
  BY <1>4 DEF Page, Requests, Apart, TimerFires, Connect
<1>5. CASE TicketGranted
  BY <1>5 DEF Page, Requests, Apart, TicketGranted, ForgetSource
<1>6. CASE TicketFails
  BY <1>6 DEF Page, Requests, Apart, TicketFails, ScheduleReconnect
<1>7. ASSUME NEW s \in Streams, Accept(s) \/ Poll(s) \/ LastPoll(s) \/ Notified(s) PROVE Requests'
  BY <1>7 DEF Page, Requests, Apart, Accept, Poll, LastPoll, Notified
<1>8. CASE Changes \/ \E h \in Handlers : Fetch(h) \/ Fetched(h)
  BY <1>8 DEF Page, Requests, Apart, Changes, Fetch, Fetched
<1> QED BY <1>0, <1>1, <1>2, <1>3, <1>4, <1>5, <1>6, <1>7, <1>8 DEF Next

\* No stream is open but the one `source` names.
LEMMA OpenedStep == ASSUME Inv, [Next]_vars PROVE Opened'
<1> USE NoStreamOutside DEF UNCHANGED_STREAMS, Inv
<1>0. CASE UNCHANGED vars
  BY <1>0 DEF Page, Opened, vars
<1>1. ASSUME NEW h \in Handlers, Subscribe(h) PROVE Opened'
  BY <1>1 DEF Page, Opened, Subscribe, Connect
<1>2. ASSUME NEW h \in Handlers, Unsubscribe(h) PROVE Opened'
  BY <1>2 DEF Page, Opened, Unsubscribe, CloseSource, ForgetSource
<1>3. ASSUME NEW s \in Streams, StreamFails(s) \/ Ended(s) PROVE Opened'
  BY <1>3 DEF Page, Opened, StreamFails, Ended, Reconnect, ScheduleReconnect, CloseSource, ForgetSource
<1>4. CASE TimerFires
  BY <1>4 DEF Page, Opened, TimerFires, Connect
<1>5. CASE TicketGranted
  BY <1>5 DEF Page, Opened, TicketGranted, ForgetSource
<1>6. CASE TicketFails
  BY <1>6 DEF Page, Opened, TicketFails, ScheduleReconnect
<1>7. ASSUME NEW s \in Streams, Accept(s) \/ Poll(s) \/ LastPoll(s) \/ Notified(s) PROVE Opened'
  BY <1>7 DEF Page, Opened, Accept, Poll, LastPoll, Notified
<1>8. CASE Changes \/ \E h \in Handlers : Fetch(h) \/ Fetched(h)
  BY <1>8 DEF Page, Opened, Changes, Fetch, Fetched
<1> QED BY <1>0, <1>1, <1>2, <1>3, <1>4, <1>5, <1>6, <1>7, <1>8 DEF Next

\* A step keeps stream, timer and request apart, and one of them while someone subscribes.
LEMMA ApartStep == ASSUME Inv, [Next]_vars PROVE Apart'
<1> USE NoStreamOutside DEF UNCHANGED_STREAMS, Inv
<1>0. CASE UNCHANGED vars
  BY <1>0 DEF Page, Requests, Opened, Apart, vars
<1>1. ASSUME NEW h \in Handlers, Subscribe(h) PROVE Apart'
  BY <1>1 DEF Page, Requests, Opened, Apart, Subscribe, Connect
<1>2. ASSUME NEW h \in Handlers, Unsubscribe(h) PROVE Apart'
  BY <1>2 DEF Page, Requests, Opened, Apart, Unsubscribe, CloseSource, ForgetSource
<1>3. ASSUME NEW s \in Streams, StreamFails(s) \/ Ended(s) PROVE Apart'
  BY <1>3 DEF Page, Requests, Opened, Apart, StreamFails, Ended, Reconnect, ScheduleReconnect, CloseSource, ForgetSource
<1>4. CASE TimerFires
  BY <1>4 DEF Page, Requests, Opened, Apart, TimerFires, Connect
<1>5. CASE TicketGranted
  BY <1>5 DEF Page, Requests, Opened, Apart, TicketGranted, ForgetSource
<1>6. CASE TicketFails
  BY <1>6 DEF Page, Requests, Opened, Apart, TicketFails, ScheduleReconnect
<1>7. ASSUME NEW s \in Streams, Accept(s) \/ Poll(s) \/ LastPoll(s) \/ Notified(s) PROVE Apart'
  BY <1>7 DEF Page, Requests, Opened, Apart, Accept, Poll, LastPoll, Notified
<1>8. CASE Changes \/ \E h \in Handlers : Fetch(h) \/ Fetched(h)
  BY <1>8 DEF Page, Requests, Opened, Apart, Changes, Fetch, Fetched
<1> QED BY <1>0, <1>1, <1>2, <1>3, <1>4, <1>5, <1>6, <1>7, <1>8 DEF Next

\* The inductive invariant of the page and its stream.
THEOREM ChannelInvariant == Spec => []Inv
<1>1. Init => Counters
  BY NaturalBounds DEF Init, Counters, Counts
<1>2. Init => Page /\ Requests /\ Opened /\ Apart
  BY DEF Init, Page, Requests, Opened, Apart
<1>3. Inv /\ [Next]_vars => Inv'
  BY CountersStep, PageStep, RequestsStep, OpenedStep, ApartStep DEF Inv
<1> QED BY <1>1, <1>2, <1>3, PTL DEF Spec, Inv

\* realtime.ts and _stream_body keep their types.
THEOREM ChannelTypes == Spec => []TypeOK
<1>1. Inv => TypeOK
  BY NoStreamOutside DEF Inv, Counters, Page, Requests, Opened, TypeOK
<1> QED BY <1>1, ChannelInvariant, PTL

\* subscribeRealtime: with the last subscriber the stream and the timer go, for good.
THEOREM NothingRunsUnwatched == Spec => []ClosedWithoutSubscribers
<1>1. Inv => ClosedWithoutSubscribers
  BY DEF Inv, Page, Requests, Opened, Apart, ClosedWithoutSubscribers
<1> QED BY <1>1, ChannelInvariant, PTL

\* connect: `connecting` and teardown together keep the connection single.
THEOREM ConnectionSingle == Spec => []SingleConnection
<1>1. Inv => SingleConnection
  BY DEF Inv, Page, Requests, Opened, Apart, SingleConnection
<1> QED BY <1>1, ChannelInvariant, PTL

\* connect: every way out of it, and out of a stream, leaves something pending for whoever
\* subscribes then.
THEOREM NeverStranded == Spec => []StaysConnected
<1>1. Inv => StaysConnected
  BY NoStreamOutside DEF Inv, Page, Requests, Opened, Apart, StaysConnected
<1> QED BY <1>1, ChannelInvariant, PTL
=============================================================================
