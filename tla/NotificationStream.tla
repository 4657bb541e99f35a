-------------------------- MODULE NotificationStream --------------------------
(***************************************************************************)
(* How a browser tab follows a run: RunEventBus of app/events.py, the      *)
(* WebSocket endpoint of app/main.py, and the hooks useNotificationStream  *)
(* and useJobs/useJobDetail of the frontend.  An event only says that the  *)
(* run changed; what is shown is fetched over REST, on an event and by     *)
(* polling.  Events get lost while no socket is open and when a slow       *)
(* subscriber's queue is full; answers may overtake one another.           *)
(*                                                                         *)
(* The record of the run goes through the versions 0 .. Final (a terminal  *)
(* state) and is then deleted: Gone.  Each change is published after it is *)
(* stored, as the event with the number of the version.                    *)
(***************************************************************************)
EXTENDS Integers, Sequences, FiniteSets, SequencesExt

CONSTANTS
  Final,        \* the number of changes up to the terminal state
  QueueMax,     \* events a subscriber may lag behind (100)
  MaxEvents,    \* events the tab keeps (100)
  MaxSockets,   \* bound: sockets the tab opens
  MaxMounts,    \* bound: widgets that are mounted
  MaxPolls,     \* bound: fetches of a widget when the interval adds one
  MaxFailures   \* bound: sockets that break and fetches that fail

Gone == Final + 1
Sockets == 1 .. MaxSockets

\* The list of useJobs, and the page of the run, useJobDetail.
Viewers == {"list", "detail"}

ASSUME StreamAssumption ==
  /\ {Final, QueueMax, MaxEvents, MaxPolls} \subseteq Nat \ {0}
  /\ {MaxSockets, MaxMounts, MaxFailures} \subseteq Nat

VARIABLES
  record,    \* the stored version
  owed,      \* versions whose event is not published yet
  queue,     \* of each socket: the events its subscription still has to send
  sock,      \* of each socket: its readyState, or unused
  muted,     \* sockets whose onclose was taken off
  current,   \* the socket the module of the hook holds, 0 when none
  timers,    \* reconnects that are pending
  events,    \* the events the tab keeps
  mounted,   \* the widgets on screen
  handled,   \* of each widget: the event its effect last ran for, -1 when none
  asks,      \* of each widget: its fetches under way, oldest first
  view,      \* of each widget: the version it shows, -1 when none
  error,     \* of each widget: whether it shows an error
  newest,    \* of each widget: the newest version an answer brought, -1 when
             \* none, Failed once a fetch has failed
  mounts, failures   \* what is left of the bounds

tab    == <<sock, muted, current, timers, events>>
shown  == <<mounted, handled, asks, view, error, newest>>
bounds == <<mounts, failures>>
vars   == <<record, owed, queue, tab, shown, bounds>>

Unread == -2
Failed == Gone + 1

Init ==
  /\ record = 0 /\ owed = {}
  /\ queue = [s \in Sockets |-> <<>>]
  /\ sock = [s \in Sockets |-> "unused"] /\ muted = {} /\ current = 0
  /\ timers = 0 /\ events = <<>>
  /\ mounted = {} /\ handled = [v \in Viewers |-> -1]
  /\ asks = [v \in Viewers |-> <<>>] /\ view = [v \in Viewers |-> -1]
  /\ error = [v \in Viewers |-> FALSE] /\ newest = [v \in Viewers |-> -1]
  /\ mounts = MaxMounts /\ failures = MaxFailures

-----------------------------------------------------------------------------
(* The server                                                              *)

\* RunStore writes the next version of the record, or deletes the run.
Write ==
  /\ record < Gone
  /\ record' = record + 1 /\ owed' = owed \cup {record + 1}
  /\ UNCHANGED <<queue, tab, shown, bounds>>

\* _put_notification: a full queue loses its oldest event.
Put(q, n) == Append(IF Len(q) < QueueMax THEN q ELSE Tail(q), n)

\* publish, and the callbacks it hands to the event loop, to the subscribers of
\* the moment.  The thread that stored a change publishes it; the deletion is
\* another thread's and may come before the event of the terminal state.
Publish ==
  /\ \E n \in owed :
       /\ n = Gone \/ \A m \in owed : n <= m
       /\ owed' = owed \ {n}
       /\ queue' = [s \in Sockets |-> IF sock[s] = "open" THEN Put(queue[s], n) ELSE queue[s]]
  /\ UNCHANGED <<record, tab, shown, bounds>>

\* notification_stream: the socket is accepted and subscribed.
Accept(s) ==
  /\ sock[s] = "connecting" /\ sock' = [sock EXCEPT ![s] = "open"]
  /\ UNCHANGED <<record, owed, queue, muted, current, timers, events, shown, bounds>>

-----------------------------------------------------------------------------
(* The socket that the widgets of a tab share                              *)

\* connect: another socket, whatever became of the one before.
Connect ==
  \E s \in Sockets :
    /\ sock[s] = "unused" /\ \A r \in Sockets : sock[r] = "unused" => s <= r
    /\ current' = s /\ sock' = [sock EXCEPT ![s] = "connecting"]

\* A proxy, the server or the network ends a connection.  What the subscription
\* has queued, and gets before a send fails, reaches nobody.
Break(s) ==
  /\ failures > 0 /\ failures' = failures - 1
  /\ sock[s] \in {"connecting", "open"}
  /\ sock' = [sock EXCEPT ![s] = "closing"] /\ queue' = [queue EXCEPT ![s] = <<>>]
  /\ UNCHANGED <<record, owed, muted, current, timers, events, shown, mounts>>

\* onclose: a reconnect is due, also when connect has replaced the socket.
Closed(s) ==
  /\ sock[s] = "closing"
  /\ sock' = [sock EXCEPT ![s] = "closed"]
  /\ timers' = IF s \notin muted /\ mounted # {} THEN timers + 1 ELSE timers
  /\ UNCHANGED <<record, owed, queue, muted, current, events, shown, bounds>>

\* A timeout: connect cancels the one that was set last.
Reconnect ==
  /\ timers > 0 /\ Connect
  /\ timers' = IF timers > 1 THEN timers - 2 ELSE 0
  /\ UNCHANGED <<record, owed, queue, muted, events, shown, bounds>>

\* A send and its onmessage: an event the tab has is dropped, the oldest gives
\* way to a new one.
Receive(s) ==
  /\ sock[s] = "open" /\ queue[s] # <<>>
  /\ queue' = [queue EXCEPT ![s] = Tail(@)]
  /\ LET n    == Head(queue[s])
         kept == IF Len(events) < MaxEvents THEN events ELSE Tail(events)
     IN events' = IF n \in ToSet(events) THEN events ELSE Append(kept, n)
  /\ UNCHANGED <<record, owed, sock, muted, current, timers, shown, bounds>>

-----------------------------------------------------------------------------
(* The widgets                                                             *)

\* An effect: the widget listens, the socket is opened unless it is open or
\* connecting, and a first fetch starts.
Mount(v) ==
  /\ v \notin mounted /\ mounts > 0 /\ mounts' = mounts - 1
  /\ mounted' = mounted \cup {v}
  /\ IF current # 0 /\ sock[current] \in {"connecting", "open"}
       THEN UNCHANGED <<sock, current, timers>>
       ELSE Connect /\ timers' = IF timers > 0 THEN timers - 1 ELSE 0
  /\ handled' = [handled EXCEPT ![v] = -1] /\ view' = [view EXCEPT ![v] = -1]
  /\ error' = [error EXCEPT ![v] = FALSE] /\ newest' = [newest EXCEPT ![v] = -1]
  /\ asks' = [asks EXCEPT ![v] = <<Unread>>]
  /\ UNCHANGED <<record, owed, queue, muted, events, failures>>

\* The effect is undone; the last widget closes the socket.
Unmount(v) ==
  /\ v \in mounted /\ mounted' = mounted \ {v}
  /\ asks' = [asks EXCEPT ![v] = <<>>]
  /\ IF mounted' # {}
       THEN UNCHANGED <<queue, sock, muted, current, timers>>
       ELSE /\ timers' = IF timers > 0 THEN timers - 1 ELSE 0
            /\ current' = 0
            /\ IF current # 0 /\ sock[current] \in {"connecting", "open", "closing"}
                 THEN /\ sock' = [sock EXCEPT ![current] = "closing"]
                      /\ queue' = [queue EXCEPT ![current] = <<>>]
                      /\ muted' = muted \cup {current}
                 ELSE UNCHANGED <<queue, sock, muted>>
  /\ UNCHANGED <<record, owed, events, handled, view, error, newest, bounds>>

Asked(v) == asks' = [asks EXCEPT ![v] = Append(@, Unread)]

\* CaughtUp: no second fetch while one is under way.
NoticeWhenIdle(v) ==
  /\ v \in mounted /\ events # <<>> /\ handled[v] # Last(events)
  /\ handled' = [handled EXCEPT ![v] = Last(events)]
  /\ IF asks[v] = <<>> THEN Asked(v) ELSE UNCHANGED asks
  /\ UNCHANGED <<record, owed, queue, tab, mounted, view, error, newest, bounds>>

\* The effect on the newest event: a fetch, whatever is under way.
Notice(v) ==
  /\ v \in mounted /\ events # <<>> /\ handled[v] # Last(events)
  /\ handled' = [handled EXCEPT ![v] = Last(events)] /\ Asked(v)
  /\ UNCHANGED <<record, owed, queue, tab, mounted, view, error, newest, bounds>>

\* CatchUp: the interval is only for tabs without a socket.
PollsUnconnected(v) == current = 0 \/ sock[current] # "open"

\* The page of a run that ended has no interval.
Polls(v) == v = "list" \/ view[v] # Final

Poll(v) ==
  /\ v \in mounted /\ Polls(v) /\ Len(asks[v]) < MaxPolls
  /\ Asked(v)
  /\ UNCHANGED <<record, owed, queue, tab, mounted, handled, view, error, newest, bounds>>

\* list_runs, get_run.
Read(v) ==
  /\ \E i \in DOMAIN asks[v] :
       asks[v][i] = Unread /\ asks' = [asks EXCEPT ![v][i] = record]
  /\ UNCHANGED <<record, owed, queue, tab, mounted, handled, view, error, newest, bounds>>

\* Setting or clearing the interval starts with a fetch.
Answered(v, i, new) ==
  LET rest == RemoveAt(asks[v], i)
  IN IF v = "detail" /\ (new = Final) # (view[v] = Final) THEN Append(rest, Unread) ELSE rest

\* setData with whatever answer comes; 404, of a run that is gone, is an error
\* and what was shown stays.
Answer(v) ==
  /\ \E i \in DOMAIN asks[v] :
       LET read == asks[v][i]
           none == v = "detail" /\ read = Gone
           new  == IF none THEN view[v] ELSE read
       IN /\ read # Unread
          /\ view' = [view EXCEPT ![v] = new] /\ error' = [error EXCEPT ![v] = none]
          /\ asks' = [asks EXCEPT ![v] = Answered(v, i, new)]
          /\ newest' = [newest EXCEPT ![v] = IF read > @ THEN read ELSE @]
  /\ UNCHANGED <<record, owed, queue, tab, mounted, handled, bounds>>

\* A fetch fails: an error, and what was shown stays.
Fail(v) ==
  /\ failures > 0 /\ failures' = failures - 1
  /\ \E i \in DOMAIN asks[v] : asks' = [asks EXCEPT ![v] = RemoveAt(@, i)]
  /\ error' = [error EXCEPT ![v] = TRUE] /\ newest' = [newest EXCEPT ![v] = Failed]
  /\ UNCHANGED <<record, owed, queue, tab, mounted, handled, view, mounts>>

-----------------------------------------------------------------------------

SocketStep(s) ==
  Accept(s) \/ Break(s) \/ Closed(s) \/ Receive(s)

WidgetStep(v) ==
  Mount(v) \/ Unmount(v) \/ Notice(v) \/ Poll(v) \/ Read(v) \/ Answer(v) \/ Fail(v)

Next ==
  \/ Write \/ Publish \/ Reconnect
  \/ \E s \in Sockets : SocketStep(s)
  \/ \E v \in Viewers : WidgetStep(v)

\* Intervals go on, and a fetch that does not fail is answered.  Nothing is
\* assumed of the run, the sockets and the events.
Fairness ==
  \A v \in Viewers : WF_vars(Poll(v)) /\ WF_vars(Read(v)) /\ WF_vars(Answer(v))

Spec == Init /\ [][Next]_vars /\ Fairness

-----------------------------------------------------------------------------
(* Properties                                                              *)

\* A widget with no fetch under way has had an answer at least as new as every
\* event it took notice of, however the fetches on events and those of the
\* interval mix, and unless one of them failed.  It shows that answer, but
\* for an older one that came in after it: setData takes any answer.
CaughtUp ==
  \A v \in mounted :
    asks[v] = <<>> /\ events # <<>> /\ handled[v] = Last(events) =>
      \A n \in ToSet(events) : newest[v] >= n

\* "polling remains the fallback" (use-jobs.ts): without any event, after lost
\* ones and after answers out of order, each widget comes to show the stored
\* record and stays with it.  The page of a run that was deleted comes to show
\* an error, or that the run has ended, which no poll corrects.
CatchUp ==
  \A v \in Viewers :
    <>[](v \in mounted =>
           \/ view[v] = record
           \/ v = "detail" /\ record = Gone /\ (error[v] \/ view[v] = Final))
=============================================================================
