--------------------------- MODULE ListenManager ---------------------------
(***************************************************************************)
(* The owner of the notification stream of a modern connection, after      *)
(* class ListenManager of packages/mcp-query/src/core/listen.ts.           *)
(*                                                                         *)
(* `opening` admits one refresh() at a time past its guard, so opener is   *)
(* the await of that one: the answer to listen(), or the close() of the    *)
(* stream it replaces.  A stream is external: open once acknowledged, lost *)
(* (closed by the other side, which its `closed` promise will report),     *)
(* dead (reported, but still `current`), or unused; one that is closed     *)
(* locally is unused at once, since its handler ignores that.  Of          *)
(* retryTimer the handle matters as well as the timer: "cleared" is the    *)
(* handle of a timer that has been cleared.  attempts only sets the delay  *)
(* and is left out.                                                        *)
(***************************************************************************)
EXTENDS Naturals, FiniteSets

CONSTANTS
  Uris,      \* resources that may be observed
  Streams,   \* identities of the streams that exist at a time
  None       \* no stream

ASSUME ListenAssumption == None \notin Streams /\ IsFiniteSet(Streams)

Filters == [lists : BOOLEAN, uris : SUBSET Uris]
Empty == [lists |-> FALSE, uris |-> {}]

VARIABLES
  lists,         \* the connection's capabilities include a listChanged
  stopped,       \* ListenManager.stopped
  watched,      \* ListenManager.observed
  debounce,      \* the debounce timer is armed
  retryTimer,    \* none, armed, or cleared by stop()
  opener,        \* the await of the refresh() that is opening a stream
  reopenQueued,  \* ListenManager.reopenQueued
  asked,         \* the filter it has asked for
  replacing,     \* the stream it will close when the new one is open
  current,       \* ListenManager.current
  stream, filter \* per stream: its state, the filter fixed when it was opened

timers == <<debounce, retryTimer>>
opening == <<opener, reopenQueued, asked, replacing>>
streams == <<current, stream, filter>>
listenVars == <<lists, stopped, watched, timers, opening, streams>>

ListenInit ==
  /\ lists = FALSE
  /\ stopped = TRUE
  /\ watched = {}
  /\ debounce = FALSE /\ retryTimer = "none"
  /\ opener = "off" /\ reopenQueued = FALSE /\ asked = Empty /\ replacing = None
  /\ current = None
  /\ stream = [s \in Streams |-> "unused"]
  /\ filter = [s \in Streams |-> Empty]

\* desiredFilter()
Desired(obs) == [lists |-> lists, uris |-> obs]

Close(s) ==
  /\ stream' = [t \in Streams |-> IF t = s THEN "unused" ELSE stream[t]]
  /\ filter' = [t \in Streams |-> IF t = s THEN Empty ELSE filter[t]]

\* Mutant: the old stream is closed before the new one is asked for.
Open_ClosesFirst(obs) ==
  \/ /\ Desired(obs) = Empty
     /\ opener' = "off" /\ asked' = Empty /\ replacing' = None
     /\ current' = None /\ Close(current)
  \/ /\ Desired(obs) # Empty
     /\ opener' = "listening" /\ asked' = Desired(obs) /\ replacing' = None
     /\ current' = None /\ Close(current)

\* refresh(), up to its await, of a running manager that observes obs: nobody else is
\* opening a stream.
Open(obs) ==
  \/ /\ Desired(obs) = Empty
     /\ current' = None
     /\ Close(current)
     /\ opener' = "off" /\ asked' = Empty /\ replacing' = None
  \/ /\ Desired(obs) # Empty
     /\ opener' = "listening" /\ asked' = Desired(obs) /\ replacing' = current
     /\ UNCHANGED streams

\* Mutant: a refresh that finds another one under way is dropped.
Refresh_Drops(obs) ==
  \/ opener # "off" /\ UNCHANGED <<opening, streams>>
  \/ opener = "off" /\ Open(obs) /\ UNCHANGED reopenQueued

\* refresh() of a running manager: concurrent refreshes collapse into one rerun.
Refresh(obs) ==
  \/ /\ opener # "off"
     /\ reopenQueued' = TRUE
     /\ UNCHANGED <<opener, asked, replacing, streams>>
  \/ /\ opener = "off"
     /\ Open(obs)
     /\ UNCHANGED reopenQueued

\* Mutant: re-listening forgets the timer it has armed.
ScheduleReopen_Never == UNCHANGED retryTimer

\* scheduleReopen()
ScheduleReopen ==
  retryTimer' = IF ~stopped /\ retryTimer = "none" THEN "armed" ELSE retryTimer

\* setObserved(), with a changed set.
SetObserved(obs) ==
  /\ obs # watched
  /\ watched' = obs
  /\ debounce' = (debounce \/ ~stopped)
  /\ UNCHANGED <<lists, stopped, retryTimer, opening, streams>>

\* start(), with the resources observed according to the cache.
Start(seed) ==
  /\ stopped' = FALSE
  /\ watched' = seed
  /\ Refresh(seed)
  /\ UNCHANGED <<lists, timers>>

\* stop(): the timers are cleared, the handle of the retry timer stays.
Stop ==
  /\ stopped' = TRUE
  /\ debounce' = FALSE
  /\ retryTimer' = IF retryTimer = "none" THEN "none" ELSE "cleared"
  /\ current' = None
  /\ Close(current)
  /\ UNCHANGED <<lists, watched, opening>>

DebounceFires ==
  /\ debounce
  /\ debounce' = FALSE
  /\ Refresh(watched)
  /\ UNCHANGED <<lists, stopped, watched, retryTimer>>

RetryFires ==
  /\ retryTimer = "armed"
  /\ retryTimer' = "none"
  /\ Refresh(watched)
  /\ UNCHANGED <<lists, stopped, watched, debounce>>

\* Mutant: the old stream is never closed.
Opened_KeepsOld(s) ==
  /\ opener = "listening"
  /\ stream[s] = "unused"
  /\ current' = s
  /\ stream' = [stream EXCEPT ![s] = "open"]
  /\ filter' = [filter EXCEPT ![s] = asked]
  /\ opener' = "retiring" /\ asked' = Empty /\ replacing' = None
  /\ UNCHANGED <<lists, stopped, watched, timers, reopenQueued>>

\* listen() is acknowledged: the new stream replaces the old one, which is closed.
Opened(s) ==
  /\ opener = "listening"
  /\ stream[s] = "unused"
  /\ current' = s
  /\ stream' = [t \in Streams |-> IF t = s THEN "open" ELSE IF t = replacing THEN "unused" ELSE stream[t]]
  /\ filter' = [t \in Streams |-> IF t = s THEN asked ELSE IF t = replacing THEN Empty ELSE filter[t]]
  /\ opener' = "retiring" /\ asked' = Empty /\ replacing' = None
  /\ UNCHANGED <<lists, stopped, watched, timers, reopenQueued>>

\* Mutant: the rerun that was queued is forgotten.
Finally_Forgets ==
  /\ opener' = "off" /\ asked' = Empty /\ replacing' = None
  /\ UNCHANGED <<reopenQueued, streams>>

\* The `finally` of refresh(): rerun once if a refresh was queued.
Finally ==
  /\ reopenQueued' = FALSE
  /\ \/ /\ reopenQueued /\ ~stopped
        /\ Open(watched)
     \/ /\ ~reopenQueued \/ stopped
        /\ opener' = "off" /\ asked' = Empty /\ replacing' = None
        /\ UNCHANGED streams

\* The old stream is closed.
Retired ==
  /\ opener = "retiring"
  /\ Finally
  /\ UNCHANGED <<lists, stopped, watched, timers>>

\* listen() rejects.
OpenFails ==
  /\ opener = "listening"
  /\ ScheduleReopen
  /\ Finally
  /\ UNCHANGED <<lists, stopped, watched, debounce>>

\* The other side closes streams ss.
Lost(ss) ==
  stream' = [s \in Streams |-> IF s \in ss /\ stream[s] = "open" THEN "lost" ELSE stream[s]]

\* The `closed` promise of a lost stream: its handler is installed once the stream it
\* replaced is closed, and ignores what has been superseded.
HearsLoss(s) ==
  /\ stream[s] = "lost"
  /\ ~(opener = "retiring" /\ s = current)
  /\ stream' = [stream EXCEPT ![s] = IF s = current THEN "dead" ELSE "unused"]
  /\ filter' = [filter EXCEPT ![s] = Empty]
  /\ IF s = current THEN ScheduleReopen ELSE UNCHANGED retryTimer
  /\ UNCHANGED <<lists, stopped, watched, debounce, opening, current>>

-----------------------------------------------------------------------------

\* Types; and a refresh that has been queued has somebody to run it.
ListenTypeOK ==
  /\ lists \in BOOLEAN /\ stopped \in BOOLEAN
  /\ watched \subseteq Uris
  /\ debounce \in BOOLEAN /\ retryTimer \in {"none", "armed", "cleared"}
  /\ opener \in {"off", "listening", "retiring"} /\ reopenQueued \in BOOLEAN
  /\ reopenQueued => opener # "off"
  /\ asked \in Filters
  /\ replacing \in Streams \cup {None}
  /\ current \in Streams \cup {None}
  /\ stream \in [Streams -> {"unused", "open", "lost", "dead"}]
  /\ filter \in [Streams -> Filters]

Wanted == ~stopped /\ Desired(watched) # Empty
Hears(f) == \E s \in Streams : s = current /\ stream[s] = "open" /\ filter[s] = f

\* Something will lead to another attempt to open a stream, or is reporting the loss of one.
Attended ==
  \/ opener # "off" \/ debounce \/ retryTimer = "armed"
  \/ \E s \in Streams : s = current /\ stream[s] \in {"open", "lost"}

\* "the filter is FIXED at listen time, so changing the observed-resource set means opening
\* a replacement stream": a stream that nobody is about to replace has the filter wanted.
FilterCurrent ==
  \A s \in Streams :
    (/\ s = current /\ stream[s] = "open" /\ ~stopped
     /\ opener = "off" /\ ~debounce /\ retryTimer = "none")
      => filter[s] = Desired(watched)

\* Replaced streams are closed: no stream but the current one is open, whatever becomes of
\* the manager while a replacement is opening.
OneStream == \A s \in Streams : stream[s] = "open" => s = current

NoStreamGivenUp ==
  \A s \in Streams :
    (stream[s] = "open" /\ stream'[s] = "unused" /\ ~stopped /\ ~stopped')
      => \/ Desired(watched) = Empty
         \/ \E t \in Streams : t = current' /\ stream'[t] = "open"

\* "opening a replacement stream, then closing the old one (the overlap gives at-least-once
\* delivery)": a running manager gives an open stream up only for an open one, or because it
\* wants none any more.
NoGap == [][NoStreamGivenUp]_listenVars

\* A running manager that wants a stream has one, or something is under way to get one, as
\* long as no retry was pending when it was stopped before.
ListensOrRetries == (Wanted /\ retryTimer # "cleared") => Attended

\* What the code does not keep.

\* "a `closed: 'remote'` (unexpected drop) re-listens with backoff".
NeverDeaf == Wanted => Attended

=============================================================================
