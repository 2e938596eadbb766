------------------------------ MODULE Activity ------------------------------
(***************************************************************************)
(* The activity stream of the ops cockpit (apps/ops-cockpit/src/lib/       *)
(* activity.ts), fed by the client's audit entries and by the devtools hub.*)
(* The hub is an external ring buffer: at capacity it forgets the oldest   *)
(* event, then it tells its subscribers (test/handlers.test.ts:75-88).     *)
(* A happening is the number of its turn.                                  *)
(***************************************************************************)
EXTENDS Naturals, SequencesExt

CONSTANTS
  HubCapacity,    \* of the DevtoolsHub
  RowCapacity,    \* of the ActivityStore
  MaxHappenings   \* a bound

VARIABLES
  hubEvents,  \* the hub's buffer
  folded,     \* seen: how much of it the stream has taken
  rows,       \* the rows of the stream, oldest first
  due,        \* ghost: what the stream has been told, the last RowCapacity of it
  happened    \* how many happenings there have been

activityVars == <<hubEvents, folded, rows, due, happened>>

Newest(s, n) == SubSeq(s, IF Len(s) > n THEN Len(s) - n + 1 ELSE 1, Len(s))
Event(surfaced) == [turn |-> happened + 1, surfaced |-> surfaced]

\* ActivityStore.add() for each of these
Added(turns) == Newest(rows \o turns, RowCapacity)

ActivityInit ==
  /\ hubEvents = <<>> /\ folded = 0
  /\ rows = <<>> /\ due = <<>> /\ happened = 0

Happens(surfaced) ==
  /\ happened < MaxHappenings
  /\ happened' = happened + 1
  /\ due' = IF surfaced THEN Newest(Append(due, happened + 1), RowCapacity) ELSE due

\* push(): the outcome of a read, a call or a query
Audited ==
  /\ Happens(TRUE)
  /\ rows' = Added(<<happened + 1>>)
  /\ UNCHANGED <<hubEvents, folded>>

HubWith(event) == Newest(Append(hubEvents, event), HubCapacity)

\* fromDevtools(): only some events have a row.
Surfaced(events) ==
  LET shown == SelectSeq(events, LAMBDA e : e.surfaced)
  IN  [i \in DOMAIN shown |-> shown[i].turn]

\* emit(): a request, response, notification or state (surfaced), or another event; the
\* subscriber takes what is beyond what it has seen.
Emitted(surfaced) ==
  /\ Happens(surfaced)
  /\ hubEvents' = HubWith(Event(surfaced))
  /\ rows' = Added(Surfaced(SubSeq(hubEvents', folded + 1, Len(hubEvents'))))
  /\ folded' = Len(hubEvents')

ActivityNext == Audited \/ \E surfaced \in BOOLEAN : Emitted(surfaced)

-----------------------------------------------------------------------------
(* Properties *)

\* What the comment of attachHub() says (activity.ts:44): the hub's events are folded into the
\* stream, also when the hub has forgotten old ones.
StreamIsLive == rows = due
=============================================================================
