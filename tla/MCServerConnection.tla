------------------------ MODULE MCServerConnection ------------------------
(***************************************************************************)
(* A connection: its lifecycle in full, and what it hears and lists over a *)
(* lifecycle cut down.  A behaviour is a behaviour of the one that focus   *)
(* names; the other rests in a state from which it does nothing by itself. *)
(***************************************************************************)
EXTENDS ServerConnection, LiveCatalog, TLC

CONSTANTS c1, c2, u1, s1, s2

VARIABLE focus

-----------------------------------------------------------------------------
(* The lifecycle                                                           *)

MCCycles == {c1, c2}
CycleSymmetry == Permutations(MCCycles)

Eager == [lazy |-> FALSE, idleMs |-> FALSE, sessions |-> FALSE, modern |-> FALSE,
          maxRetries |-> 2, serverCaps |-> {{"lists", "subscribe"}, {"lists"}, {}},
          closes |-> TRUE, reuse |-> FALSE, faults |-> {"drop"}, maxFaults |-> 3, clients |-> 6]

LazyBase == [Eager EXCEPT !.lazy = TRUE, !.serverCaps = {{"lists"}}, !.maxRetries = 1,
                          !.maxFaults = 1, !.clients = 3]

\* The configurations of the passing run: eager with a session store, eager on the modern
\* protocol, eager against a server that refuses requests, lazy with idle eviction, lazy on
\* the modern protocol with subscriptions, and lazy with an owner that closes it.
MCConfigs == {
  [Eager EXCEPT !.sessions = TRUE],
  [Eager EXCEPT !.modern = TRUE],
  [Eager EXCEPT !.faults = {"drop", "error"}],
  [LazyBase EXCEPT !.idleMs = TRUE, !.closes = FALSE],
  [LazyBase EXCEPT !.modern = TRUE, !.serverCaps = {{"subscribe"}}, !.closes = FALSE],
  [LazyBase EXCEPT !.faults = {}, !.clients = 2]}

\* An eager connection over a network that may drop it, and one that nothing goes wrong for.
DropConfigs == {Eager}
CalmConfigs == {[Eager EXCEPT !.faults = {}]}

-----------------------------------------------------------------------------
(* The stream and the registry                                             *)

\* Two streams: one open, one that replaces it.
MCUris == {u1}
MCStreams == {s1, s2}

Legacy == [modern |-> FALSE, offers |-> {TRUE}, observes |-> FALSE, maxFaults |-> 2]
Modern == [Legacy EXCEPT !.modern = TRUE, !.observes = TRUE, !.offers = BOOLEAN]
\* Two losses while the filter stays, or one while it changes.
MCRegimes == {Legacy, [Modern EXCEPT !.observes = FALSE], [Modern EXCEPT !.maxFaults = 1]}
DeafRegimes == {[Modern EXCEPT !.offers = {TRUE}, !.observes = FALSE]}

\* A legacy connection that is up and has listed.
AtRest ==
  /\ regime = Legacy
  /\ conn = "up" /\ wired = TRUE
  /\ edition = 1 /\ news = 0 /\ unheard = FALSE
  /\ gen = 1 /\ relists = [g \in Gens |-> NoList] /\ first = 0 /\ catalog = 1
  /\ losses = 0
  /\ ListenInit

-----------------------------------------------------------------------------
MCInit ==
  /\ Init
  /\ \/ focus = "lifecycle" /\ AtRest
     \/ focus = "notices" /\ CatalogInit /\ config = CHOOSE c \in Configs : TRUE

LifecycleStep == focus = "lifecycle" /\ Next /\ UNCHANGED <<focus, noticeVars>>

NoticesStep == focus = "notices" /\ CatalogNext /\ UNCHANGED <<focus, vars>>

MCNext == LifecycleStep \/ NoticesStep

MCSpec == MCInit /\ [][MCNext]_<<focus, vars, noticeVars>> /\ Fairness /\ CatalogFairness
=============================================================================
