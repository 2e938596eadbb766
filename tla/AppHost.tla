------------------------------ MODULE AppHost ------------------------------
(***************************************************************************)
(* The sessions of an MCP App: open(), connect(), whenReady(), addCleanup  *)
(* and close() of createAppHost() (mcp-query-ui/src/host.ts), mounted in a *)
(* sandboxed frame (iframe.ts) by the effect of useMcpApp() (react.ts).    *)
(*                                                                         *)
(* Each run of the effect opens one session; session r is that of run r.   *)
(* AppBridge is external: it connects or fails, delivers "initialized" at  *)
(* most once and nothing after close() has cut its transport.              *)
(* Bound: MaxRuns runs of the effect (mounts and changes of its inputs).   *)
(***************************************************************************)
EXTENDS Naturals

CONSTANT MaxRuns

ASSUME AppAssumption == MaxRuns \in Nat \ {0}

Runs == 1 .. MaxRuns
AppStatus == {"none", "loaded", "connecting", "ready", "closing", "closed", "error"}

VARIABLES
  run, mounted,   \* the last run of the effect, and whether its cleanup has not run yet
  effect,         \* the await of a run: host.open(), the mount, opened.close()
  app,            \* the status of a session, "none" before open() has returned
  info,           \* the app has initialized
  sending,        \* its tool input and result are being sent
  closing,        \* the await of close()
  cleanups,       \* cleanups that have not run: the frame is one
  waiter,         \* the promise of one whenReady()
  shown           \* the session the component shows

appVars == <<run, mounted, effect, app, info, sending, closing, cleanups, waiter, shown>>

AppInit ==
  /\ run = 0 /\ mounted = FALSE /\ shown = 0
  /\ effect = [r \in Runs |-> "none"]
  /\ app = [r \in Runs |-> "none"]
  /\ info = [r \in Runs |-> FALSE] /\ sending = [r \in Runs |-> FALSE]
  /\ closing = [r \in Runs |-> "no"]
  /\ cleanups = [r \in Runs |-> 0]
  /\ waiter = [r \in Runs |-> "none"]

AppTypeOK ==
  /\ run \in 0 .. MaxRuns /\ mounted \in BOOLEAN /\ shown \in 0 .. MaxRuns
  /\ effect \in [Runs -> {"none", "opening", "connecting", "dropping", "done"}]
  /\ app \in [Runs -> AppStatus]
  /\ info \in [Runs -> BOOLEAN] /\ sending \in [Runs -> BOOLEAN]
  /\ closing \in [Runs -> {"no", "teardown", "bridge", "done"}]
  /\ cleanups \in [Runs -> Nat]
  /\ waiter \in [Runs -> {"none", "waiting", "resolved", "rejected"}]

\* The flag of the effect that its cleanup sets.
CleanedUp(r) == r < run \/ (r = run /\ ~mounted)

\* store.update(): the state changes, and who waits for it looks at it.
Turns(r, st) ==
  /\ app' = [app EXCEPT ![r] = st]
  /\ waiter' = [waiter EXCEPT ![r] =
       IF @ # "waiting" THEN @
       ELSE CASE st = "ready" -> "resolved"
              [] st \in {"closed", "closing", "error"} -> "rejected"
              [] OTHER -> @]

\* close(), up to its first await; closed is set once and for all.
Close(r) ==
  IF closing[r] # "no" THEN UNCHANGED <<app, waiter, closing>>
  ELSE /\ Turns(r, "closing")
       /\ closing' = [closing EXCEPT ![r] = IF info[r] THEN "teardown" ELSE "bridge"]

Fail(r) == IF closing[r] = "no" THEN Turns(r, "error") ELSE UNCHANGED <<app, waiter>>

-----------------------------------------------------------------------------
(* The effect of useMcpApp()                                               *)

Mount ==
  /\ ~mounted /\ run < MaxRuns
  /\ run' = run + 1 /\ mounted' = TRUE
  /\ effect' = [effect EXCEPT ![run + 1] = "opening"]
  /\ UNCHANGED <<app, info, sending, closing, cleanups, waiter, shown>>

Unmount ==
  /\ mounted
  /\ mounted' = FALSE /\ shown' = 0
  /\ IF app[run] # "none" THEN Close(run) ELSE UNCHANGED <<app, waiter, closing>>
  /\ UNCHANGED <<run, effect, info, sending, cleanups>>

\* Mutant: a session that opens late is left to a cleanup that has already run.
Dropped_Left(r) ==
  /\ effect' = [effect EXCEPT ![r] = "done"]
  /\ app' = [app EXCEPT ![r] = "loaded"]
  /\ UNCHANGED <<closing, waiter>>

\* The session that is returned to a run whose cleanup has run is closed.
Dropped(r) ==
  /\ effect' = [effect EXCEPT ![r] = "dropping"]
  /\ app' = [app EXCEPT ![r] = "closing"]
  /\ closing' = [closing EXCEPT ![r] = "bridge"]
  /\ UNCHANGED waiter

\* host.open() has returned; the frame is mounted, or its mounting throws at once.
Opened(r) ==
  /\ effect[r] = "opening"
  /\ \/ /\ CleanedUp(r)
        /\ Dropped(r)
        /\ UNCHANGED <<cleanups, shown>>
     \/ /\ ~CleanedUp(r)
        /\ shown' = r
        /\ cleanups' = [cleanups EXCEPT ![r] = 1]
        /\ app' = [app EXCEPT ![r] = "connecting"]
        /\ effect' = [effect EXCEPT ![r] = "connecting"]
        /\ UNCHANGED <<closing, waiter>>
     \/ /\ ~CleanedUp(r)
        /\ shown' = r
        /\ Dropped(r)
        /\ cleanups' \in {[cleanups EXCEPT ![r] = n] : n \in 0 .. 1}
  /\ UNCHANGED <<run, mounted, info, sending>>

\* host.open() is refused, finds no app, or the read fails.
OpenFails(r) ==
  /\ effect[r] = "opening"
  /\ effect' = [effect EXCEPT ![r] = "done"]
  /\ UNCHANGED <<run, mounted, app, info, sending, closing, cleanups, waiter, shown>>

Connected(r) ==
  /\ effect[r] = "connecting"
  /\ effect' = [effect EXCEPT ![r] = "done"]
  /\ UNCHANGED <<run, mounted, app, info, sending, closing, cleanups, waiter, shown>>

\* bridge.connect() rejects: the session fails and the effect goes on to close it.
ConnectFails(r) ==
  /\ effect[r] = "connecting"
  /\ Fail(r)
  /\ effect' = [effect EXCEPT ![r] = "dropping"]
  /\ UNCHANGED <<run, mounted, info, sending, closing, cleanups, shown>>

\* ... after having told its state, which is when the close is called.
Drops(r) ==
  /\ effect[r] = "dropping"
  /\ effect' = [effect EXCEPT ![r] = "done"]
  /\ Close(r)
  /\ UNCHANGED <<run, mounted, info, sending, cleanups, shown>>

-----------------------------------------------------------------------------
(* The session                                                             *)

Live(r) == effect[r] \in {"connecting", "done"} /\ app[r] # "none"

Initialized(r) ==
  /\ Live(r) /\ ~info[r] /\ closing[r] = "no"
  /\ Turns(r, "ready")
  /\ info' = [info EXCEPT ![r] = TRUE]
  /\ sending' = [sending EXCEPT ![r] = TRUE]
  /\ UNCHANGED <<run, mounted, effect, closing, cleanups, shown>>

\* sendToolInput() and sendToolResult() settle.
Sent(r) ==
  /\ sending[r]
  /\ sending' = [sending EXCEPT ![r] = FALSE]
  /\ UNCHANGED <<app, waiter>> \/ Fail(r)
  /\ UNCHANGED <<run, mounted, effect, info, closing, cleanups, shown>>

\* The app asks to be torn down, its transport closes, or somebody calls close().
CloseCalled(r) ==
  /\ app[r] # "none" /\ closing[r] = "no"
  /\ Close(r)
  /\ UNCHANGED <<run, mounted, effect, info, sending, cleanups, shown>>

\* The app has answered the teardown, or its time is over.
TornDown(r) ==
  /\ closing[r] = "teardown"
  /\ closing' = [closing EXCEPT ![r] = "bridge"]
  /\ UNCHANGED <<run, mounted, effect, app, info, sending, cleanups, waiter, shown>>

\* bridge.close() has settled: the cleanups run.
BridgeClosed(r) ==
  /\ closing[r] = "bridge"
  /\ closing' = [closing EXCEPT ![r] = "done"]
  /\ cleanups' = [cleanups EXCEPT ![r] = 0]
  /\ Turns(r, "closed")
  /\ UNCHANGED <<run, mounted, effect, info, sending, shown>>

\* addCleanup() runs what it is given if the session has begun to close.
AddCleanup(r) ==
  /\ app[r] # "none" /\ cleanups[r] < 2
  /\ closing[r] = "no"
  /\ cleanups' = [cleanups EXCEPT ![r] = @ + 1]
  /\ UNCHANGED <<run, mounted, effect, app, info, sending, closing, waiter, shown>>

WhenReady(r) ==
  /\ app[r] # "none" /\ waiter[r] = "none"
  /\ waiter' = [waiter EXCEPT ![r] =
       CASE app[r] = "ready" -> "resolved"
         [] app[r] \in {"closed", "closing", "error"} -> "rejected"
         [] OTHER -> "waiting"]
  /\ UNCHANGED <<run, mounted, effect, app, info, sending, closing, cleanups, shown>>

WaitEnds(r) ==
  /\ waiter[r] = "waiting"
  /\ waiter' = [waiter EXCEPT ![r] = "rejected"]
  /\ UNCHANGED <<run, mounted, effect, app, info, sending, closing, cleanups, shown>>

\* What settles by itself.
Settling(r) ==
  Opened(r) \/ OpenFails(r) \/ Connected(r) \/ ConnectFails(r) \/ Drops(r)
    \/ TornDown(r) \/ BridgeClosed(r)

AppNext ==
  \/ Mount \/ Unmount
  \/ \E r \in Runs : \/ Settling(r) \/ Initialized(r) \/ Sent(r) \/ CloseCalled(r)
                     \/ AddCleanup(r) \/ WhenReady(r) \/ WaitEnds(r)

AppFairness == \A r \in Runs : WF_appVars(Settling(r))
AppSpec == AppInit /\ [][AppNext]_appVars /\ AppFairness

-----------------------------------------------------------------------------
(* Properties                                                              *)

\* A component that goes leaves nothing behind: the session of a run whose cleanup has run
\* ends closed for good with its frame removed, at whatever await the cleanup finds it
\* (react.ts:60-80, host.ts:179-202).
NoSessionLeaks ==
  \A r \in Runs :
    (r <= run /\ CleanedUp(r)) ~> [](app[r] \in {"none", "closed"} /\ cleanups[r] = 0)
=============================================================================
