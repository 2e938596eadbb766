--------------------------- MODULE DaemonStartup ---------------------------
(***************************************************************************)
(* The keep-alive daemon comes and goes: ensureDaemon(), request() and     *)
(* daemonStop() of the CLI (cli/src/daemon/client.ts) against runDaemon()  *)
(* (cli/src/daemon/server.ts), which meet at one socket file.              *)
(*                                                                         *)
(* Processes interleave between system calls, so what one has seen of the  *)
(* file may be over when it acts.  The file system is external: bind       *)
(* refuses a path that exists, an unlinked socket keeps its listener, and  *)
(* a process that is killed leaves its file.                               *)
(* Bounds: Daemons that can be spawned, MaxEnds daemons that end.          *)
(***************************************************************************)
EXTENDS Naturals

CONSTANTS Daemons, Callers, MaxEnds

NoFile == "none"
Stale == "stale"
ASSUME StartupAssumption == {NoFile, Stale} \cap Daemons = {} /\ MaxEnds \in Nat

VARIABLES
  file,      \* whose socket the path names
  process,   \* the await of a daemon
  caller,    \* the await of a CLI process
  peer,      \* the daemon its request has reached
  ends       \* daemons stopped, retired or killed so far

startVars == <<file, process, caller, peer, ends>>

StartInit ==
  /\ file \in {NoFile, Stale}
  /\ process = [d \in Daemons |-> "unborn"]
  /\ caller = [c \in Callers |-> "idle"]
  /\ peer = [c \in Callers |-> NoFile]
  /\ ends = 0

StartTypeOK ==
  /\ file \in Daemons \cup {NoFile, Stale}
  /\ process \in [Daemons -> {"unborn", "starting", "probing", "unlinking", "binding",
                             "serving", "closing", "gone"}]
  /\ caller \in [Callers -> {"idle", "probing", "checking", "unlinking", "spawning", "polling",
                             "ready", "asking", "answered", "failed"}]
  /\ peer \in [Callers -> Daemons \cup {NoFile}]
  /\ ends \in 0 .. MaxEnds

\* Something answers on the socket.
Listening == file \in Daemons /\ process[file] \in {"serving", "closing"}

Moves(d, st) == process' = [process EXCEPT ![d] = st]
Goes(c, st) == caller' = [caller EXCEPT ![c] = st]

-----------------------------------------------------------------------------
(* The CLI                                                                 *)

Invoke(c) ==
  /\ caller[c] = "idle"
  /\ Goes(c, "probing")
  /\ UNCHANGED <<file, process, peer, ends>>

\* isRunning(), before the spawn and while polling.
Probe(c) ==
  /\ \/ caller[c] = "probing" /\ Goes(c, IF Listening THEN "ready" ELSE "checking")
     \/ caller[c] = "polling" /\ Listening /\ Goes(c, "ready")
  /\ UNCHANGED <<file, process, peer, ends>>

\* A socket file that is there is taken for a leftover.
Checks(c) ==
  /\ caller[c] = "checking"
  /\ Goes(c, IF file = NoFile THEN "spawning" ELSE "unlinking")
  /\ UNCHANGED <<file, process, peer, ends>>

Unlinks(c) ==
  /\ caller[c] = "unlinking"
  /\ file' = NoFile
  /\ Goes(c, "spawning")
  /\ UNCHANGED <<process, peer, ends>>

Spawns(c) ==
  /\ caller[c] = "spawning"
  /\ \E d \in Daemons : process[d] = "unborn" /\ Moves(d, "starting")
  /\ Goes(c, "polling")
  /\ UNCHANGED <<file, peer, ends>>

\* No daemon has answered within the budget of the poll.
TimesOut(c) ==
  /\ caller[c] = "polling" /\ ~Listening
  /\ Goes(c, "failed")
  /\ UNCHANGED <<file, process, peer, ends>>

\* request() connects again, to whom the path names by now.
Asks(c) ==
  /\ caller[c] = "ready"
  /\ IF Listening THEN Goes(c, "asking") /\ peer' = [peer EXCEPT ![c] = file]
                 ELSE Goes(c, "failed") /\ UNCHANGED peer
  /\ UNCHANGED <<file, process, ends>>

\* The daemon answers; a daemon that has gone has closed the connection.
Answers1(c) ==
  /\ caller[c] = "asking"
  /\ Goes(c, IF process[peer[c]] = "gone" THEN "failed" ELSE "answered")
  /\ UNCHANGED <<file, process, peer, ends>>

-----------------------------------------------------------------------------
(* The daemon                                                              *)

Bound(d) == file' = d /\ Moves(d, "serving")

\* The first listen().
Listens(d) ==
  /\ process[d] = "starting"
  /\ IF file = NoFile THEN Bound(d) ELSE Moves(d, "probing") /\ UNCHANGED file
  /\ UNCHANGED <<caller, peer, ends>>

\* EADDRINUSE: a live daemon has won the race, a stale file is unlinked.
Probes(d) ==
  /\ process[d] = "probing"
  /\ Moves(d, IF Listening THEN "gone" ELSE "unlinking")
  /\ UNCHANGED <<file, caller, peer, ends>>

Clears(d) ==
  /\ process[d] = "unlinking"
  /\ file' = NoFile
  /\ Moves(d, "binding")
  /\ UNCHANGED <<caller, peer, ends>>

\* Mutant: a stale file is cleared for whoever comes next.
Rebinds_Not(d) ==
  /\ process[d] = "binding"
  /\ Moves(d, "gone")
  /\ UNCHANGED <<file, caller, peer, ends>>

\* The second listen(); who has been overtaken again fails.
Rebinds(d) ==
  /\ process[d] = "binding"
  /\ IF file = NoFile THEN Bound(d) ELSE Moves(d, "gone") /\ UNCHANGED file
  /\ UNCHANGED <<caller, peer, ends>>

\* shutdown(): a stop request over the socket, a signal, or a long idle time.
ShutsDown(d) ==
  /\ process[d] = "serving" /\ ends < MaxEnds
  /\ ends' = ends + 1
  /\ Moves(d, "closing")
  /\ UNCHANGED <<file, caller, peer>>

\* ... whose upstreams are closed: the server closes and the path is unlinked.
Leaves(d) ==
  /\ process[d] = "closing"
  /\ Moves(d, "gone")
  /\ file' = NoFile
  /\ UNCHANGED <<caller, peer, ends>>

Killed(d) ==
  /\ process[d] \in {"serving", "closing"} /\ ends < MaxEnds
  /\ ends' = ends + 1
  /\ Moves(d, "gone")
  /\ file' = IF file = d THEN Stale ELSE file
  /\ UNCHANGED <<caller, peer>>

CallerActs(c) == Probe(c) \/ Checks(c) \/ Unlinks(c) \/ Spawns(c) \/ Asks(c) \/ Answers1(c)
DaemonActs(d) == Listens(d) \/ Probes(d) \/ Clears(d) \/ Rebinds(d) \/ Leaves(d)

StartNext ==
  \/ \E c \in Callers : Invoke(c) \/ CallerActs(c) \/ TimesOut(c)
  \/ \E d \in Daemons : DaemonActs(d) \/ ShutsDown(d) \/ Killed(d)

StartFairness ==
  /\ \A c \in Callers : WF_startVars(CallerActs(c))
  /\ \A d \in Daemons : WF_startVars(DaemonActs(d))

StartSpec == StartInit /\ [][StartNext]_startVars /\ StartFairness

-----------------------------------------------------------------------------
(* Properties                                                              *)

\* Whoever unlinks whose file in the race of the starts, and whatever files were left behind,
\* a caller that spawns a daemon reaches one in the end, unless its time is over, a daemon ends
\* while it waits, or one was still closing, which unlinks the path of the next
\* (client.ts:38-66, server.ts:255-268, 233-248).  The callers are alike: one stands for all.
ComesUp ==
  LET c == CHOOSE c \in Callers : TRUE
  IN  \A n \in 0 .. MaxEnds :
        (caller[c] = "spawning" /\ ends = n /\ \A d \in Daemons : process[d] # "closing")
          ~> (caller[c] \in {"ready", "asking", "answered", "failed"} \/ ends > n)

\* One daemon owns the upstream connections (server.ts:194-196: "Exits 0 if another daemon
\* already owns the socket (lost the startup race)").
OneDaemon == \A d, e \in Daemons : process[d] = "serving" /\ process[e] = "serving" => d = e
=============================================================================
