----------------------------- MODULE ServerFiles -----------------------------
(***************************************************************************)
(* The registry of servers of the CLI: the user's servers.json and the     *)
(* project's .mcp.json (registry.ts), under the verbs add, rm, import and  *)
(* get (runRegistry(), cli.ts), each of them a process of its own.  A file *)
(* is read, changed and rewritten as a whole, and is empty between the     *)
(* truncation and the write; a process may be killed anywhere.             *)
(*                                                                         *)
(* The ghost told: what the last command to report on a name in a file has *)
(* said; the ghost mixed: the files that two commands, or a kill, have     *)
(* been at in the same moment.                                             *)
(***************************************************************************)
EXTENDS Naturals, Sequences, SequencesExt, FiniteSets

CONSTANTS Shells, Names, Entries, MaxVerbs, MaxKills

Paths == {"home", "project"}
Unsaid == "unsaid"
Gone == "gone"

ASSUME FilesAssumption ==
  /\ IsFiniteSet(Names) /\ Names # {}
  /\ Unsaid \notin Entries /\ Gone \notin Entries
  /\ {MaxVerbs, MaxKills} \subseteq Nat

VARIABLES
  entries,    \* the files: the servers each has, or that it cannot be parsed
  shell,      \* the process of each shell
  told, mixed,
  verbs, kills

filesVars == <<entries, shell, told, mixed, verbs, kills>>

\* A file that does not exist reads like one without servers.
NoServers == [intact |-> TRUE, servers |-> <<>>]
Torn == [intact |-> FALSE, servers |-> <<>>]
Quiet == [at |-> "idle", verb |-> "none", todo |-> <<>>, path |-> "home", servers |-> <<>>,
          got |-> Unsaid]

FilesInit ==
  /\ entries = [path \in Paths |-> NoServers]
  /\ shell = [s \in Shells |-> Quiet]
  /\ told = [path \in Paths |-> [n \in Names |-> Unsaid]] /\ mixed = {}
  /\ verbs = 0 /\ kills = 0

-----------------------------------------------------------------------------
(* Helpers                                                                 *)

\* configPathForScope(), without --config.
PathForScope(scope) == IF scope = "project" THEN "project" ELSE "home"

\* { ...user, ...project }
Merge(user, project) ==
  [n \in DOMAIN user \cup DOMAIN project |->
     IF n \in DOMAIN project THEN project[n] ELSE user[n]]

With(servers, n, e) == [m \in DOMAIN servers \cup {n} |-> IF m = n THEN e ELSE servers[m]]
Without(servers, n) == [m \in DOMAIN servers \ {n} |-> servers[m]]

Busy(s) == shell[s].at \in {"changing", "writing"}

-----------------------------------------------------------------------------
(* The verbs                                                               *)

\* A verb starts: what was said of its names no longer counts.
Runs(s, verb, todo, path) ==
  /\ shell[s].at = "idle" /\ verbs < MaxVerbs
  /\ verbs' = verbs + 1
  /\ shell' = [shell EXCEPT ![s] = [Quiet EXCEPT !.at = "reading", !.verb = verb,
                                                 !.todo = todo, !.path = path]]
  /\ told' = [q \in Paths |-> [n \in Names |-> IF \E i \in DOMAIN todo : todo[i].name = n
                                                THEN Unsaid ELSE told[q][n]]]
  /\ UNCHANGED <<entries, mixed, kills>>

Item(n, e) == [name |-> n, entry |-> e]

Add(s, n, e, scope) == Runs(s, "add", <<Item(n, e)>>, PathForScope(scope))

\* importFrom(), then addServer() for each entry.
Import(s, e, scope) ==
  Runs(s, "import", SetToSeq({Item(n, e) : n \in Names}), PathForScope(scope))

\* removeServer(): the path of the scope, or the home file and then the project's.
RemoveServer(s, n, scope) ==
  Runs(s, IF scope = "any" THEN "rm any" ELSE "rm", <<Item(n, Gone)>>, PathForScope(scope))

\* loadRegistry() reads the one file and then the other.
Get(s, n) ==
  /\ shell[s].at = "idle" /\ verbs < MaxVerbs
  /\ verbs' = verbs + 1
  /\ shell' = [shell EXCEPT ![s] = [Quiet EXCEPT !.at = "reading", !.verb = "get",
                                                 !.todo = <<Item(n, Gone)>>]]
  /\ UNCHANGED <<entries, told, mixed, kills>>

\* readServersFile() throws on what does not parse, and the process ends.
ReadFails(s) ==
  /\ shell[s].at = "reading" /\ ~entries[shell[s].path].intact
  /\ shell' = [shell EXCEPT ![s] = Quiet]
  /\ UNCHANGED <<entries, told, mixed, verbs, kills>>

Reads(s) ==
  LET p == shell[s]
      servers == entries[p.path].servers
      n == Head(p.todo).name
  IN /\ p.at = "reading" /\ entries[p.path].intact
     /\ CASE p.verb = "get" ->
               shell' = [shell EXCEPT ![s] =
                 IF p.path = "home" THEN [p EXCEPT !.path = "project", !.servers = servers]
                 ELSE LET all == Merge(p.servers, servers)
                      IN [Quiet EXCEPT !.got = IF n \in DOMAIN all THEN all[n] ELSE Gone]]
          [] p.verb = "rm any" /\ n \notin DOMAIN servers /\ p.path = "home" ->
               shell' = [shell EXCEPT ![s].path = "project"]
          [] p.verb \in {"rm", "rm any"} /\ n \notin DOMAIN servers
               /\ ~(p.verb = "rm any" /\ p.path = "home") ->
               shell' = [shell EXCEPT ![s] = Quiet]
          [] OTHER ->
               shell' = [shell EXCEPT ![s].at = "changing", ![s].servers = servers]
     /\ UNCHANGED <<entries, told, mixed, verbs, kills>>

\* writeFileSync() opens the file, which empties it ...
Truncates(s) ==
  LET path == shell[s].path
  IN /\ shell[s].at = "changing"
     /\ shell' = [shell EXCEPT ![s].at = "writing"]
     /\ entries' = [entries EXCEPT ![path] = Torn]
     /\ mixed' = IF \E t \in Shells \ {s} : Busy(t) /\ shell[t].path = path
                 THEN mixed \cup {path} ELSE mixed
     /\ UNCHANGED <<told, verbs, kills>>

\* Mutant: the file is written anew with the one entry.
Writes_OnlyIt(s) ==
  LET p == shell[s]
      item == Head(p.todo)
      more == Tail(p.todo)
  IN /\ p.at = "writing"
     /\ entries' = [entries EXCEPT ![p.path] =
          [intact |-> TRUE, servers |-> IF item.entry = Gone THEN <<>>
                                        ELSE With(<<>>, item.name, item.entry)]]
     /\ told' = [told EXCEPT ![p.path][item.name] = item.entry]
     /\ shell' = [shell EXCEPT ![s] = IF more = <<>> THEN Quiet
                                      ELSE [p EXCEPT !.at = "reading", !.todo = more]]
     /\ UNCHANGED <<mixed, verbs, kills>>

\* ... and writes what was read before, changed; the next entry of an import is read again.
Writes(s) ==
  LET p == shell[s]
      item == Head(p.todo)
      more == Tail(p.todo)
  IN /\ p.at = "writing"
     /\ entries' = [entries EXCEPT ![p.path] =
          [intact |-> TRUE, servers |-> IF item.entry = Gone THEN Without(p.servers, item.name)
                                        ELSE With(p.servers, item.name, item.entry)]]
     /\ told' = [told EXCEPT ![p.path][item.name] = item.entry]
     /\ shell' = [shell EXCEPT ![s] = IF more = <<>> THEN Quiet
                                      ELSE [p EXCEPT !.at = "reading", !.todo = more]]
     /\ UNCHANGED <<mixed, verbs, kills>>

ShellKilled(s) ==
  /\ kills < MaxKills /\ shell[s].at # "idle"
  /\ kills' = kills + 1
  /\ shell' = [shell EXCEPT ![s] = Quiet]
  /\ mixed' = IF shell[s].at = "writing" THEN mixed \cup {shell[s].path} ELSE mixed
  /\ UNCHANGED <<entries, told, verbs>>

FilesNext ==
  \E s \in Shells :
    \/ \E n \in Names, e \in Entries, scope \in Paths : Add(s, n, e, scope)
    \/ \E e \in Entries, scope \in Paths : Import(s, e, scope)
    \/ \E n \in Names, scope \in Paths \cup {"any"} : RemoveServer(s, n, scope)
    \/ \E n \in Names : Get(s, n)
    \/ ReadFails(s) \/ Reads(s) \/ Truncates(s) \/ Writes(s) \/ ShellKilled(s)

FilesSpec == FilesInit /\ [][FilesNext]_filesVars

-----------------------------------------------------------------------------
(* Properties                                                              *)

Registries == UNION {[d -> Entries] : d \in SUBSET Names}

FilesTypeOK ==
  /\ entries \in [Paths -> [intact : BOOLEAN, servers : Registries]]
  /\ \A s \in Shells :
       /\ shell[s].at \in {"idle", "reading", "changing", "writing"}
       /\ shell[s].path \in Paths /\ shell[s].servers \in Registries
  /\ told \in [Paths -> [Names -> Entries \cup {Unsaid, Gone}]]
  /\ mixed \subseteq Paths
  /\ verbs \in 0 .. MaxVerbs /\ kills \in 0 .. MaxKills

\* A file has what the last command to report on a name has said, whatever was done to other
\* names and to the other file since, and however the commands overlapped: unless two of them
\* were between their read and their write of this file, or one was killed while it wrote
\* (registry.ts:149-173).
ToldIsFound ==
  \A path \in Paths \ mixed, n \in Names :
    entries[path].intact =>
      /\ told[path][n] \in Entries =>
           n \in DOMAIN entries[path].servers /\ entries[path].servers[n] = told[path][n]
      /\ told[path][n] = Gone => n \notin DOMAIN entries[path].servers
=============================================================================
