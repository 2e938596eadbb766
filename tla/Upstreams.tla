------------------------------ MODULE Upstreams ------------------------------
(***************************************************************************)
(* The connection behind one name of a live gate: addServer() and          *)
(* removeServer() of class MCPClient (mcp-query/src/core/client.ts), and   *)
(* addUpstream(), removeUpstream(), updateUpstream() of a gate             *)
(* (mcp-gate/src/index.ts, client.ts), called by several Operators at a    *)
(* time.  Names do not touch each other, so one is enough.                 *)
(*                                                                         *)
(* The ghost overlapped: a removal began while another was closing.        *)
(* Bound: MaxConns connections are made.                                   *)
(***************************************************************************)
EXTENDS Naturals

CONSTANTS Operators, MaxConns

ASSUME UpstreamAssumption == MaxConns \in Nat \ {0}

Conns == 1 .. MaxConns
Unnamed == 0

VARIABLES
  named,      \* the connection the map has under the name
  made,       \* connections made so far
  life,       \* what has become of each
  job, op,    \* the await of each operator, and what it was called for
  closes,     \* the connection it closes
  overlapped

upVars == <<named, made, life, job, op, closes, overlapped>>

UpInit ==
  /\ named = Unnamed /\ made = 0
  /\ life = [c \in Conns |-> "unmade"]
  /\ job = [o \in Operators |-> "idle"]
  /\ op = [o \in Operators |-> "add"]
  /\ closes = [o \in Operators |-> Unnamed]
  /\ overlapped = FALSE

UpTypeOK ==
  /\ named \in 0 .. MaxConns /\ made \in 0 .. MaxConns
  /\ life \in [Conns -> {"unmade", "connecting", "open", "failed", "closing", "closed"}]
  /\ job \in [Operators -> {"idle", "closing", "adding", "connecting", "failed"}]
  /\ op \in [Operators -> {"add", "remove", "update"}]
  /\ closes \in [Operators -> 0 .. MaxConns]
  /\ overlapped \in BOOLEAN

\* Mutant: the name is not looked up before it is given to a new connection.
Adds_Blindly(o) ==
  IF made = MaxConns
  THEN job' = [job EXCEPT ![o] = "failed"] /\ UNCHANGED <<named, made, life, closes>>
  ELSE /\ made' = made + 1 /\ named' = made + 1
       /\ life' = [life EXCEPT ![made + 1] = "connecting"]
       /\ job' = [job EXCEPT ![o] = "connecting"]
       /\ closes' = [closes EXCEPT ![o] = made + 1]

\* addUpstream(), addServer(): a malformed spec or a name that is taken throws.
Adds(o) ==
  \/ job' = [job EXCEPT ![o] = "failed"] /\ UNCHANGED <<named, made, life, closes>>
  \/ /\ named = Unnamed /\ made < MaxConns
     /\ made' = made + 1 /\ named' = made + 1
     /\ life' = [life EXCEPT ![made + 1] = "connecting"]
     /\ job' = [job EXCEPT ![o] = "connecting"]
     /\ closes' = [closes EXCEPT ![o] = made + 1]

\* removeUpstream(), removeServer() up to the close of what the map has; nothing is a no-op.
Removes(o, what) ==
  IF named = Unnamed
  THEN /\ job' = [job EXCEPT ![o] = IF what = "update" THEN "adding" ELSE "idle"]
       /\ UNCHANGED <<named, made, life, closes, overlapped>>
  ELSE /\ overlapped' = (overlapped \/ \E p \in Operators : job[p] = "closing")
       /\ life' = [life EXCEPT ![named] = IF @ = "closed" THEN @ ELSE "closing"]
       /\ job' = [job EXCEPT ![o] = "closing"]
       /\ closes' = [closes EXCEPT ![o] = named]
       /\ UNCHANGED <<named, made>>

UpCall(o, what) ==
  /\ job[o] \in {"idle", "failed"}
  /\ op' = [op EXCEPT ![o] = what]
  /\ IF what = "add" THEN Adds(o) /\ UNCHANGED overlapped ELSE Removes(o, what)

\* connect() has settled; a connection that fails keeps its name.
AddEnds(o) ==
  /\ job[o] = "connecting"
  /\ \E ok \in BOOLEAN :
       /\ job' = [job EXCEPT ![o] = IF ok THEN "idle" ELSE "failed"]
       /\ life' = [life EXCEPT ![closes[o]] =
            IF @ = "connecting" THEN (IF ok THEN "open" ELSE "failed") ELSE @]
  /\ UNCHANGED <<named, made, op, closes, overlapped>>

\* close() has settled: the name is deleted, whoever has it by now.
RemoveEnds(o) ==
  /\ job[o] = "closing"
  /\ named' = Unnamed
  /\ life' = [life EXCEPT ![closes[o]] = "closed"]
  /\ job' = [job EXCEPT ![o] = IF op[o] = "update" THEN "adding" ELSE "idle"]
  /\ UNCHANGED <<made, op, closes, overlapped>>

\* The list_changed of the removal are sent: an update goes on to add.
UpdateAdds(o) ==
  /\ job[o] = "adding"
  /\ Adds(o)
  /\ UNCHANGED <<op, overlapped>>

UpNext ==
  \E o \in Operators :
    \/ \E what \in {"add", "remove", "update"} : UpCall(o, what)
    \/ AddEnds(o) \/ RemoveEnds(o) \/ UpdateAdds(o)

UpSpec == UpInit /\ [][UpNext]_upVars

-----------------------------------------------------------------------------
(* Properties                                                              *)

Orphan(c) == life[c] \in {"connecting", "open"} /\ named # c

\* A connection that is open has its name, so that it can be closed, unless two removals of
\* the name have overlapped (client.ts:1031-1038).
OrphansNeedOverlap == (\E c \in Conns : Orphan(c)) => overlapped

\* updateUpstream() swaps one connection for another (mcp-gate/src/index.ts:32: "Atomic
\* remove+add"): no connection is left open behind the name's back.
UpdateIsAtomic == \A c \in Conns : ~Orphan(c)
=============================================================================
