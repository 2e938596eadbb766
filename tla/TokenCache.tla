----------------------------- MODULE TokenCache -----------------------------
(***************************************************************************)
(* The OAuth credentials of a host, which several command-line processes   *)
(* share through one file: class FileOAuthProvider, readCacheState() and   *)
(* authenticate() (mcp-contract/src/oauth.ts).  Each process copies the    *)
(* file when it makes its provider and writes its whole copy back.         *)
(*                                                                         *)
(* An authorization server (an issuer) rotates: of its tokens only the     *)
(* last it gave, number n, is worth anything.  The ghosts: concurrent, two *)
(* providers have existed at a time; lost, a process died between the      *)
(* answer of an issuer and the end of the write.                           *)
(* Bound: MaxTokens tokens of each issuer.                                 *)
(***************************************************************************)
EXTENDS Naturals

CONSTANTS Procs, Issuers, MaxTokens

ASSUME TokenAssumption == MaxTokens \in Nat \ {0}

NoToken == 0

\* CacheState.byIssuer.
CacheType == [Issuers -> 0 .. MaxTokens]
NoTokens == [i \in Issuers |-> NoToken]

VARIABLES
  cacheFile, torn,   \* what the file says, and whether a write of it was cut short
  mem,          \* the copy of each process
  proc,         \* where each is
  flow,         \* the issuer it is asking
  issued,       \* the last token of each issuer
  concurrent, lost

tokenVars == <<cacheFile, torn, mem, proc, flow, issued, concurrent, lost>>

TokenInit ==
  /\ cacheFile = NoTokens /\ torn = FALSE
  /\ mem = [p \in Procs |-> NoTokens]
  /\ proc = [p \in Procs |-> "off"]
  /\ flow = [p \in Procs |-> "none"]
  /\ issued = [i \in Issuers |-> NoToken]
  /\ concurrent = FALSE /\ lost = FALSE

TokenTypeOK ==
  /\ cacheFile \in CacheType /\ torn \in BOOLEAN
  /\ mem \in [Procs -> CacheType]
  /\ proc \in [Procs -> {"off", "on", "asking", "answered", "writing"}]
  /\ flow \in [Procs -> Issuers \cup {"none"}]
  /\ issued \in [Issuers -> 0 .. MaxTokens]
  /\ concurrent \in BOOLEAN /\ lost \in BOOLEAN

\* The constructor; a torn file does not parse and throws.
Construct(p) ==
  /\ proc[p] = "off" /\ ~torn
  /\ proc' = [proc EXCEPT ![p] = "on"]
  /\ mem' = [mem EXCEPT ![p] = cacheFile]
  /\ concurrent' = (concurrent \/ \E q \in Procs : proc[q] # "off")
  /\ UNCHANGED <<cacheFile, torn, flow, issued, lost>>

\* A process that has nothing under way ends.
Exit(p) ==
  /\ proc[p] = "on"
  /\ proc' = [proc EXCEPT ![p] = "off"]
  /\ UNCHANGED <<cacheFile, torn, mem, flow, issued, concurrent, lost>>

\* A request is refused: the SDK refreshes with the tokens of the issuer, if there are any,
\* or the person is sent to consent.
AsksIssuer(p, i) ==
  /\ proc[p] = "on" /\ issued[i] < MaxTokens
  /\ proc' = [proc EXCEPT ![p] = "asking"]
  /\ flow' = [flow EXCEPT ![p] = i]
  /\ UNCHANGED <<cacheFile, torn, mem, issued, concurrent, lost>>

\* The issuer refuses a refresh token that is not its last, or the flow is abandoned.
Refused(p) ==
  /\ proc[p] = "asking"
  /\ proc' = [proc EXCEPT ![p] = "on"]
  /\ UNCHANGED <<cacheFile, torn, mem, flow, issued, concurrent, lost>>

\* A refresh needs the last token; a consent needs none.
Issues(p, consent) ==
  /\ proc[p] = "asking"
  /\ issued[flow[p]] < MaxTokens
  /\ consent \/ mem[p][flow[p]] = issued[flow[p]]
  /\ issued' = [issued EXCEPT ![flow[p]] = @ + 1]
  /\ proc' = [proc EXCEPT ![p] = "answered"]
  /\ UNCHANGED <<cacheFile, torn, mem, flow, concurrent, lost>>

\* Mutant: only the entry that is saved is kept.
Saved_Alone(c, i, n) == [NoTokens EXCEPT ![i] = n]

\* saveTokens(), in the copy.
Saved(c, i, n) == [c EXCEPT ![i] = n]

\* persist() truncates the file ...
Saves(p) ==
  /\ proc[p] = "answered"
  /\ mem' = [mem EXCEPT ![p] = Saved(@, flow[p], issued[flow[p]])]
  /\ torn' = TRUE
  /\ proc' = [proc EXCEPT ![p] = "writing"]
  /\ UNCHANGED <<cacheFile, flow, issued, concurrent, lost>>

\* ... and writes the whole copy.
Written(p) ==
  /\ proc[p] = "writing"
  /\ cacheFile' = mem[p] /\ torn' = FALSE
  /\ proc' = [proc EXCEPT ![p] = "on"]
  /\ UNCHANGED <<mem, flow, issued, concurrent, lost>>

ProcKilled(p) ==
  /\ proc[p] \in {"asking", "answered", "writing"}
  /\ proc' = [proc EXCEPT ![p] = "off"]
  /\ lost' = (lost \/ proc[p] # "asking")
  /\ UNCHANGED <<cacheFile, torn, mem, flow, issued, concurrent>>

TokenNext ==
  \E p \in Procs :
    \/ Construct(p) \/ Exit(p) \/ Refused(p) \/ Saves(p) \/ Written(p) \/ ProcKilled(p)
    \/ \E i \in Issuers : AsksIssuer(p, i)
    \/ \E consent \in BOOLEAN : Issues(p, consent)

TokenSpec == TokenInit /\ [][TokenNext]_tokenVars

-----------------------------------------------------------------------------
(* Properties                                                              *)

\* When no process has a token under way the file can be read and has the last token of every
\* issuer: a login is not lost, unless two processes concurrent (each writes over what the
\* other saved) or one was killed before its write had ended (oauth.ts:123-180).
FileHasLastTokens ==
  (~concurrent /\ ~lost /\ \A p \in Procs : proc[p] \in {"off", "on"}) =>
    ~torn /\ cacheFile = issued
=============================================================================
