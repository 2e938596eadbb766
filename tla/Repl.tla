-------------------------------- MODULE Repl --------------------------------
(***************************************************************************)
(* The interactive session of the command line: session(), dispatch() and  *)
(* runRepl() (cli/src/session.ts), which runs the lines of a terminal or   *)
(* of a pipe one after the other through a chain of promises.  readline is *)
(* external; it may still deliver lines of a chunk it has read after       *)
(* rl.close(), and none after the end of the input.                        *)
(* Bound: MaxLines lines.                                                  *)
(***************************************************************************)
EXTENDS Naturals, Sequences

CONSTANT MaxLines

ASSUME ReplAssumption == MaxLines \in Nat \ {0}

Verbs == {"", "command", "exit"}   \* an empty line, a command that may throw, exit or quit

VARIABLES
  lines,      \* lines that were delivered
  ran,        \* links of the chain that have run
  running,    \* the command that is awaited, 0 for none
  leaving,    \* closing: exit or quit has run
  ended,      \* closed: readline has closed
  upTo,       \* the end of the chain when it closed
  eof,        \* the input has ended
  resolved,   \* the promise of runRepl()
  client,     \* the connection of the session
  executed    \* the lines that were dispatched, in order

replVars == <<lines, ran, running, leaving, ended, upTo, eof, resolved, client, executed>>

ReplInit ==
  /\ lines = <<>> /\ ran = 0 /\ running = 0
  /\ leaving = FALSE /\ ended = FALSE /\ upTo = 0 /\ eof = FALSE
  /\ resolved = FALSE /\ client = "open"
  /\ executed = <<>>

ReplTypeOK ==
  /\ lines \in Seq(Verbs) /\ Len(lines) <= MaxLines
  /\ ran \in 0 .. MaxLines /\ running \in 0 .. MaxLines
  /\ leaving \in BOOLEAN /\ ended \in BOOLEAN /\ eof \in BOOLEAN
  /\ upTo \in 0 .. MaxLines
  /\ resolved \in BOOLEAN /\ client \in {"open", "closing", "closed"}
  /\ executed \in Seq(1 .. MaxLines)

Line(verb) ==
  /\ Len(lines) < MaxLines /\ ~eof
  /\ lines' = Append(lines, verb)
  /\ UNCHANGED <<ran, running, leaving, ended, upTo, eof, resolved, client, executed>>

\* The "close" event: the promise resolves when what is on the chain by now has run.
Closes ==
  IF ended THEN UNCHANGED <<ended, upTo>>
  ELSE ended' = TRUE /\ upTo' = Len(lines)

Eof ==
  /\ ~eof
  /\ eof' = TRUE
  /\ Closes
  /\ UNCHANGED <<lines, ran, running, leaving, resolved, client, executed>>

\* The next link of the chain.
NextLine ==
  /\ running = 0 /\ ran < Len(lines)
  /\ IF leaving \/ lines[ran + 1] = ""
     THEN ran' = ran + 1 /\ UNCHANGED <<running, leaving, ended, upTo, executed>>
     ELSE IF lines[ran + 1] = "exit"
     THEN /\ ran' = ran + 1 /\ leaving' = TRUE
          /\ executed' = Append(executed, ran + 1)
          /\ Closes
          /\ UNCHANGED running
     ELSE /\ running' = ran + 1
          /\ executed' = Append(executed, ran + 1)
          /\ UNCHANGED <<ran, leaving, ended, upTo>>
  /\ UNCHANGED <<lines, eof, resolved, client>>

\* The command has answered or thrown; both go on.
CommandEnds ==
  /\ running # 0
  /\ running' = 0 /\ ran' = ran + 1
  /\ UNCHANGED <<lines, leaving, ended, upTo, eof, resolved, client, executed>>

\* Mutant: the session is over as soon as readline has closed.
ChainDone_AtClose == ended

ChainDone == ended /\ ran >= upTo

Resolves ==
  /\ ~resolved /\ ChainDone
  /\ resolved' = TRUE
  /\ UNCHANGED <<lines, ran, running, leaving, ended, upTo, eof, client, executed>>

ClientCloses ==
  /\ resolved /\ client # "closed"
  /\ client' = IF client = "open" THEN "closing" ELSE "closed"
  /\ UNCHANGED <<lines, ran, running, leaving, ended, upTo, eof, resolved, executed>>

ReplNext ==
  (\E verb \in Verbs : Line(verb)) \/ Eof \/ NextLine \/ CommandEnds \/ Resolves \/ ClientCloses

ReplFairness == WF_replVars(NextLine \/ CommandEnds \/ Resolves \/ ClientCloses)
ReplSpec == ReplInit /\ [][ReplNext]_replVars /\ ReplFairness

-----------------------------------------------------------------------------
(* Properties                                                              *)

CommandsBefore(n) == {i \in 1 .. n : lines[i] # ""}
Executed == {executed[i] : i \in DOMAIN executed}

\* Commands run one at a time in the order they were typed, nothing runs after exit, and the
\* connection is not closed under a command: one that was piped in before the end of the input
\* has run by then (session.ts:134-138).
NothingCutShort ==
  /\ \A i, j \in DOMAIN executed : i < j => executed[i] < executed[j] /\ lines[executed[i]] # "exit"
  /\ client # "open" => /\ running = 0
                        /\ \/ leaving
                           \/ Executed = CommandsBefore(upTo)

\* A session whose input has ended closes its connection.
SessionEnds == ended ~> client = "closed"
=============================================================================
