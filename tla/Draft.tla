-------------------------------- MODULE Draft --------------------------------
(***************************************************************************)
(* The message that a user of Composer puts together (apps/composer/src:   *)
(* draft.ts, App.tsx, components/Composer.tsx, ToolPalette.tsx and         *)
(* BlockView.tsx): text, and the results of tools, which arrive when they  *)
(* do.  A handler sees the draft as it was rendered when it began.         *)
(***************************************************************************)
EXTENDS Naturals, SequencesExt

CONSTANTS
  PaletteRuns,  \* runs of the palette that can be in flight together: a bound
  MaxIds,       \* blocks there will ever be: a bound
  MaxKeys       \* keystrokes: a bound

VARIABLES
  blocks,     \* the draft
  palette,    \* the runs in flight, with the text block that insertBlock had seen
  reruns,     \* the blocks whose call is in flight again
  busy,       \* a reply is being streamed
  sentBlocks, \* the blocks of the last message
  ids, keystrokes,  \* how many of each there have been
  unsent      \* ghost: the keystrokes since the last Send or New chat

draftVars == <<blocks, palette, reruns, busy, sentBlocks, ids, keystrokes, unsent>>

Text(id, typed) == [id |-> id, kind |-> "text", typed |-> typed, result |-> FALSE,
                    error |-> FALSE, running |-> FALSE]
Grounded(id) == [id |-> id, kind |-> "tool", typed |-> {}, result |-> TRUE, error |-> FALSE,
                 running |-> FALSE]
NoRun == [at |-> "idle", seen |-> Text(0, {})]

\* The last text block; the draft has one at all times.
TrailingText == blocks[SelectLastInSeq(blocks, LAMBDA b : b.kind = "text")]

\* The effect of Composer: there is always a text block at the end.
Clear ==
  /\ ids + 2 <= MaxIds
  /\ ids' = ids + 1
  /\ blocks' = <<Text(ids + 1, {})>>
  /\ unsent' = {}

\* One block at most has the id.
Without(id) == RemoveFirstMatch(blocks, LAMBDA b : b.id = id)
HasContent ==
  \E i \in DOMAIN blocks : blocks[i].typed # {} \/ blocks[i].result \/ blocks[i].error

DraftInit ==
  /\ blocks = <<Text(1, {})>> /\ ids = 1 /\ keystrokes = 0 /\ unsent = {}
  /\ palette = [p \in PaletteRuns |-> NoRun] /\ reruns = {}
  /\ busy = FALSE /\ sentBlocks = <<>>

-----------------------------------------------------------------------------
TypeKey ==
  /\ keystrokes < MaxKeys
  /\ keystrokes' = keystrokes + 1
  /\ blocks' = [i \in DOMAIN blocks |->
       IF blocks[i].id = TrailingText.id
       THEN [blocks[i] EXCEPT !.typed = @ \cup {keystrokes + 1}] ELSE blocks[i]]
  /\ unsent' = unsent \cup {keystrokes + 1}
  /\ UNCHANGED <<palette, reruns, busy, sentBlocks, ids>>

\* The palette can be closed while the tool runs; the run goes on.
RunTool(p) ==
  /\ palette[p].at = "idle" /\ ids < MaxIds
  /\ palette' = [palette EXCEPT ![p] = [at |-> "running", seen |-> TrailingText]]
  /\ UNCHANGED <<blocks, reruns, busy, sentBlocks, ids, keystrokes, unsent>>

\* insertBlock: the text block as it was when the run began goes to the end.
ToolReturns(p) ==
  /\ palette[p].at = "running" /\ ids < MaxIds
  /\ ids' = ids + 1
  /\ blocks' = Without(palette[p].seen.id) \o <<Grounded(ids + 1), palette[p].seen>>
  /\ palette' = [palette EXCEPT ![p] = NoRun]
  /\ UNCHANGED <<reruns, busy, sentBlocks, keystrokes, unsent>>

ToolFails(p) ==
  /\ palette[p].at = "running"
  /\ palette' = [palette EXCEPT ![p] = NoRun]
  /\ UNCHANGED <<blocks, reruns, busy, sentBlocks, ids, keystrokes, unsent>>

\* Mutant: the result of the run before is dropped.
Running_Clears(b) == [b EXCEPT !.running = TRUE, !.error = FALSE, !.result = FALSE]
Running(b) == [b EXCEPT !.running = TRUE, !.error = FALSE]
Ended(b, fails) == [b EXCEPT !.running = FALSE, !.error = fails, !.result = @ \/ ~fails]

Rerun(id) ==
  /\ \E i \in DOMAIN blocks : /\ blocks[i].id = id /\ blocks[i].kind = "tool"
                              /\ ~blocks[i].running
  /\ blocks' = [i \in DOMAIN blocks |->
       IF blocks[i].id = id THEN Running(blocks[i]) ELSE blocks[i]]
  /\ reruns' = reruns \cup {id}
  /\ UNCHANGED <<palette, busy, sentBlocks, ids, keystrokes, unsent>>

\* The patch finds no block when that has been removed or sent.
RerunEnds(id, fails) ==
  /\ id \in reruns
  /\ reruns' = reruns \ {id}
  /\ blocks' = [i \in DOMAIN blocks |->
       IF blocks[i].id = id THEN Ended(blocks[i], fails) ELSE blocks[i]]
  /\ UNCHANGED <<palette, busy, sentBlocks, ids, keystrokes, unsent>>

RemoveBlock(id) ==
  /\ \E i \in DOMAIN blocks : blocks[i].id = id /\ blocks[i].kind = "tool"
  /\ blocks' = Without(id)
  /\ UNCHANGED <<palette, reruns, busy, sentBlocks, ids, keystrokes, unsent>>

Send ==
  /\ HasContent /\ ~busy
  /\ busy' = TRUE
  /\ sentBlocks' = blocks
  /\ Clear
  /\ UNCHANGED <<palette, reruns, keystrokes>>

ReplyEnds ==
  /\ busy /\ busy' = FALSE
  /\ UNCHANGED <<blocks, palette, reruns, sentBlocks, ids, keystrokes, unsent>>

NewChat ==
  /\ Clear
  /\ sentBlocks' = <<>>
  /\ UNCHANGED <<palette, reruns, busy, keystrokes>>

DraftNext ==
  \/ TypeKey \/ Send \/ ReplyEnds \/ NewChat
  \/ \E p \in PaletteRuns : RunTool(p) \/ ToolReturns(p) \/ ToolFails(p)
  \/ \E id \in 1 .. MaxIds : \/ Rerun(id) \/ RemoveBlock(id)
                             \/ \E fails \in BOOLEAN : RerunEnds(id, fails)

DraftSpec == DraftInit /\ [][DraftNext]_draftVars

-----------------------------------------------------------------------------
(* Properties *)

\* A block that is sent says what its tool answered or why it failed, also when it goes while
\* the call is being made again: a message never says "(not run)".
SentIsGrounded ==
  \A i \in DOMAIN sentBlocks :
    sentBlocks[i].kind = "tool" => sentBlocks[i].result \/ sentBlocks[i].error

\* What insertBlock says of itself (components/Composer.tsx:47): the text that the user types
\* stays in the draft until it is sent.
TypedTextIsKept == unsent \subseteq UNION {blocks[i].typed : i \in DOMAIN blocks}
=============================================================================
