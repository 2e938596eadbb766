------------------------------ MODULE LiveFile ------------------------------
(***************************************************************************)
(* An open note of the notebook (apps/notebook/src: useLiveFile of         *)
(* hooks.ts, Viewer of main.tsx).  The server has no subscriptions, so the *)
(* file is read again on an interval; a read gives up the one before it    *)
(* (useTool).  A save shows the new text at once, and the old one again    *)
(* when it fails.  Others write the file too.  A text is a number.         *)
(***************************************************************************)
EXTENDS Naturals

CONSTANTS
  MaxTurns,   \* what people do, typing, saving and writing by others: a bound
  MaxSlips    \* calls that fail: a bound

VARIABLES
  opened,     \* the file has been opened
  onDisk,     \* the text of the file
  content,    \* the text on the screen
  lastText,   \* lastRef: the text that the screen is taken to have
  editor,     \* mode and draft of the Viewer
  saving,     \* the write in flight, with what to go back to
  reading,    \* the read in flight
  turns,      \* how often people have done something
  slips       \* how many calls have failed

liveVars == <<opened, onDisk, content, lastText, editor, saving, reading, turns, slips>>

NoText == 0
NoRead == [at |-> "idle", text |-> NoText]
NoSave == [at |-> "idle", text |-> NoText, previous |-> NoText]

LiveInit ==
  /\ opened = FALSE /\ onDisk = 1 /\ turns = 1 /\ slips = 0
  /\ content = NoText /\ lastText = NoText
  /\ editor = [mode |-> "render", draft |-> NoText]
  /\ saving = NoSave
  /\ reading = NoRead

-----------------------------------------------------------------------------
(* Reading *)

\* The answer of an earlier read is not wanted any more (useTool aborts it).
Refetch == reading' = [at |-> "sent", text |-> NoText]

Open ==
  /\ ~opened /\ opened' = TRUE
  /\ Refetch
  /\ UNCHANGED <<onDisk, content, lastText, editor, saving, turns, slips>>

Poll ==
  /\ opened /\ Refetch
  /\ UNCHANGED <<opened, onDisk, content, lastText, editor, saving, turns, slips>>

ServerReads ==
  /\ reading.at = "sent"
  /\ reading' = [at |-> "read", text |-> onDisk]
  /\ UNCHANGED <<opened, onDisk, content, lastText, editor, saving, turns, slips>>

\* The screen changes only when the text is another than the last.
TextArrives ==
  /\ reading.at = "read"
  /\ reading' = NoRead
  /\ lastText' = reading.text
  /\ content' = IF reading.text = lastText THEN content ELSE reading.text
  /\ UNCHANGED <<opened, onDisk, editor, saving, turns, slips>>

ReadLost ==
  /\ reading.at # "idle" /\ slips < MaxSlips
  /\ slips' = slips + 1
  /\ reading' = NoRead
  /\ UNCHANGED <<opened, onDisk, content, lastText, editor, saving, turns>>

-----------------------------------------------------------------------------
(* Editing and saving *)

StartEdit ==
  /\ opened
  /\ editor' = [mode |-> "edit", draft |-> content]
  /\ UNCHANGED <<opened, onDisk, content, lastText, saving, reading, turns, slips>>

Type ==
  /\ editor.mode = "edit" /\ turns < MaxTurns
  /\ turns' = turns + 1
  /\ editor' = [editor EXCEPT !.draft = turns + 1]
  /\ UNCHANGED <<opened, onDisk, content, lastText, saving, reading, slips>>

Leave ==
  /\ editor.mode = "edit"
  /\ editor' = [editor EXCEPT !.mode = "render"]
  /\ UNCHANGED <<opened, onDisk, content, lastText, saving, reading, turns, slips>>

SetOptimistic(text) == lastText' = text /\ content' = text

Rollback_ShownOnly(previous) == lastText' = lastText /\ content' = previous
Rollback(previous) == lastText' = previous /\ content' = previous

Save ==
  /\ editor.mode = "edit" /\ saving.at = "idle" /\ turns < MaxTurns
  /\ turns' = turns + 1
  /\ saving' = [at |-> "sent", text |-> editor.draft, previous |-> content]
  /\ editor' = [editor EXCEPT !.mode = "render"]
  /\ SetOptimistic(editor.draft)
  /\ UNCHANGED <<opened, onDisk, reading, slips>>

\* The server writes the file, or refuses in its answer (isError), which nobody looks at.
ServerWrites ==
  /\ saving.at = "sent"
  /\ saving' = [saving EXCEPT !.at = "answered"]
  /\ onDisk' \in {onDisk, saving.text}
  /\ UNCHANGED <<opened, content, lastText, editor, reading, turns, slips>>

SaveReturns ==
  /\ saving.at = "answered"
  /\ saving' = NoSave
  /\ Refetch
  /\ UNCHANGED <<opened, onDisk, content, lastText, editor, turns, slips>>

\* The write fails, or its answer is lost when the file has been written.
SaveThrows ==
  /\ saving.at # "idle" /\ slips < MaxSlips
  /\ slips' = slips + 1
  /\ Rollback(saving.previous)
  /\ editor' = [mode |-> "edit", draft |-> saving.text]
  /\ saving' = NoSave
  /\ UNCHANGED <<opened, onDisk, reading, turns>>

OtherWrites ==
  /\ turns < MaxTurns
  /\ turns' = turns + 1
  /\ onDisk' = turns + 1
  /\ UNCHANGED <<opened, content, lastText, editor, saving, reading, slips>>

LiveNext ==
  \/ Open \/ Poll \/ ServerReads \/ TextArrives \/ ReadLost
  \/ StartEdit \/ Type \/ Leave \/ Save \/ ServerWrites \/ SaveReturns \/ SaveThrows \/ OtherWrites

\* The interval goes on, the server answers, and once in a while within the interval.
LiveFairness ==
  /\ WF_liveVars(Poll) /\ SF_liveVars(ServerReads) /\ SF_liveVars(TextArrives)
  /\ WF_liveVars(ServerWrites) /\ WF_liveVars(SaveReturns)

LiveSpec == LiveInit /\ [][LiveNext]_liveVars /\ LiveFairness

-----------------------------------------------------------------------------
(* Properties *)

\* However saves, failures and reads interleave, the screen comes back to what the file says
\* ("Live-synced with disk", main.tsx:138): the comparison with lastRef never leaves another
\* text on it for good.
ShowsTheDisk == <>[](opened => content = onDisk)
=============================================================================
