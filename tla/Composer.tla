------------------------------ MODULE Composer ------------------------------
(***************************************************************************)
(* The screen around the draft in Composer (apps/composer/src: App.tsx,    *)
(* servers.ts, model.ts, components/ServerManager.tsx, ModelPicker.tsx,    *)
(* ToolPalette.tsx): the servers, listed here and dialled by the client;   *)
(* the models that the chosen backend has; and the thread, whose answers   *)
(* stream in.  The three parts share only a reload of the page.            *)
(***************************************************************************)
EXTENDS Naturals, Sequences

CONSTANTS
  ServerNames,  \* what a user calls the servers
  FirstServer,  \* the server of a list that is empty or was never saved
  Bases, DefaultBase, \* addresses of the local backend
  MaxMessages,  \* messages of a thread: a bound
  MaxDeltas     \* pieces of an answer: a bound

ASSUME FirstServerListed == FirstServer \in ServerNames

VARIABLES
  listed,     \* the servers shown, which an effect saves
  dialled, \* the connections of the client
  adding,     \* the names whose addServer awaits its connection
  leaving,    \* how many removeServer of the name await the close of its connection
  chosen,     \* the palette: the server and the server of the tool that are selected
  picker,     \* whether the picker is open, and the configuration that it edits
  installed,  \* whose models it suggests, and whether there are any
  lists,      \* the requests for the models in flight
  messages, reply, replies, \* the thread, the answer that streams, how many there have been
  twice  \* ghost: names removed a second time before the first removal ended

serverVars == <<listed, dialled, adding, leaving, chosen, twice>>
pickerVars == <<picker, installed, lists>>
threadVars == <<messages, reply, replies>>
composerVars == <<serverVars, pickerVars, threadVars>>

Unset == "nothing"
NoPalette == [server |-> Unset, tool |-> Unset]
NoReply == [id |-> 0, got |-> 0]
LoadServers(saved) == IF saved = {} THEN {FirstServer} ELSE saved

ComposerInit ==
  /\ listed = {FirstServer} /\ dialled = {FirstServer} /\ adding = {}
  /\ leaving = [n \in ServerNames |-> 0] /\ chosen = NoPalette /\ twice = {}
  /\ picker = [open |-> FALSE, local |-> TRUE, base |-> DefaultBase]
  /\ installed = [of |-> Unset, some |-> FALSE] /\ lists = {}
  /\ messages = <<>> /\ reply = NoReply /\ replies = 0

-----------------------------------------------------------------------------
(* The servers, and the palette that offers their tools *)

\* A name that is listed is refused; one that only the client has makes addServer throw.
AddServer(n) ==
  /\ adding = {} /\ n \notin listed
  /\ IF n \in dialled THEN UNCHANGED <<dialled, adding>>
     ELSE dialled' = dialled \cup {n} /\ adding' = {n}
  /\ UNCHANGED <<listed, leaving, chosen, twice, pickerVars, threadVars>>

\* A connection that fails goes on trying: the client keeps it, the list does not get it.
ServerAdded(n, fails) ==
  /\ n \in adding /\ adding' = {}
  /\ listed' = IF fails THEN listed ELSE listed \cup {n}
  /\ UNCHANGED <<dialled, leaving, chosen, twice, pickerVars, threadVars>>

RemoveServer(n) ==
  /\ n \in listed /\ leaving[n] < 2
  /\ IF n \in dialled
     THEN /\ leaving' = [leaving EXCEPT ![n] = @ + 1]
          /\ twice' = IF leaving[n] > 0 THEN twice \cup {n} ELSE twice
          /\ UNCHANGED listed
     ELSE listed' = listed \ {n} /\ UNCHANGED <<leaving, twice>>
  /\ UNCHANGED <<dialled, adding, chosen, pickerVars, threadVars>>

\* Mutant: the list keeps the row.
Delist_Never(n) == UNCHANGED listed
Delist(n) == listed' = listed \ {n}

ServerRemoved(n) ==
  /\ leaving[n] > 0 /\ leaving' = [leaving EXCEPT ![n] = @ - 1]
  /\ dialled' = dialled \ {n}
  /\ Delist(n)
  /\ UNCHANGED <<adding, chosen, twice, pickerVars, threadVars>>

OpenPalette ==
  /\ chosen = NoPalette
  /\ \E n \in listed : chosen' = [server |-> n, tool |-> Unset]
  /\ UNCHANGED <<listed, dialled, adding, leaving, twice, pickerVars, threadVars>>

PickServer(n) ==
  /\ chosen # NoPalette /\ n \in listed
  /\ chosen' = [server |-> n, tool |-> Unset]
  /\ UNCHANGED <<listed, dialled, adding, leaving, twice, pickerVars, threadVars>>

\* The tools are those of the server's connection: none when that is gone.
PickTool ==
  /\ chosen # NoPalette /\ chosen.server \in dialled
  /\ chosen' = [chosen EXCEPT !.tool = chosen.server]
  /\ UNCHANGED <<listed, dialled, adding, leaving, twice, pickerVars, threadVars>>

ClosePalette ==
  /\ chosen # NoPalette /\ chosen' = NoPalette
  /\ UNCHANGED <<listed, dialled, adding, leaving, twice, pickerVars, threadVars>>

-----------------------------------------------------------------------------
(* The picker of the model.  The effect runs when what it depends on changes: it cancels the
   request before and, for the local backend, makes another. *)

CancelLists == {[l EXCEPT !.cancelled = TRUE] : l \in lists}

Configured(next) ==
  /\ next # picker /\ picker' = next
  /\ IF next.open /\ next.local
     THEN /\ installed' = [of |-> Unset, some |-> FALSE]
          /\ lists' = CancelLists \cup {[of |-> next.base, cancelled |-> FALSE]}
     ELSE lists' = CancelLists /\ UNCHANGED installed
  /\ UNCHANGED <<serverVars, threadVars>>

TogglePicker == Configured([picker EXCEPT !.open = ~@])
PickProvider == picker.open /\ Configured([picker EXCEPT !.local = ~@])
EditBase(b) == picker.open /\ picker.local /\ Configured([picker EXCEPT !.base = b])

\* An answer that is late is dropped; a request that fails found no models.
ModelsArrive(l, some) ==
  /\ l \in lists /\ lists' = lists \ {l}
  /\ installed' = IF l.cancelled THEN installed ELSE [of |-> l.of, some |-> some]
  /\ UNCHANGED <<picker, serverVars, threadVars>>

-----------------------------------------------------------------------------
(* The thread *)

Said(id, role) ==
  [id |-> id, role |-> role, text |-> 0, streaming |-> role = "assistant", error |-> FALSE]

\* The message that the answer is written to.
IsReply(m) == m.id = reply.id /\ m.role = "assistant"

Ask ==
  /\ reply = NoReply /\ Len(messages) + 2 <= MaxMessages /\ replies < MaxMessages
  /\ replies' = replies + 1
  /\ messages' = messages \o <<Said(replies + 1, "user"), Said(replies + 1, "assistant")>>
  /\ reply' = [id |-> replies + 1, got |-> 0]
  /\ UNCHANGED <<serverVars, pickerVars>>

Delta ==
  /\ reply # NoReply /\ reply.got < MaxDeltas
  /\ reply' = [reply EXCEPT !.got = @ + 1]
  /\ messages' = [i \in DOMAIN messages |->
       IF IsReply(messages[i]) THEN [messages[i] EXCEPT !.text = reply.got + 1] ELSE messages[i]]
  /\ UNCHANGED <<replies, serverVars, pickerVars>>

\* What has come of an answer that fails is kept, with the error.
AnswerEnds(fails) ==
  /\ reply # NoReply
  /\ reply' = NoReply
  /\ messages' = [i \in DOMAIN messages |->
       IF IsReply(messages[i]) THEN [messages[i] EXCEPT !.streaming = FALSE, !.error = fails]
       ELSE messages[i]]
  /\ UNCHANGED <<replies, serverVars, pickerVars>>

ClearThread ==
  /\ messages # <<>> /\ messages' = <<>>
  /\ UNCHANGED <<reply, replies, serverVars, pickerVars>>

-----------------------------------------------------------------------------
\* What was saved comes back, and a list that was emptied comes back with the first server.
Reload ==
  /\ listed' = LoadServers(listed) /\ dialled' = LoadServers(listed)
  /\ adding' = {} /\ leaving' = [n \in ServerNames |-> 0] /\ twice' = {}
  /\ chosen' = NoPalette
  /\ picker' = [picker EXCEPT !.open = FALSE]
  /\ installed' = [of |-> Unset, some |-> FALSE] /\ lists' = {}
  /\ messages' = <<>> /\ reply' = NoReply /\ UNCHANGED replies

ServersNext ==
  \/ \E n \in ServerNames : \/ AddServer(n) \/ RemoveServer(n) \/ ServerRemoved(n) \/ PickServer(n)
                            \/ \E fails \in BOOLEAN : ServerAdded(n, fails)
  \/ OpenPalette \/ PickTool \/ ClosePalette \/ Reload
PickerNext ==
  \/ TogglePicker \/ PickProvider \/ \E b \in Bases : EditBase(b)
  \/ \E l \in lists, some \in BOOLEAN : ModelsArrive(l, some)
  \/ Reload
ThreadNext == Ask \/ Delta \/ ClearThread \/ Reload \/ \E fails \in BOOLEAN : AnswerEnds(fails)

ComposerNext == ServersNext \/ PickerNext \/ ThreadNext
ComposerSpec == ComposerInit /\ [][ComposerNext]_composerVars

-----------------------------------------------------------------------------
(* Properties *)

\* A server that is listed is one that the client has, until it leaves both; two removals of
\* one name that overlap are the exception: the second takes a server that was added under
\* the name in between.
ListedIsServed == listed \subseteq dialled \cup twice

\* The models that the picker suggests, or misses, are those of the address that it shows,
\* however late the list of another address comes.
ModelsAreOfBase ==
  picker.open /\ picker.local => installed.of \in {Unset, picker.base}

\* A message is marked as streaming exactly while its answer is, and has all that came of it:
\* neither an error nor a new chat leaves the mark behind or gives the text to another message.
ThreadIsTrue ==
  \A i \in DOMAIN messages :
    LET m == messages[i] IN
      m.role = "assistant" => /\ m.streaming <=> (reply # NoReply /\ m.id = reply.id)
                              /\ m.streaming => m.text = reply.got

\* The screen of Composer tells the truth about what is behind it.
ComposerIsTrue == ListedIsServed /\ ModelsAreOfBase /\ ThreadIsTrue
=============================================================================
