----------------------------- MODULE MCClients -----------------------------
(***************************************************************************)
(* The machines on the client's side that do not act on one another: the   *)
(* sessions of a multi-tenant host, the hooks, a payment, the bridge to    *)
(* TanStack Query, the upstreams of a live gate, the check of a server's   *)
(* contract, the file of credentials, a recording and its replay, the      *)
(* tools of a web page; and of the example apps the draft and the screen   *)
(* of Composer and the activity stream.  A behaviour is a behaviour of the *)
(* one that focus names; the others stay in an initial state.              *)
(***************************************************************************)
EXTENDS Sessions, AppHost, Hooks, PayAndRetry, Mirror, Upstreams, TokenCache, RecordReplay,
        WebBridge, LiveFile, ProxyLink, Draft, Activity, Composer

VARIABLE focus

pageVars == <<appVars, liveVars, linkVars>>
screenVars == <<draftVars, activityVars, composerVars>>
libraryVars == <<sessionVars, hookVars, payVars, mirrorVars, upVars,
                 tokenVars, recordVars, webVars>>
vars == <<focus, libraryVars, pageVars, screenVars>>

-----------------------------------------------------------------------------
FirstHook == HooksInit /\ hook = "useTool"
FirstOperation ==
  PayInit /\ operation = [kind |-> "read", readOnly |-> TRUE, enabled |-> TRUE, gate |-> TRUE]

MCInit ==
  /\ focus \in {"sessions", "hooks", "payment", "mirror", "upstreams", "app", "note",
              "link", "tokens", "recording", "page", "draft", "activity",
              "servers", "picker", "thread"}
  /\ SessionsInit /\ MirrorInit /\ UpInit
  /\ AppInit /\ LiveInit /\ LinkInit
  /\ TokenInit /\ RecordInit
  /\ DraftInit /\ ActivityInit /\ ComposerInit
  /\ WebInit /\ (focus # "page" => tools = {})
  /\ \/ focus \notin {"hooks", "payment"} /\ FirstHook /\ FirstOperation
     \/ focus = "hooks" /\ HooksInit /\ FirstOperation
     \/ focus = "payment" /\ FirstHook /\ PayInit

SessionsStep ==
  /\ focus = "sessions" /\ SessionsNext
  /\ UNCHANGED <<focus, hookVars, payVars, mirrorVars, upVars,
                 tokenVars, recordVars, webVars, pageVars, screenVars>>

HooksStep ==
  /\ focus = "hooks" /\ HooksNext
  /\ UNCHANGED <<focus, sessionVars, payVars, mirrorVars, upVars,
                 tokenVars, recordVars, webVars, pageVars, screenVars>>

PayStep ==
  /\ focus = "payment" /\ PayNext
  /\ UNCHANGED <<focus, sessionVars, hookVars, mirrorVars, upVars,
                 tokenVars, recordVars, webVars, pageVars, screenVars>>

MirrorStep ==
  /\ focus = "mirror" /\ MirrorNext
  /\ UNCHANGED <<focus, sessionVars, hookVars, payVars, upVars,
                 tokenVars, recordVars, webVars, pageVars, screenVars>>

UpStep ==
  /\ focus = "upstreams" /\ UpNext
  /\ UNCHANGED <<focus, sessionVars, hookVars, payVars, mirrorVars,
                 tokenVars, recordVars, webVars, pageVars, screenVars>>

TokenStep ==
  /\ focus = "tokens" /\ TokenNext
  /\ UNCHANGED <<focus, sessionVars, hookVars, payVars, mirrorVars, upVars,
                 recordVars, webVars, pageVars, screenVars>>

RecordStep ==
  /\ focus = "recording" /\ RecordNext
  /\ UNCHANGED <<focus, sessionVars, hookVars, payVars, mirrorVars, upVars,
                 tokenVars, webVars, pageVars, screenVars>>

WebStep ==
  /\ focus = "page" /\ WebNext
  /\ UNCHANGED <<focus, sessionVars, hookVars, payVars, mirrorVars, upVars,
                 tokenVars, recordVars, pageVars, screenVars>>

AppStep ==
  /\ focus = "app" /\ AppNext
  /\ UNCHANGED <<focus, libraryVars, liveVars, linkVars, screenVars>>

NoteStep ==
  /\ focus = "note" /\ LiveNext
  /\ UNCHANGED <<focus, libraryVars, appVars, linkVars, screenVars>>

LinkStep ==
  /\ focus = "link" /\ LinkNext
  /\ UNCHANGED <<focus, libraryVars, appVars, liveVars, screenVars>>

DraftStep ==
  /\ focus = "draft" /\ DraftNext
  /\ UNCHANGED <<focus, libraryVars, pageVars, activityVars, composerVars>>

ActivityStep ==
  /\ focus = "activity" /\ ActivityNext
  /\ UNCHANGED <<focus, libraryVars, pageVars, draftVars, composerVars>>

ComposerStep ==
  /\ \/ focus = "servers" /\ ServersNext
     \/ focus = "picker" /\ PickerNext
     \/ focus = "thread" /\ ThreadNext
  /\ UNCHANGED <<focus, libraryVars, pageVars, draftVars, activityVars>>

MCNext ==
  \/ SessionsStep \/ HooksStep \/ PayStep \/ MirrorStep \/ UpStep
  \/ AppStep \/ NoteStep \/ LinkStep \/ TokenStep \/ RecordStep \/ WebStep
  \/ DraftStep \/ ActivityStep \/ ComposerStep

MCSpec == MCInit /\ [][MCNext]_vars /\ AppFairness /\ LiveFairness /\ LinkFairness
=============================================================================
