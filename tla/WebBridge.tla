----------------------------- MODULE WebBridge -----------------------------
(***************************************************************************)
(* bridgeToWebMCP() (mcp-query/src/webmcp/index.ts): the tools of a server *)
(* as tools of a web page's modelContext, which is external.  Its          *)
(* registerTool() settles later and is refused if the name is taken, by    *)
(* this bridge or by another script of the page; an abort of the signal    *)
(* takes the registration back, whether or not it has settled.             *)
(* Bound: MaxSyncs changes of the catalog and of the page.                 *)
(***************************************************************************)
EXTENDS Naturals

CONSTANTS ToolNames, MaxSyncs

ASSUME WebAssumption == MaxSyncs \in Nat \ {0}

VARIABLES
  tools,       \* the tools the client has listed, as the bridge exposes them
  registered,  \* the names the bridge has a controller for
  asking,      \* names whose registerTool() has not settled
  page,        \* the names of the page's tools: whose they are
  bridge,      \* the bridge has not been stopped
  executing,   \* names whose execute() waits for confirm() or for the server
  syncs,
  clashed      \* ghost: another script has had a name of the catalog

webVars == <<tools, registered, asking, page, bridge, executing, syncs, clashed>>

\* sync(): the tools that went are aborted, the new ones are registered.
Sync(desired) ==
  /\ page' = [n \in ToolNames |->
       IF n \in registered \ desired /\ page[n] = "bridge" THEN "nobody" ELSE page[n]]
  /\ asking' = (asking \cap desired) \cup (desired \ registered)
  /\ registered' = desired

WebInit ==
  /\ tools \in SUBSET ToolNames
  /\ registered = tools /\ asking = tools
  /\ page = [n \in ToolNames |-> "nobody"]
  /\ bridge = TRUE /\ executing = {} /\ syncs = 0 /\ clashed = FALSE

WebTypeOK ==
  /\ tools \subseteq ToolNames /\ registered \subseteq ToolNames /\ asking \subseteq ToolNames
  /\ page \in [ToolNames -> {"nobody", "bridge", "other"}]
  /\ bridge \in BOOLEAN /\ executing \subseteq ToolNames
  /\ syncs \in 0 .. MaxSyncs /\ clashed \in BOOLEAN

\* Mutant: a listing only adds.
Synced_OnlyAdds(desired) == Sync(registered \cup desired)

Synced(desired) == Sync(desired)

\* tools/list_changed: the catalog is read again and written to the cache, which calls sync().
CatalogRead(desired) ==
  /\ syncs < MaxSyncs /\ desired # tools
  /\ syncs' = syncs + 1
  /\ tools' = desired
  /\ IF bridge THEN Synced(desired) ELSE UNCHANGED <<registered, asking, page>>
  /\ UNCHANGED <<bridge, executing, clashed>>

\* registerTool() settles; a rejection is swallowed, and the name keeps its controller.
RegisterSettles(n) ==
  /\ n \in asking
  /\ asking' = asking \ {n}
  /\ page' = [page EXCEPT ![n] = IF @ = "nobody" THEN "bridge" ELSE @]
  /\ UNCHANGED <<tools, registered, bridge, executing, syncs, clashed>>

\* Another script of the page takes a name that is free, or gives its own back.
OtherScript(n) ==
  /\ syncs < MaxSyncs /\ page[n] # "bridge"
  /\ syncs' = syncs + 1
  /\ page' = [page EXCEPT ![n] = IF @ = "nobody" THEN "other" ELSE "nobody"]
  /\ clashed' = TRUE
  /\ UNCHANGED <<tools, registered, asking, bridge, executing>>

\* The page's agent calls a tool of the bridge; it ends whether or not the tool is still there.
Execute(n) ==
  \/ /\ page[n] = "bridge" /\ n \notin executing
     /\ executing' = executing \cup {n}
     /\ UNCHANGED <<tools, registered, asking, page, bridge, syncs, clashed>>
  \/ /\ n \in executing
     /\ executing' = executing \ {n}
     /\ UNCHANGED <<tools, registered, asking, page, bridge, syncs, clashed>>

Stop ==
  /\ bridge
  /\ bridge' = FALSE
  /\ page' = [n \in ToolNames |->
       IF n \in registered /\ page[n] = "bridge" THEN "nobody" ELSE page[n]]
  /\ registered' = {} /\ asking' = {}
  /\ UNCHANGED <<tools, executing, syncs, clashed>>

WebNext ==
  \/ Stop
  \/ \E desired \in SUBSET ToolNames : CatalogRead(desired)
  \/ \E n \in ToolNames : RegisterSettles(n) \/ OtherScript(n) \/ Execute(n)

WebSpec == WebInit /\ [][WebNext]_webVars

-----------------------------------------------------------------------------
(* Properties                                                              *)

\* The page has a tool of the bridge for every tool of the catalog whose registration has
\* settled, unless another script has used names of the page, and for no other: none after
\* the tool has gone or the bridge is stopped (webmcp/index.ts:123-127).
PageHasCatalog ==
  /\ {n \in ToolNames : page[n] = "bridge"} \subseteq (IF bridge THEN tools ELSE {})
  /\ (bridge /\ ~clashed) => \A n \in tools : n \in asking \/ page[n] = "bridge"
=============================================================================
