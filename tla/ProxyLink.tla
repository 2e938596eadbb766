------------------------------ MODULE ProxyLink ------------------------------
(***************************************************************************)
(* A page that reaches an MCP server through the local proxy               *)
(* (apps/shared/src: transport.ts in the page, proxy.ts on the host): a    *)
(* WebSocket, and behind it the transport to the target, often a process.  *)
(* Each end can go first, at any time.  A frame that says "fin" stands for *)
(* the end of the socket in that direction.  JSON-RPC frames change no     *)
(* state here and are left out.                                            *)
(***************************************************************************)
EXTENDS Naturals, Sequences

VARIABLES
  starting,   \* start() of the page's transport
  told,       \* the transport has called onclose
  toProxy, toPage,       \* frames on their way
  pageOpen, proxyOpen,   \* the ends of the socket that can still send
  proxyEnded, \* the proxy's "close" event has been seen
  admitted,   \* token and origin were right
  target      \* the transport that the proxy has made

linkVars == <<starting, told, toProxy, toPage, pageOpen, proxyOpen, proxyEnded, admitted, target>>

LinkInit ==
  /\ starting = "idle" /\ told = FALSE
  /\ toProxy = <<>> /\ toPage = <<>>
  /\ pageOpen = FALSE /\ proxyOpen = FALSE /\ proxyEnded = FALSE /\ admitted = FALSE
  /\ target = "none"

PageSends(frames) == toProxy' = IF pageOpen THEN toProxy \o frames ELSE toProxy
ProxySends(frames) == toPage' = IF proxyOpen THEN toPage \o frames ELSE toPage

\* target.onclose: tell the page, end the socket
TargetClosed ==
  /\ target' = "closed"
  /\ ProxySends(<<"closed", "fin">>) /\ proxyOpen' = FALSE

\* target?.close()
CloseTarget ==
  IF target \in {"starting", "running"}
    THEN TargetClosed
    ELSE UNCHANGED <<target, toPage, proxyOpen>>

-----------------------------------------------------------------------------
(* The page *)

\* The socket opens, and the target is asked for.
Start(right) ==
  /\ starting = "idle"
  /\ starting' = "asking" /\ pageOpen' = TRUE
  /\ toProxy' = <<"connect">>
  /\ admitted' = right /\ proxyOpen' = right
  /\ toPage' = IF right THEN <<>> ELSE <<"fin">>
  /\ UNCHANGED <<told, target, proxyEnded>>

StartFails ==
  /\ starting = "idle" /\ starting' = "failed"
  /\ UNCHANGED <<told, toProxy, toPage, pageOpen, proxyOpen, proxyEnded, admitted, target>>

PageGets ==
  /\ toPage # <<>>
  /\ toPage' = Tail(toPage)
  /\ LET frame == Head(toPage)
     IN  /\ starting' = CASE starting = "asking" /\ frame = "connected" -> "started"
                          [] starting = "asking" /\ frame = "failed" -> "failed"
                          [] OTHER -> starting
         /\ told' = (told \/ frame \in {"closed", "fin"})
         /\ IF frame = "fin"
              THEN PageSends(<<"fin">>) /\ pageOpen' = FALSE
              ELSE UNCHANGED <<toProxy, pageOpen>>
  /\ UNCHANGED <<proxyOpen, proxyEnded, admitted, target>>

PageCloses ==
  /\ starting # "idle" /\ pageOpen
  /\ PageSends(<<"close", "fin">>) /\ pageOpen' = FALSE
  /\ told' = TRUE
  /\ UNCHANGED <<starting, toPage, proxyOpen, proxyEnded, admitted, target>>

-----------------------------------------------------------------------------
(* The proxy *)

\* ws.on("close") also answers the page's end of the socket
AtSocketEnd_Nothing == UNCHANGED <<target, toPage, proxyOpen>>
AtSocketEnd == CloseTarget

ProxyGets ==
  /\ toProxy # <<>>
  /\ toProxy' = Tail(toProxy)
  /\ LET frame == Head(toProxy)
     IN  \/ /\ frame = "connect" /\ admitted /\ target = "none"
            /\ target' = "starting"
            /\ UNCHANGED <<toPage, proxyOpen, proxyEnded>>
         \/ /\ frame = "close" /\ admitted
            /\ CloseTarget
            /\ UNCHANGED proxyEnded
         \/ /\ frame = "fin" /\ admitted
            /\ proxyEnded' = TRUE
            /\ AtSocketEnd
         \/ /\ ~admitted
            /\ UNCHANGED <<target, toPage, proxyOpen, proxyEnded>>
  /\ UNCHANGED <<starting, told, pageOpen, admitted>>

TargetStarts ==
  /\ target = "starting" /\ target' = "running"
  /\ ProxySends(<<"connected">>)
  /\ UNCHANGED <<starting, told, toProxy, pageOpen, proxyOpen, proxyEnded, admitted>>

\* makeTarget() or start() throws
TargetRefuses ==
  /\ target = "starting" /\ target' = "closed"
  /\ ProxySends(<<"failed", "fin">>) /\ proxyOpen' = FALSE
  /\ UNCHANGED <<starting, told, toProxy, pageOpen, proxyEnded, admitted>>

TargetExits ==
  /\ target = "running"
  /\ TargetClosed
  /\ UNCHANGED <<starting, told, toProxy, pageOpen, proxyEnded, admitted>>

-----------------------------------------------------------------------------
\* The socket breaks, or the proxy is shut down: what is on its way is lost, each end learns.
SocketDrops ==
  /\ pageOpen \/ proxyOpen
  /\ toProxy' = IF proxyEnded THEN <<>> ELSE <<"fin">>
  /\ toPage' = IF pageOpen THEN <<"fin">> ELSE <<>>
  /\ proxyOpen' = FALSE
  /\ UNCHANGED <<starting, told, pageOpen, proxyEnded, admitted, target>>

LinkNext ==
  \/ \E right \in BOOLEAN : Start(right)
  \/ StartFails \/ PageGets \/ PageCloses
  \/ ProxyGets \/ TargetStarts \/ TargetRefuses \/ TargetExits \/ SocketDrops

\* Frames arrive; a start ends, one way or the other.
LinkFairness ==
  /\ WF_linkVars(PageGets) /\ WF_linkVars(ProxyGets)
  /\ WF_linkVars(TargetStarts \/ TargetRefuses)

LinkSpec == LinkInit /\ [][LinkNext]_linkVars /\ LinkFairness

-----------------------------------------------------------------------------
(* Properties *)

\* Whichever end goes first and whatever is on its way then, no target outlives the page's
\* transport, and the page is told when the target has gone.
EndsTogether ==
  <>[](/\ told => target \in {"none", "closed"}
       /\ target = "closed" => told)
=============================================================================
