------------------------------ MODULE MCCommands ------------------------------
(***************************************************************************)
(* What the commands do on a host, machines that do not act on one         *)
(* another: the start of the keep-alive daemon, the pool of that daemon,   *)
(* the interactive session, one command line, the files that name the      *)
(* servers, and the check of a server's contract.  A behaviour is a        *)
(* behaviour of the one that focus names; the others stay in an initial    *)
(* state.                                                                  *)
(***************************************************************************)
EXTENDS DaemonStartup, DaemonPool, Repl, CommandLine, ServerFiles, ContractCheck

CONSTANTS r1, r2, k1, k2

VARIABLE focus

-----------------------------------------------------------------------------
(* Command lines of "call pay id=...", with the flags that can come between *)

Text(text, json, num) == [text |-> text, json |-> json, num |-> num, quoted |-> FALSE]
Seven == Text("7", "number", "number")
Token(is, name, value) == [is |-> is, name |-> name, value |-> value, args |-> <<>>]
Word(value) == Token("word", "none", value)
Flag(name) == Token("flag", name, Bare(""))
Pair(value) == Token("pair", "id", value)

Server == Word(Bare("srv"))
Tool == Word(Bare("pay"))
CallOf(value) == [Token("expr", "pay", Bare("")) EXCEPT !.args = "id" :> value]
Few == {Word(Seven), Pair(Text("true", "boolean", "none")), Flag("id"),
        Flag("yes"), Flag("daemon"), Flag("url")}
Arguments ==
  Few \cup {Flag("json"), Word(Text("0x10", "none", "number")), Word(Text("Infinity", "none", "null")),
            Word(Text("", "none", "number")), Pair([Seven EXCEPT !.quoted = TRUE]), Pair(Seven)}
Tokens == Arguments \cup {Server, Tool, CallOf(Seven), CallOf([Seven EXCEPT !.quoted = TRUE])}

Short == UNION {[1 .. n -> Tokens] : n \in 0 .. 2}
MCLines ==
  Short \cup {<<Server, Tool>> \o l : l \in Short \cup [1 .. 3 -> Few]}
        \cup {<<Flag("url"), Server, Tool>> \o l : l \in Short}

Offering(destructive, schema) == "pay" :> [destructive |-> destructive, schema |-> schema]
MCCatalogs ==
  {<<>>, Offering(TRUE, "id" :> "integer"), Offering(FALSE, "id" :> "boolean"),
   Offering(FALSE, "id" :> "string")}
MCFewCatalogs == {<<>>}
MCFewLines == {<<>>}
MCConfirmLines == {<<>>, <<Server, Tool>>, <<Server, Tool, Flag("daemon")>>}

-----------------------------------------------------------------------------
(* Pools *)

MCRequests == {r1, r2}
MCKeys == {k1, k2}
OneKey == {k1}

\* Each request an upstream of its own or both the same; with losses, or with evictions, and,
\* on upstreams of their own, with evictions and a stop or a loss.
Own == [keyOf |-> (r1 :> k1) @@ (r2 :> k2), ticks |-> TRUE, stops |-> FALSE, maxFaults |-> 2]
Same == [Own EXCEPT !.keyOf = [r \in MCRequests |-> k1]]
Losses(c) == [c EXCEPT !.ticks = FALSE]
Evictions(c) == [c EXCEPT !.maxFaults = 0]
MCConfigs == {Losses(Own), [Evictions(Own) EXCEPT !.stops = TRUE], [Own EXCEPT !.maxFaults = 1],
              Losses(Same), Evictions(Same)}

\* Two requests for one upstream, and nothing goes wrong.
SharedConfigs == {[Same EXCEPT !.ticks = FALSE, !.maxFaults = 0]}

-----------------------------------------------------------------------------
(* Servers whose schemas differ in one respect, and the values that tell them apart. *)

AnySchema == [is |-> "schema", types |-> <<>>, enum |-> <<>>, properties |-> <<>>, required |-> {},
        items |-> <<>>, strict |-> FALSE]
NoSchema == [AnySchema EXCEPT !.is = None]
Of(type) == [AnySchema EXCEPT !.types = <<type>>]
Str == Of("string")
StrA == [Str EXCEPT !.enum = <<{"a"}>>]
StrAB == [Str EXCEPT !.enum = <<{"a", "b"}>>]
Obj(props, req) == [Of("object") EXCEPT !.properties = props, !.required = req]
Arr(item) == [Of("array") EXCEPT !.items = <<item>>]
Untyped(array) == [array EXCEPT !.types = <<>>]
XOnly == Obj([x |-> Str], {})
XNeeded == Obj([x |-> Str], {"x"})
XAndY == Obj([x |-> Str, y |-> Of("integer")], {})
Inside(s) == Obj([x |-> s], {})

\* A deployment moves the schema of the tool's input, or of its output, within one of these.
Groups ==
  {{Str, Of("integer"), Of("number")},
   {Str, StrA, StrAB},
   {Str, NoSchema, XOnly, Arr(Str)},
   {Inside(XOnly), Inside(XNeeded), Inside(XAndY)},
   {Arr(Str), Arr(StrA), Arr(XOnly), Arr(XAndY)},
   {Untyped(Arr(Str)), Untyped(Arr(StrA))}}
InObjects ==
  {XOnly, XNeeded, XAndY, Obj([x |-> StrA], {"x"}), Obj([x |-> Str, y |-> Str], {"y"}),
   [Obj([y |-> Str], {}) EXCEPT !.strict = TRUE]}
OutObjects == {XOnly, XNeeded, XAndY}
MCSchemas == UNION (Groups \cup {InObjects})
MCHeight ==
  [s \in MCSchemas |->
     IF Parts(s) = {} THEN 0 ELSE IF \A part \in Parts(s) : Parts(part) = {} THEN 1 ELSE 2]

OneTool(in, out) == [input |-> in, output |-> out, destructive |-> FALSE, readOnly |-> FALSE]
Plain == [tools |-> [t |-> OneTool(Str, Str)], resources |-> {"r"},
          prompts |-> [p |-> {}]]
Inputs(schemas) == {[Plain EXCEPT !.tools["t"].input = s] : s \in schemas}
Outputs(schemas) == {[Plain EXCEPT !.tools["t"].output = s] : s \in schemas}
Others == {[Plain EXCEPT !.tools["t"].destructive = TRUE],
           [Plain EXCEPT !.tools["t"].readOnly = TRUE],
           [Plain EXCEPT !.tools = <<>>, !.resources = {}],
           [Plain EXCEPT !.prompts = <<>>],
           [Plain EXCEPT !.prompts["p"] = {"arg"}]}
Deployments ==
  {Inputs(group) : group \in Groups \cup {InObjects}}
    \cup {Outputs(group) : group \in Groups \cup {OutObjects}}
    \cup {{Plain, o} : o \in Others}
MCOffers == UNION Deployments

\* A deployment changes one respect of the server.
OneRespect == \E servers \in Deployments : {offered, offered'} \subseteq servers

MCFewOffers == {Plain}

Val(kind, is, fields, elements) ==
  [kind |-> kind, scalar |-> is, fields |-> fields, elements |-> elements]
ScalarValues ==
  {Val("string", "a", <<>>, <<>>), Val("string", "b", <<>>, <<>>), Val("string", "c", <<>>, <<>>),
   Val("integer", "1", <<>>, <<>>), Val("integer", "2", <<>>, <<>>),
   Val("number", "1.5", <<>>, <<>>), Val("null", "", <<>>, <<>>)}
FieldValues == {v \in ScalarValues : v.scalar \in {"a", "b", "1"}}
FlatValues ==
  {Val("object", "", f, <<>>) : f \in UNION {[keys -> FieldValues] : keys \in SUBSET {"x", "y"}}}
MCValues ==
  ScalarValues \cup FlatValues
    \cup {Val("object", "", [x |-> v], <<>>) : v \in FlatValues}
    \cup {Val("array", "", <<>>, els) : els \in {<<>>} \cup {<<v>> : v \in FieldValues \cup FlatValues}}

-----------------------------------------------------------------------------
(* One machine at a time                                                   *)

hostVars == <<startVars, replVars, lineVars, filesVars, contractVars>>

MCInit ==
  /\ focus \in {"daemon", "pool", "session", "line", "servers", "contract"}
  /\ StartInit /\ (focus # "daemon" => file = NoFile)
  /\ Init /\ (focus # "pool" => config = CHOOSE c \in Configs : TRUE)
  /\ ReplInit /\ FilesInit
  /\ ContractInit /\ (focus # "contract" => offered = Plain)
  /\ LineInit /\ (focus # "line" => line = <<>> /\ catalog = <<>>)

StartStep ==
  /\ focus = "daemon" /\ StartNext
  /\ UNCHANGED <<focus, vars, replVars, lineVars, filesVars, contractVars>>

PoolStep == focus = "pool" /\ Next /\ UNCHANGED <<focus, hostVars>>

ReplStep ==
  /\ focus = "session" /\ ReplNext
  /\ UNCHANGED <<focus, vars, startVars, lineVars, filesVars, contractVars>>

LineStep ==
  /\ focus = "line" /\ LineNext
  /\ UNCHANGED <<focus, vars, startVars, replVars, filesVars, contractVars>>

FilesStep ==
  /\ focus = "servers" /\ FilesNext
  /\ UNCHANGED <<focus, vars, startVars, replVars, lineVars, contractVars>>

ContractStep ==
  /\ focus = "contract" /\ ContractNext /\ (offered' = offered \/ OneRespect)
  /\ UNCHANGED <<focus, vars, startVars, replVars, lineVars, filesVars>>

MCNext == StartStep \/ PoolStep \/ ReplStep \/ LineStep \/ FilesStep \/ ContractStep

\* StartFairness, where the daemon's machine moves.
Fairness ==
  /\ \A c \in Callers : WF_startVars(focus = "daemon" /\ CallerActs(c))
  /\ \A d \in Daemons : WF_startVars(focus = "daemon" /\ DaemonActs(d))

MCSpec == MCInit /\ [][MCNext]_<<focus, vars, hostVars>> /\ Fairness
=============================================================================
