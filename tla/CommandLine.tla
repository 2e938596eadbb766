---------------------------- MODULE CommandLine ----------------------------
(***************************************************************************)
(* One invocation of "mcp-query call": parseClient() and runClient() of    *)
(* the CLI (cli.ts), parseCallArgs(), coerceArgs(), opCall() and oneShot() *)
(* (invoke.ts), and the same command sent to the keep-alive daemon         *)
(* (runClientViaDaemon() and the daemon's call).  The server's catalog may *)
(* change at any time; the person may say yes, say no, or close the input. *)
(*                                                                         *)
(* A token is a flag, a word, a pair key=value or a call expression.  A    *)
(* value is a text with two readings: json, the type that JSON.parse()     *)
(* gives it, and num, the type in which what Number() makes of it is sent  *)
(* (0x10 and the empty text are numbers, Infinity is sent as null); "none" *)
(* where there is no such reading.  In a pair or an expression the text    *)
(* may be quoted; it is what stands between the quotes.                    *)
(***************************************************************************)
EXTENDS Naturals, Sequences, FiniteSetsExt

CONSTANTS Lines, Registered, Catalogs, MaxDeploys

Nobody == "nobody"
ASSUME LineAssumption ==
  \A l \in Lines : /\ l \in Seq({l[i] : i \in DOMAIN l})
                   /\ \A i \in DOMAIN l : l[i].name # Nobody
                   /\ \A i \in DOMAIN l : l[i].is \in {"flag", "word", "pair", "expr"}

VARIABLES
  line,      \* the tokens after the verb
  at,        \* how far the command has come
  catalog,   \* what the server offers
  known,     \* what it has listed to this command
  consent,   \* of the person, if asked
  sent,      \* the tools/call that was sent, if it was
  link,      \* the command's own connection
  deploys

lineVars == <<line, at, catalog, known, consent, sent, link, deploys>>

LineInit ==
  /\ line \in Lines /\ at = "start"
  /\ catalog \in Catalogs /\ known = <<>>
  /\ consent = Nobody /\ sent = <<>>
  /\ link = "none" /\ deploys = 0

-----------------------------------------------------------------------------
(* Reading the command line                                                *)

BoolFlags == {"json", "raw", "schema", "yes", "resources", "prompts", "daemon"}
ValueFlags == {"command", "args", "url", "bearer", "config", "header"}

IsFlag(t) == t.is = "flag"

Bare(text) == [text |-> text, json |-> "none", num |-> "none", quoted |-> FALSE]
TextOf(t) ==
  CASE t.is = "flag" -> Bare("--" \o t.name)
    [] t.is = "pair" -> Bare(t.name \o "=" \o t.value.text)
    [] t.is = "expr" -> Bare(t.name \o "()")
    [] OTHER -> t.value

\* parseClient(): the flags the CLI keeps, the empty text for none, and the tokens it passes on.
TakeOwn(p, t) ==
  IF p.wants # Nobody
  THEN [p EXCEPT !.own = IF TextOf(t).text = "" THEN @ ELSE @ \cup {p.wants}, !.wants = Nobody]
  ELSE CASE IsFlag(t) /\ t.name \in ValueFlags ->
              [p EXCEPT !.wants = t.name, !.own = @ \ {t.name}]
         [] IsFlag(t) /\ t.name \in BoolFlags -> [p EXCEPT !.own = @ \cup {t.name}]
         [] OTHER -> [p EXCEPT !.rest = Append(@, t)]

\* The state of its loop after so many tokens.
ClientAfter ==
  LET p[n \in 0 .. Len(line)] ==
        IF n = 0 THEN [own |-> {}, wants |-> Nobody, rest |-> <<>>]
                 ELSE TakeOwn(p[n - 1], line[n])
  IN p

Client == ClientAfter[Len(line)]

Says(flag) == flag \in Client.own

\* runClient(): the first token names the server, unless the connection is given inline.
Inline == Says("command") \/ Says("url")
Named == ~Inline /\ Client.rest # <<>>
CallTokens == IF Named THEN Tail(Client.rest) ELSE Client.rest

Yes == [value |-> [Bare("true") EXCEPT !.json = "boolean"], type |-> "boolean"]
AsString(v) == [value |-> v, type |-> "string"]

\* parseLiteral()
Literal(v) ==
  [value |-> v, type |-> IF v.quoted \/ v.json = "none" THEN "string" ELSE v.json]

Put(args, key, arg) ==
  [k \in DOMAIN args \cup {key} |-> IF k = key THEN arg ELSE args[k]]

\* Mutant: a flag takes the next flag for its value.
TakeArg_Greedy(p, t) ==
  IF p.key # Nobody
  THEN [p EXCEPT !.args = Put(@, p.key, AsString(TextOf(t))), !.key = Nobody]
  ELSE CASE IsFlag(t) -> [p EXCEPT !.key = t.name]
         [] t.is = "pair" -> [p EXCEPT !.args = Put(@, t.name, Literal(t.value))]
         [] OTHER -> p

\* parseCallArgs(), a token of the stream of flags and pairs.
TakeArg(p, t) ==
  IF IsFlag(t)
  THEN [args |-> IF p.key = Nobody THEN p.args ELSE Put(p.args, p.key, Yes), key |-> t.name]
  ELSE CASE p.key # Nobody ->
              [p EXCEPT !.args = Put(@, p.key, AsString(TextOf(t))), !.key = Nobody]
         [] p.key = Nobody /\ t.is = "pair" ->
              [p EXCEPT !.args = Put(@, t.name, Literal(t.value))]
         [] OTHER -> p

StreamAfter(tokens) ==
  LET p[n \in 0 .. Len(tokens)] ==
        IF n = 0 THEN [args |-> <<>>, key |-> Nobody] ELSE TakeArg(p[n - 1], tokens[n])
  IN p

Stream(tokens) ==
  LET p == StreamAfter(tokens)[Len(tokens)]
  IN IF p.key = Nobody THEN p.args ELSE Put(p.args, p.key, Yes)

IsExpr(tokens) == Len(tokens) = 1 /\ tokens[1].is = "expr"
ExprArgs(t) == [k \in DOMAIN t.args |-> Literal(t.args[k])]

\* The tool that is called, and the tokens of its arguments.
ToolName ==
  CASE IsExpr(CallTokens) -> CallTokens[1].name
    [] ~IsExpr(CallTokens) /\ CallTokens # <<>> -> TextOf(CallTokens[1]).text
    [] OTHER -> Nobody
ArgTokens == IF IsExpr(CallTokens) \/ CallTokens = <<>> THEN CallTokens ELSE Tail(CallTokens)
NoTool == ToolName \in {Nobody, ""}
RawArgs == IF IsExpr(ArgTokens) THEN ExprArgs(ArgTokens[1]) ELSE Stream(ArgTokens)

\* coerce(): what the text of a string becomes where the schema declares this type.
Retyped(v, declared) ==
  CASE declared \in {"number", "integer"} /\ v.num # "none" -> v.num
    [] declared = "boolean" /\ v.text \in {"true", "false"} -> "boolean"
    [] declared \in {"object", "array"} /\ v.json # "none" -> v.json
    [] declared = Nobody /\ v.json \in {"object", "array"} -> v.json
    [] OTHER -> "string"
Coerce(arg, declared) ==
  [arg EXCEPT !.type = IF @ = "string" THEN Retyped(arg.value, declared) ELSE @]

Declared(offer, tool, key) ==
  IF tool \in DOMAIN offer /\ key \in DOMAIN offer[tool].schema
  THEN offer[tool].schema[key] ELSE Nobody

CoerceArgs(offer, tool, args) == [k \in DOMAIN args |-> Coerce(args[k], Declared(offer, tool, k))]

-----------------------------------------------------------------------------
(* Carrying it out                                                         *)

\* fail() exits at once when it reports in JSON; otherwise the connection is closed first.
Throws(open) ==
  /\ at' = IF Says("json") /\ ~Says("raw") /\ ~Says("daemon") THEN "ended" ELSE "closing"
  /\ link' = open

\* resolveServer() and buildTransport(), or the request to the daemon.
FindsServer ==
  /\ at = "start"
  /\ LET resolved == Inline \/ (Named /\ TextOf(Head(Client.rest)).text \in Registered)
     IN IF ~resolved \/ (Says("daemon") /\ NoTool)
        THEN Throws("none")
        ELSE at' = "connecting" /\ UNCHANGED link
  /\ UNCHANGED <<line, catalog, known, consent, sent, deploys>>

\* The command connects for itself; the daemon has its pool.
Connects ==
  /\ at = "connecting"
  /\ \/ at' = "listing" /\ link' = IF Says("daemon") THEN "none" ELSE "open"
     \/ Throws("none")
  /\ UNCHANGED <<line, catalog, known, consent, sent, deploys>>

Destructive(tool) == tool \in DOMAIN known' /\ known'[tool].destructive

\* Mutant: --yes or not, the tool runs.
Lists_NeverAsks ==
  /\ at = "listing"
  /\ known' = catalog
  /\ IF NoTool THEN Throws(link) ELSE at' = "calling" /\ UNCHANGED link
  /\ UNCHANGED <<line, catalog, consent, sent, deploys>>

\* opCall() to its question; the daemon does not ask.
Lists ==
  /\ at = "listing"
  /\ \/ /\ known' = catalog
        /\ IF NoTool THEN Throws(link)
           ELSE /\ at' = IF Destructive(ToolName) /\ ~Says("yes") /\ ~Says("daemon")
                         THEN "asked" ELSE "calling"
                /\ UNCHANGED link
     \/ UNCHANGED known /\ Throws(link)
  /\ UNCHANGED <<line, catalog, consent, sent, deploys>>

\* confirm(): at the end of the input the question is never answered.
Consents ==
  /\ at = "asked"
  /\ consent' \in {"y", "n", "eof"}
  /\ CASE consent' = "y" -> at' = "calling" /\ UNCHANGED link
       [] consent' = "n" -> Throws(link)
       [] OTHER -> at' = "hung" /\ UNCHANGED link
  /\ UNCHANGED <<line, catalog, known, sent, deploys>>

Calls ==
  /\ at = "calling"
  /\ sent' = <<[tool |-> ToolName, args |-> CoerceArgs(known, ToolName, RawArgs)]>>
  /\ at' = "answering"
  /\ UNCHANGED <<line, catalog, known, consent, link, deploys>>

Returns ==
  /\ at = "answering"
  /\ \/ at' = "closing" /\ UNCHANGED link
     \/ Throws(link)
  /\ UNCHANGED <<line, catalog, known, consent, sent, deploys>>

ClosesLink ==
  /\ at = "closing"
  /\ at' = "ended" /\ link' = "none"
  /\ UNCHANGED <<line, catalog, known, consent, sent, deploys>>

\* The server is deployed anew.
Redeploys ==
  /\ deploys < MaxDeploys /\ at \notin {"ended", "hung"}
  /\ \E c \in Catalogs : c # catalog /\ catalog' = c
  /\ deploys' = deploys + 1
  /\ UNCHANGED <<line, at, known, consent, sent, link>>

LineNext ==
  \/ FindsServer \/ Connects \/ Lists \/ Consents \/ Calls \/ Returns \/ ClosesLink \/ Redeploys

LineSpec == LineInit /\ [][LineNext]_lineVars

-----------------------------------------------------------------------------
(* What a command line says                                                *)

\* The tokens the CLI keeps for itself, the others, and those of them after the tool.
OwnAt ==
  LET kept == {i \in DOMAIN line : IsFlag(line[i]) /\ line[i].name \in BoolFlags \cup ValueFlags}
  IN kept \cup {i \in DOMAIN line : i - 1 \in kept /\ line[i - 1].name \in ValueFlags}
Mine == (DOMAIN line) \ OwnAt
After(k) == {i \in Mine : Cardinality({j \in Mine : j < i}) >= k}
ArgsAt == After(IF Inline THEN 1 ELSE 2)

\* The token that names the tool; an expression names it if it is the only one.
ToolAt == After(IF Inline THEN 0 ELSE 1) \ ArgsAt
Expressed == \E i \in ToolAt : line[i].is = "expr"
WrittenTool(t) == IF t.is = "expr" THEN t.name ELSE TextOf(t).text

Takes(i) == i + 1 \in Mine /\ ~IsFlag(line[i + 1])
Taken(i) == i - 1 \in ArgsAt /\ IsFlag(line[i - 1])
Says1(i, key) ==
  i \in ArgsAt /\ line[i].name = key /\ (IsFlag(line[i]) \/ (line[i].is = "pair" /\ ~Taken(i)))

\* A text after a flag is a text; in a pair and in an expression it may be a literal.
AsText(v) == [value |-> v, literal |-> FALSE]
AsLiteral(v) == [value |-> v, literal |-> ~v.quoted /\ v.json \notin {"none", "string"}]
Saying(i) ==
  CASE line[i].is = "pair" -> AsLiteral(line[i].value)
    [] IsFlag(line[i]) /\ Takes(i) -> AsText(TextOf(line[i + 1]))
    [] OTHER -> AsLiteral(Yes.value)

\* The last mention of a key counts.
Spoken ==
  LET keys == {line[i].name : i \in {j \in ArgsAt : Says1(j, line[j].name)}}
  IN [key \in keys |-> Saying(Max({i \in ArgsAt : Says1(i, key)}))]
Expression == LET t == line[CHOOSE i \in ToolAt : TRUE]
              IN [key \in DOMAIN t.args |-> AsLiteral(t.args[key])]
Written == IF Expressed THEN Expression ELSE Spoken

\* What can be said in a type that a schema declares, and is then to be sent in it.
Sayable(v, declared) ==
  \/ declared = "string"
  \/ declared \in {"number", "integer"} /\ v.num = "number"
  \/ declared = "boolean" /\ v.text \in {"true", "false"}
  \/ declared \in {"object", "array"} /\ v.json = declared
Fits(type, declared) == type = IF declared = "integer" THEN "number" ELSE declared

\* Every own flag is one flag, with its value; none stands between a tool's flag and its value;
\* an expression is not mixed with other words.
Clear ==
  /\ \A i \in DOMAIN line :
       (IsFlag(line[i]) /\ line[i].name \in ValueFlags) =>
         i + 1 \in DOMAIN line /\ ~IsFlag(line[i + 1])
  /\ \A i \in ArgsAt : IsFlag(line[i]) => i + 1 \notin OwnAt
  /\ \A i \in Mine : line[i].is = "expr" => i \in ToolAt /\ ArgsAt = {}

-----------------------------------------------------------------------------
(* Properties                                                              *)

LineTypeOK ==
  /\ line \in Lines /\ catalog \in Catalogs /\ known \in Catalogs \cup {<<>>}
  /\ at \in {"start", "connecting", "listing", "asked", "calling", "answering", "hung",
             "closing", "ended"}
  /\ consent \in {Nobody, "y", "n", "eof"}
  /\ link \in {"none", "open"} /\ deploys \in 0 .. MaxDeploys

\* The call that reaches a server is the one the line says, by either route: of the tool it names,
\* with every key it mentions and no other, each with the text that is mentioned last.  A literal
\* keeps the type it has on the line, whatever the schema declares (invoke.ts:121); any other text
\* that can be said in the declared type is sent in it.  What one token does to the meaning of
\* the next is where the two parsers, of the CLI's own flags and of the tool's, can disagree
\* (cli.ts:299-328, invoke.ts:119-189, cli.ts:447-455).
SentAsWritten ==
  \A n \in DOMAIN sent : Clear =>
    /\ \E i \in ToolAt : sent[n].tool = WrittenTool(line[i])
    /\ DOMAIN sent[n].args = DOMAIN Written
    /\ \A key \in DOMAIN Written :
         LET arg == sent[n].args[key]
             declared == Declared(known, sent[n].tool, key)
         IN /\ arg.value = Written[key].value
            /\ Written[key].literal => arg.type = Written[key].value.json
            /\ ~Written[key].literal /\ Sayable(Written[key].value, declared) =>
                 Fits(arg.type, declared)

\* A tool that was listed as destructive runs after a yes, on the line or at the prompt
\* (invoke.ts:231); through the daemon nobody asks (cli.ts:453).
DestructiveIsConfirmed ==
  \A i \in DOMAIN sent :
    (sent[i].tool \in DOMAIN known /\ known[sent[i].tool].destructive) =>
      Says("yes") \/ consent = "y"
=============================================================================
