---------------------------- MODULE ContractCheck ----------------------------
(***************************************************************************)
(* The contract of a server: captureContract() and diffContract() of       *)
(* mcp-contract (contract.ts) over the comparison of schemas (schema.ts),  *)
(* as the commands snapshot and verify use them (cli.ts) on a server that  *)
(* changes what it offers, also between two pages of one capture.          *)
(*                                                                         *)
(* A schema has a sequence of types, properties with schemas of their own, *)
(* required names, at most one enum and one schema of items; strict is     *)
(* additionalProperties: false.  A value is a scalar, an object or an      *)
(* array.  The ghost moved: the server changed while verify was reading.   *)
(***************************************************************************)
EXTENDS Naturals, Sequences

CONSTANTS
  Offers,    \* what the server may offer
  Uses,      \* the names a consumer may be scoped to
  Schemas,   \* the schemas that occur, with those they are made of
  Height,    \* how deep a schema is nested
  Values,    \* the values, with those they are made of
  MaxMoves

None == "none"
Types == {"string", "number", "integer", "boolean", "object", "array", "null"}

Parts(s) == {s.properties[key] : key \in DOMAIN s.properties} \cup {s.items[i] : i \in DOMAIN s.items}
ValueParts(v) ==
  {v.fields[key] : key \in DOMAIN v.fields} \cup {v.elements[i] : i \in DOMAIN v.elements}

\* Schemas and values are finite trees: what they are made of is there too, and less deep.
ASSUME ContractAssumption ==
  /\ Height \in [Schemas -> Nat]
  /\ \A s \in Schemas :
       /\ s.types \in Seq(Types) /\ s.items \in Seq(Schemas)
       /\ \A part \in Parts(s) : part \in Schemas /\ Height[part] < Height[s]
  /\ \A v \in Values : ValueParts(v) \subseteq Values
  /\ \A o \in Offers : \A n \in DOMAIN o.tools : {o.tools[n].input, o.tools[n].output} \subseteq Schemas
  /\ MaxMoves \in Nat

VARIABLES
  offered,      \* what the server offers
  pinned,    \* the contract in the file
  used,      \* the names the last verify is scoped to, none for all
  taken,     \* what the capture under way has read
  unread,    \* the listings it has still to read
  command,   \* the command it is for
  verdict,   \* of the last verify, until the server or the file changes
  moves, moved

contractVars == <<offered, pinned, used, taken, unread, command, verdict, moves, moved>>

OfferedTools == UNION {DOMAIN o.tools : o \in Offers}
Empty == [tools |-> <<>>, resources |-> {}, prompts |-> <<>>]

ContractInit ==
  /\ offered \in Offers /\ pinned = Empty /\ used = {}
  /\ taken = Empty /\ unread = {} /\ command = None /\ verdict = None
  /\ moves = 0 /\ moved = FALSE

ContractTypeOK ==
  /\ offered \in Offers /\ used \in Uses \cup {{}}
  /\ DOMAIN pinned.tools \subseteq OfferedTools /\ DOMAIN taken.tools \subseteq OfferedTools
  /\ unread \subseteq OfferedTools \cup {"resources", "prompts"}
  /\ command \in {None, "snapshot", "verify"}
  /\ verdict \in {None, "pass", "fail"}
  /\ moves \in 0 .. MaxMoves /\ moved \in BOOLEAN

-----------------------------------------------------------------------------
(* Comparing schemas                                                       *)

\* typeOf(): the first type counts.
TypeOf(s) == IF s.types = <<>> THEN None ELSE s.types[1]

Numeric == {"number", "integer"}

\* diffType()
BreaksType(prev, next, variance) ==
  LET a == TypeOf(prev)
      b == TypeOf(next)
  IN /\ None \notin {a, b} /\ a # b
     /\ {a, b} = Numeric => a = (IF variance = "in" THEN "number" ELSE "integer")

\* Mutant: what an output may newly be is taken for a narrowing.
BreaksEnum_Narrows(prev, next, variance) ==
  /\ prev.enum # next.enum
  /\ CASE next.enum = <<>> -> variance = "out"
       [] prev.enum = <<>> -> variance = "in"
       [] OTHER -> ~(prev.enum[1] \subseteq next.enum[1])

\* diffEnum()
BreaksEnum(prev, next, variance) ==
  /\ prev.enum # next.enum
  /\ CASE next.enum = <<>> -> variance = "out"
       [] prev.enum = <<>> -> variance = "in"
       [] OTHER -> IF variance = "in" THEN ~(prev.enum[1] \subseteq next.enum[1])
                                      ELSE ~(next.enum[1] \subseteq prev.enum[1])

\* diffObject(), short of the schemas of common properties.
BreaksProperty(prev, next, variance, key) ==
  LET inPrev == key \in DOMAIN prev.properties
      inNext == key \in DOMAIN next.properties
  IN \/ inPrev /\ ~inNext /\ variance = "out"
     \/ ~inPrev /\ inNext /\ variance = "in" /\ key \in next.required
     \/ /\ inPrev /\ inNext
        /\ IF variance = "in" THEN key \in next.required \ prev.required
                              ELSE key \in prev.required \ next.required

\* diffSchema(): is there a breaking change?  breaks says it of the parts.
BreaksBy(breaks, prev, next, variance) ==
  /\ None \notin {prev.is, next.is}
  /\ \/ BreaksType(prev, next, variance)
     \/ BreaksEnum(prev, next, variance)
     \/ \E key \in DOMAIN prev.properties \cup DOMAIN next.properties :
          \/ BreaksProperty(prev, next, variance, key)
          \/ /\ key \in DOMAIN prev.properties \cap DOMAIN next.properties
             /\ breaks[<<prev.properties[key], next.properties[key]>>]
     \/ /\ TypeOf(prev) = "array" /\ TypeOf(next) = "array"
        /\ prev.items # <<>> /\ next.items # <<>>
        /\ breaks[<<prev.items[1], next.items[1]>>]

BreaksPair(variance) ==
  LET breaks[pair \in Schemas \X Schemas] == BreaksBy(breaks, pair[1], pair[2], variance)
  IN breaks

Breaks(prev, next, variance) == BreaksPair(variance)[<<prev, next>>]

-----------------------------------------------------------------------------
(* Comparing contracts                                                     *)

IsUsed(name) == used = {} \/ name \in used

\* annotationChanges()
BreaksHints(a, b) ==
  (b.destructive /\ ~a.destructive) \/ (a.readOnly /\ ~b.readOnly)

BreaksTool(a, b) ==
  BreaksHints(a, b) \/ Breaks(a.input, b.input, "in") \/ Breaks(a.output, b.output, "out")

\* The arguments of a prompt that must be given: nothing else of it breaks a caller.
BreaksPrompt(a, b) == ~(b \subseteq a)

\* diffCollection(): what is gone, or breaks in what has stayed.
Removed(prev, next) == (DOMAIN prev) \ (DOMAIN next)
Broken(prev, next) ==
  {n \in OfferedTools \cup prev.resources \cup DOMAIN prev.prompts :
     \/ n \in Removed(prev.tools, next.tools) \cup Removed(prev.prompts, next.prompts)
     \/ n \in prev.resources \ next.resources
     \/ n \in DOMAIN prev.tools \cap DOMAIN next.tools /\ BreaksTool(prev.tools[n], next.tools[n])
     \/ n \in DOMAIN prev.prompts \cap DOMAIN next.prompts
        /\ BreaksPrompt(prev.prompts[n], next.prompts[n])}

\* diffContract()
Breaking(prev, next) == \E n \in Broken(prev, next) : IsUsed(n)

-----------------------------------------------------------------------------
(* The commands                                                            *)

\* snapshot and verify begin with a capture.
Begins(what) ==
  /\ command = None
  /\ command' = what
  /\ taken' = Empty /\ unread' = OfferedTools \cup {"resources", "prompts"}
  /\ used' \in IF what = "verify" THEN Uses ELSE {{}}
  /\ verdict' = None /\ moved' = FALSE
  /\ UNCHANGED <<offered, pinned, moves>>

\* A page of tools/list has the next tools, if the server offers them by now.
ToolsPage(names) ==
  /\ command # None /\ names # {} /\ names \subseteq unread \cap OfferedTools
  /\ unread' = unread \ names
  /\ taken' = [taken EXCEPT !.tools =
       [n \in DOMAIN taken.tools \cup (names \cap DOMAIN offered.tools) |->
          IF n \in DOMAIN taken.tools THEN taken.tools[n] ELSE offered.tools[n]]]
  /\ UNCHANGED <<offered, pinned, used, command, verdict, moves, moved>>

\* The other listings follow; one that fails is taken for an empty one.
Listing(what) ==
  /\ command # None /\ what \in unread \ OfferedTools /\ unread \cap OfferedTools = {}
  /\ what = "prompts" => "resources" \notin unread
  /\ unread' = unread \ {what}
  /\ \/ /\ what = "resources"
        /\ taken' = [taken EXCEPT !.resources = offered.resources]
     \/ /\ what = "prompts"
        /\ taken' = [taken EXCEPT !.prompts = offered.prompts]
     \/ UNCHANGED taken
  /\ UNCHANGED <<offered, pinned, used, command, verdict, moves, moved>>

\* A listing of tools that fails, or a lost connection, fails the command.
CaptureFails ==
  /\ command # None /\ unread \cap OfferedTools # {}
  /\ command' = None /\ unread' = {} /\ taken' = Empty
  /\ verdict' = IF command = "verify" THEN "fail" ELSE None
  /\ UNCHANGED <<offered, pinned, used, moves, moved>>

Ends ==
  /\ command # None /\ unread = {}
  /\ command' = None /\ taken' = Empty
  /\ IF command = "snapshot"
     THEN pinned' = taken /\ UNCHANGED verdict
     ELSE /\ verdict' = IF Breaking(pinned, taken) THEN "fail" ELSE "pass"
          /\ UNCHANGED pinned
  /\ UNCHANGED <<offered, used, unread, moves, moved>>

\* The server is deployed anew.
Deploys ==
  /\ moves < MaxMoves
  /\ \E o \in Offers : o # offered /\ offered' = o
  /\ moves' = moves + 1
  /\ verdict' = None /\ moved' = (command # None)
  /\ UNCHANGED <<pinned, used, taken, unread, command>>

ContractNext ==
  \/ \E what \in {"snapshot", "verify"} : Begins(what)
  \/ (\E names \in SUBSET OfferedTools : ToolsPage(names))
  \/ (\E what \in {"resources", "prompts"} : Listing(what))
  \/ CaptureFails \/ Ends \/ Deploys

ContractSpec == ContractInit /\ [][ContractNext]_contractVars

-----------------------------------------------------------------------------
(* What a schema means                                                     *)

IsA(v, type) == v.kind = type \/ (type = "number" /\ v.kind = "integer")

\* A value is valid.  What an object has beside the declared properties is extra: there may be
\* "none", what the schema "allows", or "any".  admitted has the values each part admits.
AdmitsBy(admitted, s, v, extra) ==
  \/ s.is = None
  \/ /\ s.types # <<>> => \E i \in DOMAIN s.types : IsA(v, s.types[i])
     /\ s.enum # <<>> => v.scalar \in s.enum[1]
     /\ v.kind = "object" =>
          /\ s.required \subseteq DOMAIN v.fields
          /\ (extra = "none" \/ (extra = "allows" /\ s.strict)) =>
               DOMAIN v.fields \subseteq DOMAIN s.properties
          /\ \A key \in DOMAIN v.fields \cap DOMAIN s.properties :
               v.fields[key] \in admitted[s.properties[key]]
     /\ (v.kind = "array" /\ s.items # <<>>) =>
          \A i \in DOMAIN v.elements : v.elements[i] \in admitted[s.items[1]]

Admitted(extra) ==
  LET admitted[s \in Schemas] == {v \in Values : AdmitsBy(admitted, s, v, extra)}
  IN admitted

\* What was sent, with nothing the schema does not declare, is still accepted; what comes is
\* still what was read.
StillAccepted(prev, next) == Admitted("none")[prev] \subseteq Admitted("allows")[next]
StillReadable(prev, next) == Admitted("allows")[next] \subseteq Admitted("any")[prev]

\* What the comparison looks at: a schema on both sides, one type or none in each, as many
\* in both, items in both or in none and only where a type is, required properties that are
\* declared, and a server that does not begin to refuse what it does not know.
ComparableBy(comparable, prev, next) ==
  /\ None \notin {prev.is, next.is} \/ prev.is = next.is
  /\ Len(prev.types) = Len(next.types) /\ Len(prev.types) <= 1
  /\ Len(prev.items) = Len(next.items) /\ (prev.items # <<>> => prev.types # <<>>)
  /\ prev.required \subseteq DOMAIN prev.properties
  /\ next.required \subseteq DOMAIN next.properties
  /\ next.strict => DOMAIN prev.properties \subseteq DOMAIN next.properties
  /\ \A key \in DOMAIN prev.properties \cap DOMAIN next.properties :
       next.properties[key] \in comparable[prev.properties[key]]
  /\ \A i \in DOMAIN prev.items : next.items[i] \in comparable[prev.items[i]]

AllComparable ==
  LET comparable[s \in Schemas] == {t \in Schemas : ComparableBy(comparable, s, t)}
  IN comparable

Comparable(prev, next) == next \in AllComparable[prev]

-----------------------------------------------------------------------------
(* Properties                                                              *)

\* A consumer may rely on a verify that passes: every tool it uses is there, accepts what the
\* pinned one accepted, returns what the pinned one may have returned, and has become neither
\* destructive nor a writer, wherever the comparison looks and unless the server changed under
\* the capture (schema.ts:3-11, contract.ts:134-168).
VerdictIsSound ==
  (verdict = "pass" /\ ~moved) =>
    \A n \in {t \in DOMAIN pinned.tools : IsUsed(t)} :
      /\ n \in DOMAIN offered.tools
      /\ LET a == pinned.tools[n]
             b == offered.tools[n]
         IN /\ Comparable(a.input, b.input) => StillAccepted(a.input, b.input)
            /\ Comparable(a.output, b.output) => StillReadable(a.output, b.output)
            /\ b.destructive => a.destructive
            /\ a.readOnly => b.readOnly
=============================================================================
