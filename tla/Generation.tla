------------------------------ MODULE Generation ------------------------------
(***************************************************************************)
(* The generation of src/pykalshi/models from the published specifications *)
(* (tools/generate_models.py, tools/generate_ws_models.py).  Each tool     *)
(* fetches a specification and writes its files one after the other; it    *)
(* may be stopped between two of them, and the exchange may publish a new  *)
(* version at any time.  The second tool edits the __init__.py that the    *)
(* first one writes.                                                       *)
(*                                                                         *)
(* An OpenAPI specification maps the names of schemas to what the first    *)
(* tool looks at: the kind of the schema, the names that its properties or *)
(* items refer to, and whether one of these has no type.  An AsyncAPI one  *)
(* maps the names of the second tool's classes to the names that their     *)
(* annotations use: those of the schemas as they are, though a class has   *)
(* its own with a capital.  A file is what Python sees of it: its          *)
(* definitions in their order, what each of them needs at once (the item   *)
(* of an alias) or later (annotations, which are not evaluated before the  *)
(* classes are complete), and its imports.  Fields, descriptions and the   *)
(* text of the files are left out.  The sort of the schemas of a file is   *)
(* that of TopologicalSort, step by step.                                  *)
(***************************************************************************)
EXTENDS TopologicalSort

CONSTANTS
    Requests, Responses, \* names that end in Request, in Response
    Skipped,             \* names that start with one of SKIP_PREFIXES
    TypeAliases,         \* names that become str
    FirstSpecs,          \* OpenAPI specifications from which the files may stem
    LaterSpecs,          \* OpenAPI specifications that are published later
    WsSpecs,             \* AsyncAPI specifications
    MaxPublishes         \* bound of this model: versions published

Kinds == {"enum", "object", "array", "scalar"}
ModelFiles == <<"enums", "core", "requests", "responses">>
Files == {"enums", "core", "requests", "responses", "ws"}

ASSUME SpecsAssumption ==
    /\ \A spec \in FirstSpecs \cup LaterSpecs :
           /\ IsFiniteSet(DOMAIN spec)
           /\ \A n \in DOMAIN spec :
                  spec[n].kind \in Kinds /\ spec[n].any \in BOOLEAN
    /\ \A spec \in WsSpecs : IsFiniteSet(DOMAIN spec)
    /\ MaxPublishes \in Nat

VARIABLES
    openapi, asyncapi, \* what is published
    file,              \* the files but __init__.py: definitions and imports
    init,              \* __init__.py: imports, and the names of __all__
    tool,              \* the tool that runs: what it fetched, and its next step
    published,         \* bound: versions published
    current            \* history variable: the tools that have run to their end on
                       \* what is published, the second one after the first

vars == <<openapi, asyncapi, file, init, tool, published, current, sortVars>>

NoTool == [name |-> "none", fetched |-> {}, step |-> 0]

-----------------------------------------------------------------------------
(* Categories (61-62, 221-246).                                            *)

Included(spec) == DOMAIN spec \ (Skipped \cup TypeAliases)

FileOf(spec, n) ==
    CASE spec[n].kind = "enum" -> "enums"
      [] spec[n].kind # "enum" /\ n \in Requests -> "requests"
      [] spec[n].kind # "enum" /\ n \in Responses -> "responses"
      [] OTHER -> "core"

SchemasOf(spec, f) == {n \in Included(spec) : FileOf(spec, n) = f}

\* The references within a file (206-218, 264-270).
Dependencies(spec, f) ==
    LET names == SchemasOf(spec, f) IN [n \in names |-> (spec[n].refs \cap names) \ {n}]

\* The enums are listed by their names, the models by their dependencies.
Listings(spec, f) ==
    IF f = "enums" THEN Orderings(SchemasOf(spec, f)) ELSE TopologicalOrders(Dependencies(spec, f))

-----------------------------------------------------------------------------
(* The contents of the files.                                              *)

\* The right-hand side of an alias of an array: its item as it is, or Any (399-411).
AtOnce(spec, n) ==
    IF spec[n].kind # "array" THEN {}
    ELSE (spec[n].refs \ TypeAliases) \cup {any \in {"Any"} : spec[n].any}

\* The annotations of a model: a name that is not generated becomes Any (81-88).
Later(spec, n) ==
    IF spec[n].kind # "object" THEN {}
    ELSE (spec[n].refs \cap Included(spec)) \cup
         {any \in {"Any"} : spec[n].any \/ ~(spec[n].refs \subseteq Included(spec) \cup TypeAliases)}

Definition(spec, n) == [name |-> n, atOnce |-> AtOnce(spec, n), later |-> Later(spec, n)]

\* Any is imported if an annotation uses it; the items of aliases are not looked at
\* (340-359).
Typing(spec, f) == {"Any"} \cap UNION {Later(spec, n) : n \in SchemasOf(spec, f)}

\* Enums and core models are imported; core imports nothing of itself, and requests
\* and responses are imported nowhere (326-338, 388-395).
Imports(spec, f) ==
    LET names == SchemasOf(spec, f)
        referred == UNION {spec[n].refs : n \in names}
        external == (referred \cap Included(spec)) \ names
    IN  {<<"enums", r>> : r \in {r \in external : FileOf(spec, r) = "enums"}} \cup
        {<<"core", r>> : r \in {r \in external : FileOf(spec, r) = "core" /\ f # "core"}}

Content(spec, f, listing) ==
    [definitions |-> [i \in DOMAIN listing |-> Definition(spec, listing[i])],
     imports |-> Imports(spec, f), typing |-> Typing(spec, f)]

\* Nothing that follows depends on the order of the second tool's classes.  It imports
\* Any in any case.
WsContent(spec) ==
    LET listing == CHOOSE ordering \in Orderings(DOMAIN spec) : TRUE IN
    [definitions |-> [i \in DOMAIN listing |->
                         [name |-> listing[i], atOnce |-> {}, later |-> spec[listing[i]]]],
     imports |-> {}, typing |-> {"Any"}]

\* Faulty variant: __all__ keeps the names it had.
WriteInitMerges(spec) ==
    [imports |-> {<<FileOf(spec, n), n>> : n \in Included(spec)},
     all |-> init.all \cup Included(spec)]

\* write_init (418-456) exports every name that is generated, and no other.
WriteInit(spec) ==
    [imports |-> {<<FileOf(spec, n), n>> : n \in Included(spec)},
     all |-> Included(spec)]

\* update_init (323-371) exchanges the import of ws, and adds to __all__.
UpdateInit(spec) ==
    [imports |-> {i \in init.imports : i[1] # "ws"} \cup {<<"ws", n>> : n \in DOMAIN spec},
     all |-> init.all \cup DOMAIN spec]

-----------------------------------------------------------------------------
(* The package as it is checked in: the work of both tools.                *)

Init ==
    /\ openapi \in FirstSpecs /\ asyncapi \in WsSpecs
    /\ file = [f \in Files |->
           IF f = "ws" THEN WsContent(asyncapi)
           ELSE Content(openapi, f, CHOOSE listing \in Listings(openapi, f) : TRUE)]
    /\ init = [imports |-> {<<FileOf(openapi, n), n>> : n \in Included(openapi)} \cup
                           {<<"ws", n>> : n \in DOMAIN asyncapi},
               all |-> Included(openapi) \cup DOMAIN asyncapi]
    /\ tool = NoTool /\ published = 0 /\ current = {}
    /\ deps = NoSchemas /\ todo = {} /\ stack = <<>>
    /\ visiting = {} /\ visited = {} /\ sorted = <<>>

-----------------------------------------------------------------------------
(* The steps.                                                              *)

Publishes ==
    /\ published < MaxPublishes
    /\ published' = published + 1 /\ current' = {}
    /\ UNCHANGED <<file, init, tool, sortVars>>

PublishOpenapi(spec) == Publishes /\ openapi' = spec /\ UNCHANGED asyncapi
PublishAsyncapi(spec) == Publishes /\ asyncapi' = spec /\ UNCHANGED openapi

\* fetch_spec.  From here on the files of an earlier run are being replaced.
Starts(name, spec) ==
    /\ tool = NoTool
    /\ tool' = [name |-> name, fetched |-> spec, step |-> 1]
    /\ current' = IF name = "models" THEN {} ELSE current \ {"ws"}
    /\ UNCHANGED <<openapi, asyncapi, file, init, published, sortVars>>

WriteEnums ==
    /\ tool.name = "models" /\ tool.step = 1
    /\ \E listing \in Orderings(SchemasOf(tool.fetched, "enums")) :
           file' = [file EXCEPT !["enums"] = Content(tool.fetched, "enums", listing)]
    /\ tool' = [tool EXCEPT !.step = 2]
    /\ StartSort(Dependencies(tool.fetched, ModelFiles[2]))
    /\ UNCHANGED <<openapi, asyncapi, init, published, current>>

SortModels ==
    /\ tool.name = "models" /\ SortStep
    /\ UNCHANGED <<openapi, asyncapi, file, init, tool, published, current>>

\* A file is written, and the schemas of the next one are sorted.
WriteModels ==
    /\ tool.name = "models" /\ tool.step \in 2 .. Len(ModelFiles) /\ Finished
    /\ LET f == ModelFiles[tool.step] IN
       file' = [file EXCEPT ![f] = Content(tool.fetched, f, sorted)]
    /\ tool' = [tool EXCEPT !.step = @ + 1]
    /\ StartSort(IF tool.step = Len(ModelFiles) THEN NoSchemas
                 ELSE Dependencies(tool.fetched, ModelFiles[tool.step + 1]))
    /\ UNCHANGED <<openapi, asyncapi, init, published, current>>

Ends(latest) ==
    /\ tool' = NoTool
    /\ current' = IF tool.fetched = latest THEN current \cup {tool.name} ELSE current
    /\ UNCHANGED <<openapi, asyncapi, published, sortVars>>

FinishModels ==
    /\ tool.name = "models" /\ tool.step > Len(ModelFiles)
    /\ init' = WriteInit(tool.fetched)
    /\ Ends(openapi) /\ UNCHANGED file

WriteWs ==
    /\ tool.name = "ws" /\ tool.step = 1
    /\ file' = [file EXCEPT !["ws"] = WsContent(tool.fetched)]
    /\ tool' = [tool EXCEPT !.step = 2]
    /\ UNCHANGED <<openapi, asyncapi, init, published, current, sortVars>>

FinishWs ==
    /\ tool.name = "ws" /\ tool.step = 2
    /\ init' = UpdateInit(tool.fetched)
    /\ Ends(asyncapi) /\ UNCHANGED file

\* The tool is stopped, or fails, before its next file.
Stop ==
    /\ tool # NoTool
    /\ tool' = NoTool /\ StartSort(NoSchemas)
    /\ UNCHANGED <<openapi, asyncapi, file, init, published, current>>

Next ==
    \/ \E spec \in LaterSpecs : PublishOpenapi(spec)
    \/ \E spec \in WsSpecs : PublishAsyncapi(spec)
    \/ Starts("models", openapi) \/ Starts("ws", asyncapi)
    \/ WriteEnums \/ SortModels \/ WriteModels \/ FinishModels \/ WriteWs \/ FinishWs
    \/ Stop

Spec == Init /\ [][Next]_vars

-----------------------------------------------------------------------------
(* What Python makes of the files.                                         *)

Defined(f) == {file[f].definitions[i].name : i \in DOMAIN file[f].definitions}
Imported(f) == {i[2] : i \in file[f].imports} \cup file[f].typing

\* A name whose definition leads to that of n: no order has each after what it names.
LeadsBack(f, r, n) == r = n \/ n \in Reach(Dependencies(openapi, f), r)

\* The file can be imported: what it imports is there, and an alias comes after what
\* it names.  An alias in a cycle may come before it (there is no remedy): then the
\* name is at least defined in the file.
Loads(f) ==
    /\ \A i \in file[f].imports : i[2] \in Defined(i[1])
    /\ \A i \in DOMAIN file[f].definitions : \A r \in file[f].definitions[i].atOnce :
           \/ r \in Imported(f) \cup {file[f].definitions[j].name : j \in 1 .. i - 1}
           \/ r \in Defined(f) /\ LeadsBack(f, r, file[f].definitions[i].name)

\* Its classes can be completed: every annotation names something.
Completes(f) ==
    \A i \in DOMAIN file[f].definitions :
        file[f].definitions[i].later \subseteq Imported(f) \cup Defined(f)

Package ==
    /\ \A f \in Files : Loads(f) /\ Completes(f)
    /\ \A i \in init.imports : i[2] \in Defined(i[1])
    /\ init.all = {i[2] : i \in init.imports}

\* What the first tool takes for granted: requests and responses are referred to only
\* from their own file; the item of an array is generated, and it is Any only where
\* an annotation of the same file is.
WellFormed(spec) ==
    \A n \in Included(spec) :
        /\ \A r \in spec[n].refs \cap Included(spec) :
               FileOf(spec, r) \in {"enums", "core", FileOf(spec, n)}
        /\ spec[n].kind = "array" =>
               /\ spec[n].refs \subseteq Included(spec) \cup TypeAliases
               /\ spec[n].any => "Any" \in Typing(spec, FileOf(spec, n))

\* What the second one does: a name that an annotation uses is that of a class.
WellFormedWs(spec) == \A n \in DOMAIN spec : spec[n] \subseteq DOMAIN spec \cup {"Any"}

\* Whatever was stopped half-way before, and whichever versions its files are from:
\* once both tools have run to their end, in their order and on what is published,
\* the package imports, its classes complete, and it exports what is generated and
\* nothing else (generate_models.py 459-499, generate_ws_models.py 323-403).
Regenerated ==
    current = {"models", "ws"} /\ WellFormed(openapi) /\ WellFormedWs(asyncapi) =>
        Package /\ init.all = Included(openapi) \cup DOMAIN asyncapi
=============================================================================
