--------------------------- MODULE GenerationProofs ---------------------------
(***************************************************************************)
(* Theorems about the generation of the models, for any specifications,    *)
(* published in any order and at any time.  The inductive invariant says   *)
(* what a running tool sorts (Sorting) and has written so far (Written),   *)
(* and what the tools that have run to their end have left (Left).         *)
(***************************************************************************)
EXTENDS Generation, TopologicalSortProofs

Specs == FirstSpecs \cup LaterSpecs

\* What the variables are, and where a running tool may be.
Typed ==
    /\ openapi \in Specs /\ asyncapi \in WsSpecs
    /\ file = [f \in Files |-> file[f]]
    /\ init = [imports |-> init.imports, all |-> init.all]
    /\ \/ tool = NoTool
       \/ \E spec \in Specs, step \in 1 .. 5 :
              tool = [name |-> "models", fetched |-> spec, step |-> step]
       \/ \E spec \in WsSpecs, step \in 1 .. 2 :
              tool = [name |-> "ws", fetched |-> spec, step |-> step]
    /\ current \subseteq {"models", "ws"}

\* What is sorted is the references of the file that is written next.
Sorting ==
    /\ SortInv
    /\ tool.name = "models" /\ tool.step \in 2 .. 4 =>
           deps = Dependencies(tool.fetched, ModelFiles[tool.step])

\* A file as the first tool writes it, in one of the orders it may come to.
IsWritten(f, spec) == \E listing \in Listings(spec, f) : file[f] = Content(spec, f, listing)

\* While a tool runs, its files as far as it has come; it is not counted as ended, nor
\* are those whose work it undoes.
Written ==
    /\ tool.name = "models" =>
           /\ current = {}
           /\ \A i \in 1 .. 4 : i < tool.step => IsWritten(ModelFiles[i], tool.fetched)
    /\ tool.name = "ws" =>
           /\ "ws" \notin current
           /\ "models" \in current => tool.fetched = asyncapi
           /\ tool.step = 2 => file["ws"] = WsContent(tool.fetched)

Exports(spec, classes) ==
    [imports |-> {<<FileOf(spec, n), n>> : n \in Included(spec)} \cup {<<"ws", n>> : n \in classes},
     all |-> Included(spec) \cup classes]

Left ==
    /\ "models" \in current =>
           /\ \A i \in 1 .. 4 : IsWritten(ModelFiles[i], openapi)
           /\ init = Exports(openapi, {}) \/ init = Exports(openapi, DOMAIN asyncapi)
    /\ current = {"models", "ws"} =>
           file["ws"] = WsContent(asyncapi) /\ init = Exports(openapi, DOMAIN asyncapi)

IInv == Typed /\ Sorting /\ Written /\ Left

-----------------------------------------------------------------------------
(* The steps.                                                              *)

LEMMA ModelFilesDiffer ==
    /\ DOMAIN ModelFiles = 1 .. 4
    /\ \A i \in 1 .. 4 : ModelFiles[i] \in Files \ {"ws"}
    /\ \A i, j \in 1 .. 4 : ModelFiles[i] = ModelFiles[j] => i = j
BY DEF ModelFiles, Files

LEMMA FileOfModel ==
    ASSUME NEW spec, NEW n
    PROVE  FileOf(spec, n) \in {"enums", "core", "requests", "responses"}
BY DEF FileOf

LEMMA DependenciesGraph ==
    ASSUME NEW spec \in Specs, NEW f
    PROVE  LET graph == Dependencies(spec, f) IN
           IsFiniteSet(DOMAIN graph) /\ graph \in [DOMAIN graph -> SUBSET DOMAIN graph]
<1> DEFINE names == SchemasOf(spec, f)
<1>1. names \subseteq DOMAIN spec /\ IsFiniteSet(DOMAIN spec)
  BY SpecsAssumption DEF SchemasOf, Included, Specs
<1>2. IsFiniteSet(names)
  BY <1>1, FS_Subset
<1> HIDE DEF names
<1>3. Dependencies(spec, f) = [n \in names |-> (spec[n].refs \cap names) \ {n}]
  BY DEF Dependencies, names
<1>4. DOMAIN Dependencies(spec, f) = names
  BY <1>3
<1>5. Dependencies(spec, f) \in [names -> SUBSET names]
  BY <1>3
<1> QED
  BY <1>2, <1>4, <1>5

\* A sort of nothing: there is none.
LEMMA NothingSorted == StartSort(NoSchemas) => SortInv'
<1>1. DOMAIN NoSchemas = {} /\ NoSchemas \in [DOMAIN NoSchemas -> SUBSET DOMAIN NoSchemas]
  BY DEF NoSchemas
<1> QED
  BY <1>1, SortStarts, FS_EmptySet

LEMMA InitIInv == Init => IInv
<1> SUFFICES ASSUME Init PROVE IInv
  OBVIOUS
<1>1. tool.name = "none" /\ current = {}
  BY DEF Init, NoTool
<1>2. Typed
  BY DEF Init, Typed, Specs
<1>3. SortInv
  <2>1. /\ deps = <<>> /\ todo = {} /\ stack = <<>> /\ sorted = <<>> /\ visiting = {}
        /\ visited = {} /\ Names = {} /\ Depth = {} /\ DOMAIN sorted = {}
    BY DEF Init, NoSchemas, Names, Depth
  <2>2. SortTypeOK
    <3>1. IsFiniteSet({})
      BY FS_EmptySet
    <3> QED
      BY <2>1, <3>1 DEF SortTypeOK, Graphs
  <2>3. Marks
    BY <2>1 DEF Marks
  <2> QED
    BY <2>1, <2>2, <2>3 DEF SortInv, Path, Looped, Listed, Entered
<1> QED
  BY <1>1, <1>2, <1>3 DEF IInv, Sorting, Written, Left

LEMMA PublishStep ==
    ASSUME IInv,
           \/ \E spec \in LaterSpecs : PublishOpenapi(spec)
           \/ \E spec \in WsSpecs : PublishAsyncapi(spec)
    PROVE  IInv'
<1>1. /\ current' = {} /\ UNCHANGED <<file, init, tool, sortVars>>
      /\ openapi' \in Specs /\ asyncapi' \in WsSpecs
  BY DEF PublishOpenapi, PublishAsyncapi, Publishes, IInv, Typed, Specs
<1>2. Typed'
  BY <1>1 DEF IInv, Typed
<1>3. Written'
  BY <1>1 DEF IInv, Written, IsWritten
<1>4. Sorting'
  BY <1>1, SortUnchanged DEF IInv, Sorting, sortVars
<1> QED
  BY <1>1, <1>2, <1>3, <1>4 DEF IInv, Left

LEMMA StartStep == IInv /\ (Starts("models", openapi) \/ Starts("ws", asyncapi)) => IInv'
<1>1. ASSUME IInv, Starts("models", openapi) PROVE IInv'
  <2>1. /\ tool' = [name |-> "models", fetched |-> openapi, step |-> 1]
        /\ current' = {} /\ UNCHANGED <<openapi, asyncapi, file, init, sortVars>>
    BY <1>1 DEF Starts
  <2>2. Typed'
    BY <1>1, <2>1 DEF IInv, Typed
  <2>3. Written'
    BY <2>1 DEF Written
  <2>4. Sorting'
    BY <1>1, <2>1, SortUnchanged DEF IInv, Sorting
  <2> QED
    BY <2>1, <2>2, <2>3, <2>4 DEF IInv, Left
<1>2. ASSUME IInv, Starts("ws", asyncapi) PROVE IInv'
  <2>1. /\ tool' = [name |-> "ws", fetched |-> asyncapi, step |-> 1]
        /\ current' = current \ {"ws"} /\ UNCHANGED <<openapi, asyncapi, file, init, sortVars>>
    BY <1>2 DEF Starts
  <2>2. Typed'
    BY <1>2, <2>1 DEF IInv, Typed
  <2>3. Written'
    BY <2>1 DEF Written
  <2>4. Left'
    BY <1>2, <2>1 DEF IInv, Left, IsWritten
  <2>5. Sorting'
    BY <1>2, <2>1, SortUnchanged DEF IInv, Sorting
  <2> QED
    BY <2>2, <2>3, <2>4, <2>5 DEF IInv
<1> QED
  BY <1>1, <1>2

LEMMA SortModelsStep == IInv /\ SortModels => IInv'
<1> SUFFICES ASSUME IInv, SortModels PROVE IInv'
  OBVIOUS
<1>1. SortStep /\ UNCHANGED <<openapi, asyncapi, file, init, tool, current, deps>>
  BY DEF SortModels, SortStep, VisitSchema, VisitDependency, Return
<1>2. Typed'
  BY <1>1 DEF IInv, Typed
<1>3. Sorting'
  BY <1>1, SortGoesOn DEF IInv, Sorting
<1>4. Written' /\ Left'
  BY <1>1 DEF IInv, Written, Left, IsWritten
<1> QED
  BY <1>2, <1>3, <1>4 DEF IInv

\* What the steps that write a file of the first tool have in common.
LEMMA FileWritten ==
    ASSUME IInv, NEW spec \in Specs, NEW step \in 1 .. 4,
           tool = [name |-> "models", fetched |-> spec, step |-> step],
           tool' = [name |-> "models", fetched |-> spec, step |-> step + 1],
           NEW listing \in Listings(spec, ModelFiles[step]),
           file' = [file EXCEPT ![ModelFiles[step]] = Content(spec, ModelFiles[step], listing)],
           UNCHANGED <<openapi, asyncapi, init, current>>
    PROVE  Typed' /\ Written' /\ Left'
<1> DEFINE f == ModelFiles[step]
<1>1. /\ f \in Files /\ file = [g \in Files |-> file[g]]
      /\ \A i \in 1 .. 4 : ModelFiles[i] = f => i = step
  BY ModelFilesDiffer DEF IInv, Typed
<1>2. /\ file'[f] = Content(spec, f, listing)
      /\ \A g \in Files : g # f => file'[g] = file[g]
      /\ file' = [g \in Files |-> file'[g]]
  BY <1>1
<1> HIDE DEF f
<1>3. Typed'
  BY <1>2 DEF IInv, Typed
<1>4. current = {} /\ \A i \in 1 .. 4 : i < step => IsWritten(ModelFiles[i], spec)
  BY DEF IInv, Written
<1>5. ASSUME NEW i \in 1 .. 4, i < step + 1 PROVE IsWritten(ModelFiles[i], spec)'
  <2>1. CASE i = step
    BY <1>2, <2>1 DEF IsWritten, f
  <2>2. CASE i # step
    BY <1>1, <1>2, <1>4, <1>5, <2>2, ModelFilesDiffer DEF IsWritten
  <2> QED
    BY <2>1, <2>2
<1>6. Written'
  BY <1>4, <1>5 DEF Written, IsWritten
<1> QED
  BY <1>3, <1>4, <1>6 DEF Left

LEMMA WriteEnumsStep == IInv /\ WriteEnums => IInv'
<1> SUFFICES ASSUME IInv, WriteEnums PROVE IInv'
  OBVIOUS
<1>1. PICK spec \in Specs : tool = [name |-> "models", fetched |-> spec, step |-> 1]
  BY DEF IInv, Typed, WriteEnums, NoTool
<1>2. PICK listing \in Orderings(SchemasOf(spec, "enums")) :
          file' = [file EXCEPT !["enums"] = Content(spec, "enums", listing)]
  BY <1>1 DEF WriteEnums
<1>3. /\ tool' = [name |-> "models", fetched |-> spec, step |-> 2]
      /\ UNCHANGED <<openapi, asyncapi, init, current>>
      /\ StartSort(Dependencies(spec, ModelFiles[2]))
  BY <1>1 DEF WriteEnums
<1>4. ModelFiles[1] = "enums" /\ listing \in Listings(spec, ModelFiles[1])
  BY <1>2 DEF ModelFiles, Listings
<1>5. Typed' /\ Written' /\ Left'
  <2>1. 1 \in 1 .. 4 /\ 1 + 1 = 2
    OBVIOUS
  <2>2. file' = [file EXCEPT ![ModelFiles[1]] = Content(spec, ModelFiles[1], listing)]
    BY <1>2, <1>4
  <2> QED
    BY <1>1, <1>3, <1>4, <2>1, <2>2, FileWritten
<1>6. Sorting'
  BY <1>3, DependenciesGraph, SortStarts DEF Sorting, StartSort
<1> QED
  BY <1>5, <1>6 DEF IInv

\* What is written is in the order that the sort has come to.
LEMMA WriteModelsStep == IInv /\ WriteModels => IInv'
<1> SUFFICES ASSUME IInv, WriteModels PROVE IInv'
  OBVIOUS
<1>1. Len(ModelFiles) = 4
  BY DEF ModelFiles
<1>2. PICK spec \in Specs, step \in 2 .. 4 :
          tool = [name |-> "models", fetched |-> spec, step |-> step]
  BY <1>1 DEF IInv, Typed, WriteModels, NoTool
<1> DEFINE f == ModelFiles[step]
<1>3. /\ file' = [file EXCEPT ![f] = Content(spec, f, sorted)]
      /\ tool' = [name |-> "models", fetched |-> spec, step |-> step + 1]
      /\ UNCHANGED <<openapi, asyncapi, init, current>> /\ Finished
      /\ StartSort(IF step = 4 THEN NoSchemas ELSE Dependencies(spec, ModelFiles[step + 1]))
  BY <1>1, <1>2 DEF WriteModels
<1>4. sorted \in Listings(spec, f)
  <2>1. sorted \in TopologicalOrders(deps)
    BY <1>3, SortedTopologically DEF IInv, Sorting, SortIsTopological
  <2>2. deps = Dependencies(spec, f)
    BY <1>2 DEF IInv, Sorting
  <2>3. f # "enums"
    BY DEF ModelFiles
  <2> HIDE DEF f
  <2> QED
    BY <2>1, <2>2, <2>3 DEF Listings
<1>5. Typed' /\ Written' /\ Left'
  <2>1. step \in 1 .. 4
    OBVIOUS
  <2> QED
    BY <1>2, <1>3, <1>4, <2>1, FileWritten
<1>6. Sorting'
  <2>1. CASE step = 4
    <3>1. StartSort(NoSchemas) /\ tool'.step = 5
      BY <1>3, <2>1
    <3> QED
      BY <3>1, NothingSorted DEF Sorting
  <2>2. CASE step # 4
    <3>1. StartSort(Dependencies(spec, ModelFiles[step + 1]))
      BY <1>3, <2>2
    <3>2. SortInv' /\ deps' = Dependencies(spec, ModelFiles[step + 1])
      BY <3>1, DependenciesGraph, SortStarts DEF StartSort
    <3> QED
      BY <1>3, <3>2 DEF Sorting
  <2> QED
    BY <2>1, <2>2
<1> QED
  BY <1>5, <1>6 DEF IInv

LEMMA FinishModelsStep == IInv /\ FinishModels => IInv'
<1> SUFFICES ASSUME IInv, FinishModels PROVE IInv'
  OBVIOUS
<1>1. PICK spec \in Specs : tool = [name |-> "models", fetched |-> spec, step |-> 5]
  <2>1. Len(ModelFiles) = 4
    BY DEF ModelFiles
  <2> QED
    BY <2>1 DEF IInv, Typed, FinishModels, NoTool
<1>2. /\ tool' = NoTool /\ UNCHANGED <<openapi, asyncapi, file, sortVars>>
      /\ init' = WriteInit(spec)
      /\ current' = IF spec = openapi THEN current \cup {"models"} ELSE current
  BY <1>1 DEF FinishModels, Ends
<1>3. current = {} /\ \A i \in 1 .. 4 : IsWritten(ModelFiles[i], spec)
  BY <1>1 DEF IInv, Written
<1>4. init' = Exports(spec, {})
  BY <1>2 DEF WriteInit, Exports
<1>5. Typed'
  BY <1>2, <1>3, <1>4 DEF IInv, Typed, Exports
<1>6. Written'
  BY <1>2 DEF Written, NoTool
<1>7. Left'
  BY <1>2, <1>3, <1>4 DEF Left, IsWritten
<1>8. Sorting'
  BY <1>2, SortUnchanged DEF IInv, Sorting, NoTool
<1> QED
  BY <1>5, <1>6, <1>7, <1>8 DEF IInv

LEMMA WriteWsStep == IInv /\ WriteWs => IInv'
<1> SUFFICES ASSUME IInv, WriteWs PROVE IInv'
  OBVIOUS
<1>1. PICK spec \in WsSpecs : tool = [name |-> "ws", fetched |-> spec, step |-> 1]
  BY DEF IInv, Typed, WriteWs, NoTool
<1>2. /\ file' = [file EXCEPT !["ws"] = WsContent(spec)]
      /\ tool' = [name |-> "ws", fetched |-> spec, step |-> 2]
      /\ UNCHANGED <<openapi, asyncapi, init, current, sortVars>>
  BY <1>1 DEF WriteWs
<1>3. /\ file'["ws"] = WsContent(spec)
      /\ \A g \in Files : g # "ws" => file'[g] = file[g]
      /\ file' = [g \in Files |-> file'[g]]
  BY <1>2 DEF IInv, Typed, Files
<1>4. Typed'
  BY <1>2, <1>3 DEF IInv, Typed
<1>5. Written'
  BY <1>1, <1>2, <1>3 DEF IInv, Written
<1>6. Left'
  BY <1>1, <1>2, <1>3, ModelFilesDiffer DEF IInv, Written, Left, IsWritten
<1>7. Sorting'
  BY <1>2, SortUnchanged DEF IInv, Sorting
<1> QED
  BY <1>4, <1>5, <1>6, <1>7 DEF IInv

\* Nothing that the first tool exports is of the file of the second.
LEMMA UpdatedExports ==
    ASSUME NEW spec, NEW before, NEW fetched, init = Exports(spec, before),
           before \in {{}, DOMAIN fetched}
    PROVE  UpdateInit(fetched) = Exports(spec, DOMAIN fetched)
<1> DEFINE classes == DOMAIN fetched
           models == {<<FileOf(spec, n), n>> : n \in Included(spec)}
           ws(names) == {<<"ws", n>> : n \in names}
<1>1. \A i \in models : i[1] # "ws"
  BY FileOfModel
<1>2. \A i \in ws(before) : i[1] = "ws"
  OBVIOUS
<1> HIDE DEF models, ws, classes
<1>3. {i \in models \cup ws(before) : i[1] # "ws"} = models
  BY <1>1, <1>2
<1>4. init.imports = models \cup ws(before) /\ init.all = Included(spec) \cup before
  BY DEF Exports, models, ws
<1>5. before \in {{}, classes}
  BY DEF classes
<1>6. UpdateInit(fetched) = [imports |-> models \cup ws(classes), all |-> Included(spec) \cup classes]
  BY <1>3, <1>4, <1>5 DEF UpdateInit, ws, classes
<1> QED
  BY <1>6 DEF Exports, models, ws, classes

LEMMA FinishWsStep == IInv /\ FinishWs => IInv'
<1> SUFFICES ASSUME IInv, FinishWs PROVE IInv'
  OBVIOUS
<1>1. PICK spec \in WsSpecs : tool = [name |-> "ws", fetched |-> spec, step |-> 2]
  BY DEF IInv, Typed, FinishWs, NoTool
<1>2. /\ tool' = NoTool /\ UNCHANGED <<openapi, asyncapi, file, sortVars>>
      /\ init' = UpdateInit(spec)
      /\ current' = IF spec = asyncapi THEN current \cup {"ws"} ELSE current
  BY <1>1 DEF FinishWs, Ends
<1>3. /\ "ws" \notin current /\ file["ws"] = WsContent(spec)
      /\ "models" \in current => spec = asyncapi
  BY <1>1 DEF IInv, Written
<1>4. "models" \in current => init' = Exports(openapi, DOMAIN asyncapi)
  BY <1>2, <1>3, UpdatedExports DEF IInv, Left
<1>5. Typed'
  BY <1>2 DEF IInv, Typed, UpdateInit
<1>6. Written'
  BY <1>2 DEF Written, NoTool
<1>7. Left'
  BY <1>2, <1>3, <1>4 DEF IInv, Left, IsWritten
<1>8. Sorting'
  BY <1>2, SortUnchanged DEF IInv, Sorting, NoTool
<1> QED
  BY <1>5, <1>6, <1>7, <1>8 DEF IInv

LEMMA StopStep == IInv /\ Stop => IInv'
<1> SUFFICES ASSUME IInv, Stop PROVE IInv'
  OBVIOUS
<1>1. tool' = NoTool /\ StartSort(NoSchemas) /\ UNCHANGED <<openapi, asyncapi, file, init, current>>
  BY DEF Stop
<1>2. Typed'
  BY <1>1 DEF IInv, Typed
<1>3. Written' /\ Left'
  BY <1>1 DEF IInv, Written, Left, IsWritten, NoTool
<1>4. Sorting'
  BY <1>1, NothingSorted DEF Sorting, NoTool
<1> QED
  BY <1>2, <1>3, <1>4 DEF IInv

LEMMA InvariantHolds == Spec => []IInv
<1>1. IInv /\ [Next]_vars => IInv'
  <2>1. ASSUME IInv, UNCHANGED vars PROVE IInv'
    <3>1. Typed'
      BY <2>1 DEF IInv, Typed, vars
    <3>2. Written' /\ Left'
      BY <2>1 DEF IInv, Written, Left, IsWritten, vars
    <3>3. Sorting'
      <4>1. SortInv'
        BY <2>1, SortUnchanged DEF IInv, Sorting, vars
      <4>2. UNCHANGED <<tool, deps>>
        BY <2>1 DEF vars, sortVars
      <4> QED
        BY <2>1, <4>1, <4>2 DEF IInv, Sorting
    <3> QED
      BY <3>1, <3>2, <3>3 DEF IInv
  <2> QED
    BY <2>1, PublishStep, StartStep, WriteEnumsStep, SortModelsStep, WriteModelsStep, FinishModelsStep, WriteWsStep,
       FinishWsStep, StopStep DEF Next
<1> QED
  BY <1>1, InitIInv, PTL DEF Spec

-----------------------------------------------------------------------------
(* What the files are worth.                                               *)

\* What a dependency leads to, a schema leads to.
LEMMA DependencyLeads ==
    ASSUME NEW graph, NEW n \in DOMAIN graph, NEW m \in DOMAIN graph, m \in graph[n]
    PROVE  Reach(graph, m) \subseteq Reach(graph, n)
<1> SUFFICES ASSUME NEW r \in Reach(graph, m), NEW names \in SUBSET DOMAIN graph,
                    graph[n] \subseteq names, Closed(graph, names)
             PROVE  r \in names
  BY DEF Reach
<1>1. graph[m] \subseteq names
  BY DEF Closed
<1> QED
  BY <1>1 DEF Reach

\* A listing of a set has its members, and no others.
LEMMA ListedOnce ==
    ASSUME NEW names, NEW listing \in Orderings(names)
    PROVE  /\ DOMAIN listing = 1 .. Cardinality(names)
           /\ \A i \in DOMAIN listing : listing[i] \in names
           /\ \A n \in names : \E i \in DOMAIN listing : listing[i] = n
<1>1. listing \in Surjection(1 .. Cardinality(names), names)
  BY DEF Orderings, Bijection
<1> QED
  BY <1>1 DEF Surjection

\* An order of a file is a listing of its schemas.
LEMMA SortedNames ==
    ASSUME NEW spec, NEW f, NEW listing \in Listings(spec, f)
    PROVE  /\ \A i, j \in DOMAIN listing : j < i => j \in 1 .. i - 1
           /\ \A i \in DOMAIN listing : listing[i] \in SchemasOf(spec, f)
           /\ \A n \in SchemasOf(spec, f) : \E i \in DOMAIN listing : listing[i] = n
           /\ f # "enums" => DependenciesFirst(Dependencies(spec, f), listing)
<1> DEFINE names == SchemasOf(spec, f)
<1>1. DOMAIN Dependencies(spec, f) = names
  BY DEF Dependencies
<1>2. listing \in Orderings(names) /\ (f # "enums" => DependenciesFirst(Dependencies(spec, f), listing))
  BY <1>1 DEF Listings, TopologicalOrders
<1> HIDE DEF names
<1>3. \A i, j \in 1 .. Cardinality(names) : j < i => j \in 1 .. i - 1
  OBVIOUS
<1>4. /\ DOMAIN listing = 1 .. Cardinality(names)
      /\ \A i \in DOMAIN listing : listing[i] \in names
      /\ \A n \in names : \E i \in DOMAIN listing : listing[i] = n
  BY <1>2, ListedOnce
<1> QED
  BY <1>2, <1>3, <1>4 DEF names

\* A file of the first tool defines its schemas.
LEMMA DefinedNames ==
    ASSUME NEW spec, NEW f, IsWritten(f, spec)
    PROVE  Defined(f) = SchemasOf(spec, f)
<1>1. PICK listing \in Listings(spec, f) : file[f] = Content(spec, f, listing)
  BY DEF IsWritten
<1>2. /\ DOMAIN file[f].definitions = DOMAIN listing
      /\ \A i \in DOMAIN listing : file[f].definitions[i].name = listing[i]
  BY <1>1 DEF Content, Definition
<1> QED
  BY <1>2, SortedNames DEF Defined

\* The file of the second tool defines its classes, and needs at once nothing.
LEMMA WsNames ==
    ASSUME NEW spec, IsFiniteSet(DOMAIN spec), file["ws"] = WsContent(spec), WellFormedWs(spec)
    PROVE  Defined("ws") = DOMAIN spec /\ Loads("ws") /\ Completes("ws")
<1> DEFINE classes == DOMAIN spec
           listing == CHOOSE ordering \in Orderings(classes) : TRUE
           here == file["ws"].definitions
<1>1. Orderings(classes) # {}
  BY FS_CardinalityType, Fun_ExistsBij DEF Orderings
<1>2. listing \in Orderings(classes)
  BY <1>1
<1>3. /\ file["ws"].imports = {} /\ file["ws"].typing = {"Any"}
      /\ here = [i \in DOMAIN listing |->
                    [name |-> listing[i], atOnce |-> {}, later |-> spec[listing[i]]]]
  BY DEF WsContent
<1> HIDE DEF listing
<1>4. /\ \A i \in DOMAIN listing : listing[i] \in classes
      /\ \A n \in classes : \E i \in DOMAIN listing : listing[i] = n
  BY <1>2, ListedOnce
<1>5. Defined("ws") = {here[i].name : i \in DOMAIN here}
  BY DEF Defined
<1> HIDE DEF here
<1>6. /\ DOMAIN here = DOMAIN listing
      /\ \A i \in DOMAIN listing :
             here[i].name = listing[i] /\ here[i].atOnce = {} /\ here[i].later = spec[listing[i]]
  BY <1>3
<1>7. {here[i].name : i \in DOMAIN here} = {listing[i] : i \in DOMAIN listing}
  BY <1>6
<1>8. {listing[i] : i \in DOMAIN listing} = classes
  BY <1>4
<1>9. Imported("ws") = {"Any"}
  BY <1>3 DEF Imported
<1>10. Loads("ws")
  BY <1>3, <1>6 DEF Loads, here
<1>11. Completes("ws")
  BY <1>4, <1>5, <1>6, <1>7, <1>8, <1>9 DEF Completes, WellFormedWs, here
<1> QED
  BY <1>5, <1>7, <1>8, <1>10, <1>11

AllWritten(spec) == \A f \in Files \ {"ws"} : IsWritten(f, spec)

\* What is imported comes from the file it is defined in.
LEMMA ImportedNames ==
    ASSUME NEW spec, NEW f, NEW i \in Imports(spec, f)
    PROVE  \E r \in Included(spec) :
               i = <<FileOf(spec, r), r>> /\ FileOf(spec, r) \in {"enums", "core"}
<1> DEFINE referred == UNION {spec[n].refs : n \in SchemasOf(spec, f)}
           external == (referred \cap Included(spec)) \ SchemasOf(spec, f)
<1>1. i \in {<<"enums", r>> : r \in {r \in external : FileOf(spec, r) = "enums"}} \cup
            {<<"core", r>> : r \in {r \in external : FileOf(spec, r) = "core" /\ f # "core"}}
  BY DEF Imports
<1> HIDE DEF referred
<1>2. external \subseteq Included(spec)
  OBVIOUS
<1> HIDE DEF external
<1> QED
  BY <1>1, <1>2

\* What a schema refers to is defined in its file or imported there.
LEMMA RefersTo ==
    ASSUME NEW spec, WellFormed(spec), NEW f \in Files \ {"ws"}, IsWritten(f, spec),
           NEW n \in SchemasOf(spec, f), NEW r \in spec[n].refs, r \in Included(spec)
    PROVE  r \in SchemasOf(spec, f) \/ r \in Imported(f)
<1> DEFINE referred == UNION {spec[m].refs : m \in SchemasOf(spec, f)}
           external == (referred \cap Included(spec)) \ SchemasOf(spec, f)
<1>1. FileOf(spec, r) \in {"enums", "core", f}
  BY DEF WellFormed, SchemasOf
<1>2. CASE FileOf(spec, r) = f
  BY <1>2 DEF SchemasOf
<1>3. CASE FileOf(spec, r) # f
  <2>1. r \in referred
    <3>1. spec[n].refs \in {spec[m].refs : m \in SchemasOf(spec, f)}
      OBVIOUS
    <3> QED
      BY <3>1
  <2>2. r \notin SchemasOf(spec, f)
    BY <1>3 DEF SchemasOf
  <2>3. Imports(spec, f) =
            {<<"enums", s>> : s \in {s \in external : FileOf(spec, s) = "enums"}} \cup
            {<<"core", s>> : s \in {s \in external : FileOf(spec, s) = "core" /\ f # "core"}}
    BY DEF Imports
  <2> HIDE DEF referred
  <2>4. r \in external
    BY <2>1, <2>2
  <2> HIDE DEF external
  <2>5. <<FileOf(spec, r), r>> \in Imports(spec, f)
    BY <1>1, <1>3, <2>3, <2>4
  <2>6. file[f].imports = Imports(spec, f)
    BY DEF IsWritten, Content
  <2> QED
    BY <2>5, <2>6 DEF Imported
<1> QED
  BY <1>2, <1>3

\* Any is imported where a definition uses it.
LEMMA AnyImported ==
    ASSUME NEW spec, WellFormed(spec), NEW f \in Files \ {"ws"}, IsWritten(f, spec),
           NEW n \in SchemasOf(spec, f),
           \/ spec[n].kind = "array" /\ spec[n].any
           \/ "Any" \in Later(spec, n)
    PROVE  "Any" \in Imported(f)
<1>1. n \in Included(spec) /\ FileOf(spec, n) = f
  BY DEF SchemasOf
<1>2. "Any" \in Typing(spec, f)
  <2>1. CASE "Any" \in Later(spec, n)
    <3>1. Later(spec, n) \in {Later(spec, m) : m \in SchemasOf(spec, f)}
      OBVIOUS
    <3> QED
      BY <2>1, <3>1 DEF Typing
  <2>2. CASE spec[n].kind = "array" /\ spec[n].any
    BY <1>1, <2>2 DEF WellFormed
  <2> QED
    BY <2>1, <2>2
<1>3. file[f].typing = Typing(spec, f)
  BY DEF IsWritten, Content
<1> QED
  BY <1>2, <1>3 DEF Imported

LEMMA ModelsLoad ==
    ASSUME WellFormed(openapi), AllWritten(openapi), NEW f \in Files \ {"ws"}
    PROVE  Loads(f)
<1>1. PICK listing \in Listings(openapi, f) : file[f] = Content(openapi, f, listing)
  BY DEF AllWritten, IsWritten
<1> DEFINE names == SchemasOf(openapi, f)
           graph == Dependencies(openapi, f)
           here == file[f].definitions
<1>2. /\ file[f].imports = Imports(openapi, f)
      /\ here = [i \in DOMAIN listing |-> Definition(openapi, listing[i])]
  BY <1>1 DEF Content
<1>3. ASSUME NEW i \in Imports(openapi, f) PROVE i[2] \in Defined(i[1])
  <2>1. PICK r \in Included(openapi) :
            /\ i = <<FileOf(openapi, r), r>>
            /\ FileOf(openapi, r) \in {"enums", "core"}
    BY <1>3, ImportedNames
  <2>2. FileOf(openapi, r) \in Files \ {"ws"}
    BY <2>1 DEF Files
  <2>3. r \in SchemasOf(openapi, FileOf(openapi, r))
    BY DEF SchemasOf
  <2> QED
    BY <2>1, <2>2, <2>3, DefinedNames DEF AllWritten
<1>4. ASSUME NEW i \in DOMAIN listing, NEW r \in AtOnce(openapi, listing[i])
      PROVE  \/ r \in Imported(f)
             \/ \E j \in 1 .. i - 1 : j \in DOMAIN listing /\ listing[j] = r
             \/ r \in Defined(f) /\ LeadsBack(f, r, listing[i])
  <2> DEFINE n == listing[i]
  <2>1. /\ n \in names /\ openapi[n].kind = "array"
        /\ r \in openapi[n].refs \ TypeAliases \/ (r = "Any" /\ openapi[n].any)
    BY <1>4, SortedNames DEF AtOnce
  <2>2. n \in Included(openapi) /\ FileOf(openapi, n) = f /\ f # "enums"
    BY <2>1 DEF SchemasOf, FileOf
  <2>3. CASE r = "Any" /\ openapi[n].any
    BY <2>1, <2>3, AnyImported DEF AllWritten
  <2>4. ASSUME r \in openapi[n].refs \ TypeAliases, r \notin names
        PROVE  r \in Imported(f)
    <3>1. r \in Included(openapi)
      BY <2>1, <2>2, <2>4 DEF WellFormed
    <3> QED
      BY <2>1, <2>4, <3>1, RefersTo DEF AllWritten
  <2>5. ASSUME r \in openapi[n].refs, r \in names, ~LeadsBack(f, r, n)
        PROVE  \E j \in 1 .. i - 1 : j \in DOMAIN listing /\ listing[j] = r
    <3>1. r # n /\ n \notin Reach(graph, r)
      BY <2>5 DEF LeadsBack
    <3>2. r \in graph[n] /\ DOMAIN graph = names
      BY <2>1, <2>5, <3>1 DEF Dependencies
    <3>3. PICK j \in DOMAIN listing : listing[j] = r
      BY <2>5, SortedNames
    <3>4. j < i
      <4>1. DependenciesFirst(graph, listing)
        BY <2>2, SortedNames
      <4> HIDE DEF graph
      <4> QED
        BY <3>1, <3>2, <3>3, <4>1 DEF DependenciesFirst
    <3> QED
      BY <3>3, <3>4, SortedNames
  <2>6. Defined(f) = names
    BY DefinedNames DEF AllWritten
  <2> QED
    BY <2>1, <2>3, <2>4, <2>5, <2>6
<1>5. \A i \in DOMAIN listing :
          here[i].atOnce = AtOnce(openapi, listing[i]) /\ here[i].name = listing[i]
  BY <1>2 DEF Definition
<1>6. DOMAIN here = DOMAIN listing
  BY <1>2
<1> HIDE DEF here
<1>7. ASSUME NEW i \in DOMAIN here, NEW r \in here[i].atOnce
      PROVE  \/ r \in Imported(f) \cup {here[j].name : j \in 1 .. i - 1}
             \/ r \in Defined(f) /\ LeadsBack(f, r, here[i].name)
  BY <1>4, <1>5, <1>6, <1>7
<1> QED
  BY <1>2, <1>3, <1>7 DEF Loads, here

LEMMA ModelsComplete ==
    ASSUME NEW spec, WellFormed(spec), AllWritten(spec), NEW f \in Files \ {"ws"}
    PROVE  Completes(f)
<1>1. PICK listing \in Listings(spec, f) : file[f] = Content(spec, f, listing)
  BY DEF AllWritten, IsWritten
<1>2. Defined(f) = SchemasOf(spec, f)
  BY DefinedNames DEF AllWritten
<1>3. ASSUME NEW i \in DOMAIN file[f].definitions, NEW r \in file[f].definitions[i].later
      PROVE  r \in Imported(f) \cup Defined(f)
  <2>1. i \in DOMAIN listing /\ file[f].definitions[i] = Definition(spec, listing[i])
    BY <1>1 DEF Content
  <2>2. r \in Later(spec, listing[i])
    BY <1>3, <2>1 DEF Definition
  <2>3. listing[i] \in SchemasOf(spec, f)
    BY <2>1, SortedNames
  <2>4. CASE r = "Any"
    BY <2>2, <2>3, <2>4, AnyImported DEF AllWritten
  <2>5. CASE r \in spec[listing[i]].refs \cap Included(spec)
    BY <1>2, <2>3, <2>5, RefersTo DEF AllWritten
  <2> QED
    BY <2>2, <2>4, <2>5 DEF Later
<1> QED
  BY <1>3 DEF Completes

-----------------------------------------------------------------------------
(* The theorem.                                                            *)

\* Whatever the exchange publishes and whenever it does, and wherever a run of a tool
\* was stopped: after both tools have run to their end, in their order, on what is
\* published, the package imports, its classes complete, and it exports what is
\* generated and nothing else (generate_models.py 459-499, generate_ws_models.py
\* 323-403).
THEOREM PackageIsRegenerated == Spec => []Regenerated
<1>1. IInv => Regenerated
  <2> SUFFICES ASSUME IInv, current = {"models", "ws"}, WellFormed(openapi),
                      WellFormedWs(asyncapi)
               PROVE  Package /\ init.all = Included(openapi) \cup DOMAIN asyncapi
    BY DEF Regenerated
  <2>1. /\ \A i \in 1 .. 4 : IsWritten(ModelFiles[i], openapi)
        /\ file["ws"] = WsContent(asyncapi) /\ init = Exports(openapi, DOMAIN asyncapi)
        /\ IsFiniteSet(DOMAIN asyncapi)
    BY SpecsAssumption DEF IInv, Left, Typed
  <2>2. AllWritten(openapi)
    <3>1. \A f \in Files \ {"ws"} : \E i \in 1 .. 4 : ModelFiles[i] = f
      BY DEF Files, ModelFiles
    <3> QED
      BY <2>1, <3>1 DEF AllWritten
  <2>3. Loads("ws") /\ Completes("ws") /\ Defined("ws") = DOMAIN asyncapi
    BY <2>1, WsNames
  <2>4. \A f \in Files : Loads(f) /\ Completes(f)
    BY <2>2, <2>3, ModelsLoad, ModelsComplete
  <2>5. ASSUME NEW i \in init.imports PROVE i[2] \in Defined(i[1])
    <3>1. CASE \E n \in DOMAIN asyncapi : i = <<"ws", n>>
      BY <2>3, <3>1
    <3>2. ASSUME NEW n \in Included(openapi), i = <<FileOf(openapi, n), n>>
          PROVE  i[2] \in Defined(i[1])
      <4>1. FileOf(openapi, n) \in Files \ {"ws"} /\ n \in SchemasOf(openapi, FileOf(openapi, n))
        BY FileOfModel DEF Files, SchemasOf
      <4> QED
        BY <2>2, <3>2, <4>1, DefinedNames DEF AllWritten
    <3> QED
      <4>1. i \in {<<FileOf(openapi, n), n>> : n \in Included(openapi)} \cup
                  {<<"ws", n>> : n \in DOMAIN asyncapi}
        BY <2>1 DEF Exports
      <4> QED
        BY <3>1, <3>2, <4>1
  <2>6. init.all = {i[2] : i \in init.imports} /\ init.all = Included(openapi) \cup DOMAIN asyncapi
    <3> DEFINE models == {<<FileOf(openapi, n), n>> : n \in Included(openapi)}
               ws == {<<"ws", n>> : n \in DOMAIN asyncapi}
    <3>1. {i[2] : i \in models} = Included(openapi)
      <4>1. \A i \in models : i[2] \in Included(openapi)
        OBVIOUS
      <4>2. \A n \in Included(openapi) :
                <<FileOf(openapi, n), n>> \in models /\ <<FileOf(openapi, n), n>>[2] = n
        OBVIOUS
      <4> HIDE DEF models
      <4> QED
        BY <4>1, <4>2
    <3>2. {i[2] : i \in ws} = DOMAIN asyncapi
      <4>1. \A i \in ws : i[2] \in DOMAIN asyncapi
        OBVIOUS
      <4>2. \A n \in DOMAIN asyncapi : <<"ws", n>> \in ws /\ <<"ws", n>>[2] = n
        OBVIOUS
      <4> HIDE DEF ws
      <4> QED
        BY <4>1, <4>2
    <3>3. init.imports = models \cup ws /\ init.all = Included(openapi) \cup DOMAIN asyncapi
      BY <2>1 DEF Exports
    <3> HIDE DEF models, ws
    <3> QED
      BY <3>1, <3>2, <3>3
  <2> QED
    BY <2>4, <2>5, <2>6 DEF Package
<1> QED
  BY <1>1, InvariantHolds, PTL

\* Whatever the specifications and the references in them, and whatever the order in
\* which dictionaries and sets are gone through: topological_sort lists every schema
\* of a file once, and after everything it refers to unless that leads back to it
\* (generate_models.py 260-291).
THEOREM SortsTopologically == Spec => []SortIsTopological
<1>1. IInv => SortIsTopological
  BY SortedTopologically DEF IInv, Sorting
<1> QED
  BY <1>1, InvariantHolds, PTL

\* However many cycles there are, visit never calls itself more often than there are
\* schemas (generate_models.py 276-281).
THEOREM DepthBounded == Spec => []DepthIsBounded
<1>1. IInv => DepthIsBounded
  BY DepthKept DEF IInv, Sorting
<1> QED
  BY <1>1, InvariantHolds, PTL
=============================================================================
