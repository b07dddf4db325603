------------------------- MODULE BuildRecordsProofs -------------------------
(***************************************************************************)
(* Proofs about BuildRecords.  The properties follow from one inductive    *)
(* invariant.  A request has its version to itself from the insert of the  *)
(* version on, so that its rows can be said to be those of the plan before *)
(* the one it inserts next; and every step of the module but the inserts   *)
(* is covered by a lemma that says what such a step may change at most.    *)
(***************************************************************************)
EXTENDS BuildRecords, SequenceTheorems, DataLemmas, TLAPS

(* The rows of a plan, in the order preBuild inserts them.                 *)

Before(w, x) == w[1] < x[1] \/ (w[1] = x[1] /\ w[2] < x[2])
RowsBefore(d, x) == {w \in Plan(d) : Before(w, x)}

\* What a row of a plan is.
LEMMA PlanRow ==
  ASSUME NEW d \in Docs, NEW w
  PROVE  w \in Plan(d) <=> \/ w = <<0, 0>>
                           \/ \E i \in 1 .. Len(Sizes[d]) : \E j \in 0 .. Sizes[d][i] : w = <<i, j>>
  BY RecordsShape DEF Plan, RecordsShape

\* Rows are pairs of numbers.
LEMMA PlanIsRows ==
  ASSUME NEW d \in Docs
  PROVE  Plan(d) \subseteq Nat \X Nat
BY PlanRow, RecordsShape DEF RecordsShape

\* preBuild inserts the rows of a plan in one order and leaves none out: those before
\* the next one are those before this one and this one, and after the last row there
\* is no row left.
LEMMA NextRow ==
  ASSUME NEW d \in Docs, NEW w \in Plan(d)
  PROVE  /\ RowsBefore(d, w) \cup {w} = RowsBefore(d, AfterRow(d, w))
         /\ AfterRow(d, w) \notin Plan(d) => RowsBefore(d, w) \cup {w} = Plan(d)
<1> DEFINE s == Sizes[d]
           n == Len(s)
<1>0. n \in Nat /\ \A i \in 1 .. n : s[i] \in Nat
  BY RecordsShape DEF RecordsShape
<1>1. \A x \in Plan(d) : \/ x = <<0, 0>>
                         \/ \E i \in 1 .. n : \E j \in 0 .. s[i] : x = <<i, j>>
  BY PlanRow
<1>2. \A i \in 1 .. n : \A j \in 0 .. s[i] : <<i, j>> \in Plan(d)
  BY PlanRow
<1> DEFINE y == AfterRow(d, w)
<1>3. \/ w = <<0, 0>> /\ y = <<1, 0>>
      \/ \E i \in 1 .. n : \E j \in 0 .. s[i] : 
            /\ w = <<i, j>>
            /\ \/ j < s[i] /\ y = <<i, j + 1>>
               \/ j = s[i] /\ y = <<i + 1, 0>>
  <2>1. CASE w = <<0, 0>>
    BY <2>1 DEF AfterRow
  <2>2. ASSUME NEW i \in 1 .. n, NEW j \in 0 .. s[i], w = <<i, j>>
        PROVE  /\ w = <<i, j>>
               /\ \/ j < s[i] /\ y = <<i, j + 1>>
                  \/ j = s[i] /\ y = <<i + 1, 0>>
    <3>1. i # 0 /\ w[1] = i /\ w[2] = j /\ s[i] \in Nat /\ i \in Nat /\ j \in Nat
      BY <1>0, <2>2
    <3> QED BY <1>0, <2>2, <3>1 DEF AfterRow
  <2> QED BY <1>1, <2>1, <2>2
<1> HIDE DEF s, n, y
<1>4. ASSUME NEW x \in Plan(d)
      PROVE  Before(x, y) <=> Before(x, w) \/ x = w
  BY <1>0, <1>1, <1>3 DEF Before
<1>5. w \in Plan(d)
  OBVIOUS
<1>6. RowsBefore(d, w) \cup {w} = RowsBefore(d, y)
  BY <1>4, <1>5 DEF RowsBefore
<1>7. ASSUME y \notin Plan(d), NEW x \in Plan(d)
      PROVE  Before(x, y)
  <2>0. w # <<0, 0>> \/ n = 0
    BY <1>0, <1>2, <1>3, <1>7
  <2>1. CASE w = <<0, 0>>
    BY <1>0, <1>1, <1>3, <2>0, <2>1 DEF Before
  <2>2. CASE w # <<0, 0>>
    <3>1. PICK i \in 1 .. n : \E j \in 0 .. s[i] : 
            /\ w = <<i, j>>
            /\ \/ j < s[i] /\ y = <<i, j + 1>>
               \/ j = s[i] /\ y = <<i + 1, 0>>
      BY <1>3, <2>2
    <3>2. PICK j \in 0 .. s[i] : 
            /\ w = <<i, j>>
            /\ \/ j < s[i] /\ y = <<i, j + 1>>
               \/ j = s[i] /\ y = <<i + 1, 0>>
      BY <3>1
    <3>3. s[i] \in Nat /\ i \in Nat /\ j \in Nat
      BY <1>0
    <3>4. y = <<i + 1, 0>>
      BY <1>2, <1>7, <3>2, <3>3
    <3>5. i = n
      <4> SUFFICES ASSUME i # n PROVE FALSE
        OBVIOUS
      <4>1. i + 1 \in 1 .. n
        BY <1>0, <3>3
      <4>2. 0 \in 0 .. s[i + 1]
        BY <1>0, <4>1
      <4> QED BY <1>2, <1>7, <3>4, <4>1, <4>2
    <3> QED BY <1>0, <1>1, <3>4, <3>5 DEF Before
  <2> QED BY <2>1, <2>2
<1> QED BY <1>6, <1>7 DEF RowsBefore, y

\* It begins with the row of the build.
LEMMA FirstRow ==
  ASSUME NEW d \in Docs
  PROVE  <<0, 0>> \in Plan(d) /\ RowsBefore(d, <<0, 0>>) = {}
<1>1. <<0, 0>> \in Plan(d)
  BY PlanRow
<1>2. ASSUME NEW x \in Plan(d) PROVE ~ Before(x, <<0, 0>>)
  BY PlanRow, RecordsShape DEF Before, RecordsShape
<1> QED BY <1>1, <1>2 DEF RowsBefore

-----------------------------------------------------------------------------
(* The invariant.                                                          *)

DocRows == Docs \cup {NoDoc, EmptyDoc}
RowIds == Nat \X Nat
Inserting == {"insert rows", "put"}
Accepted == {"read number", "insert version"} \cup Inserting
RunPcs == {"read conf", "read pipe"} \cup Accepted
Pcs == RunPcs \cup {"idle", "insert conf", "read source", "save conf", "drop pipe",
                    "drop versions", "drop version"}

Ops == {"none", "new", "copy", "save", "delete", "delete version", "run", "trigger", "rebuild"}

Version == [pipe : Pipes, number : Nat, gone : BOOLEAN, content : DocRows, seen : SUBSET Ids,
            late : BOOLEAN, process : Nat]
Request == [pc : Pcs, op : Ops, pipe : Pipes \cup {"none"}, from : Pipes \cup {"none"},
            doc : DocRows, content : DocRows, late : BOOLEAN, number : Nat, seen : SUBSET Ids,
            ver : {0} \cup Ids, at : RowIds]

RecordsTypeOK ==
  /\ pipes \in [Pipes -> {"none", "live", "deleted"}]
  /\ conf \in [Pipes -> DocRows]
  /\ versions \in Seq(Version) /\ Len(versions) <= MaxVersions
  /\ rows \in [Ids -> SUBSET RowIds] /\ open \in [Ids -> SUBSET RowIds]
  /\ reqs \in [Requests -> Request]
  /\ work \in [Ids -> {"none", "listed", "running", "over"}]
  /\ lost \subseteq Ids
  /\ process \in Nat
  /\ sweep \in 0 .. Len(Tables)

\* A request: whose pipeline it works on, which description it carries from the
\* statement that accepted it on, and what its version has of it already.
RequestFits(q) ==
  /\ q.pc \in RunPcs => q.pipe \in Pipes
  /\ q.pc = "read source" => q.from \in Pipes
  /\ q.pc \in Inserting <=> q.ver # 0
  /\ q.pc \in {"read pipe"} \cup Accepted => q.content = q.doc
  /\ q.pc \in Accepted => q.doc \in WellFormed /\ ~ q.late
  /\ q.late => q.pc \in RunPcs /\ pipes[q.pipe] = "deleted"
  /\ q.pc = "insert version" =>
       /\ q.number <= Len(versions) + 1
       /\ q.seen \subseteq Versions
       /\ \A w \in q.seen : versions[w].pipe = q.pipe => versions[w].number < q.number

VersionOfRequest(q) ==
  /\ q.pc \notin Inserting => q.at = <<0, 0>>
  /\ q.pc \in Inserting =>
       /\ q.ver \in Versions
       /\ versions[q.ver].content = q.doc
       /\ versions[q.ver].process = process
       /\ work[q.ver] = "none"
       /\ q.pc = "insert rows" => q.at \in Plan(q.doc) /\ rows[q.ver] = RowsBefore(q.doc, q.at)
       /\ q.pc = "put" => rows[q.ver] = Plan(q.doc)

RequestsFit == \A r \in Requests : RequestFits(reqs[r]) /\ VersionOfRequest(reqs[r])

\* No two requests write the rows of one version.
OneWriter == \A r, s \in Requests : reqs[r].ver = reqs[s].ver /\ reqs[r].ver # 0 => r = s

VersionFits(v) ==
  /\ versions[v].number <= v
  /\ versions[v].seen \subseteq Versions
  /\ \A w \in versions[v].seen : versions[w].pipe = versions[v].pipe
                                   => versions[w].number < versions[v].number
  /\ ~ versions[v].late
  /\ versions[v].process <= process
  /\ work[v] # "none" => /\ versions[v].process = process
                         /\ versions[v].content \in WellFormed
                         /\ rows[v] = Plan(versions[v].content)

VersionsFit == \A v \in Versions : VersionFits(v)

\* What has no version has nothing.
RestIsEmpty == \A v \in Ids \ Versions : rows[v] = {} /\ work[v] = "none"

RecordsInv == RecordsTypeOK /\ RequestsFit /\ OneWriter /\ VersionsFit /\ RestIsEmpty /\ OpenIsOwned

-----------------------------------------------------------------------------
(* Steps of a request that has no version.                                 *)

\* A request that is not there carries nothing.
LEMMA IdleFits ==
  /\ Idle \in Request /\ Idle.pc = "idle" /\ Idle.ver = 0 /\ Idle.at = <<0, 0>>
  /\ ~ Idle.late /\ Idle.doc = NoDoc
  BY DEF Idle, Request, DocRows, Pcs, Ops, RowIds

\* The pipelines may change and so may one request, as long as it stays without
\* a version; a deleted pipeline stays deleted.
LEMMA RequestStep ==
  ASSUME RecordsInv, NEW r \in Requests, NEW q \in Request,
         reqs' = [reqs EXCEPT ![r] = q],
         UNCHANGED <<versions, rows, open, work, lost, process, sweep>>,
         pipes' \in [Pipes -> {"none", "live", "deleted"}],
         conf' \in [Pipes -> DocRows],
         \A p \in Pipes : pipes[p] = "deleted" => pipes'[p] = "deleted",
         reqs[r].ver = 0, q.ver = 0, q.at = <<0, 0>>,
         RequestFits(reqs[r])'
  PROVE  RecordsInv'
<1>1. RecordsTypeOK' /\ reqs'[r] = q
  BY DEF RecordsInv, RecordsTypeOK
<1>2. ASSUME NEW s \in Requests, s # r
      PROVE  reqs'[s] = reqs[s] /\ reqs[s] \in Request
  BY <1>2 DEF RecordsInv, RecordsTypeOK
<1>3. RequestsFit'
  <2> SUFFICES ASSUME NEW s \in Requests
               PROVE  RequestFits(reqs[s])' /\ VersionOfRequest(reqs[s])'
    BY DEF RequestsFit
  <2>1. CASE s = r
    <3>1. reqs'[r].pc \notin Inserting
      BY <1>1 DEF RequestFits
    <3> QED BY <2>1, <1>1, <3>1 DEF VersionOfRequest
  <2>2. CASE s # r
    <3>1. RequestFits(reqs[s]) /\ VersionOfRequest(reqs[s])
      BY DEF RecordsInv, RequestsFit
    <3>2. RequestFits(reqs[s])'
      <4>1. reqs[s].late => reqs[s].pipe \in Pipes
        BY <3>1 DEF RequestFits
      <4> QED BY <1>2, <2>2, <3>1, <4>1 DEF RequestFits, Versions
    <3>3. VersionOfRequest(reqs[s])'
      BY <1>2, <2>2, <3>1 DEF VersionOfRequest, Versions
    <3> QED BY <3>2, <3>3
  <2> QED BY <2>1, <2>2
<1>4. OneWriter'
  BY <1>1, <1>2 DEF RecordsInv, OneWriter
<1>5. VersionsFit' /\ RestIsEmpty'
  BY DEF RecordsInv, VersionsFit, VersionFits, RestIsEmpty, Versions
<1>6. OpenIsOwned'
  <2> SUFFICES ASSUME NEW v \in Versions, NEW w \in open[v], versions[v].process = process,
                      work[v] \notin {"listed", "running"}, v \notin lost
               PROVE  \E s \in Requests : reqs'[s].ver = v
    BY DEF RecordsInv, OpenIsOwned, Versions
  <2>1. PICK s \in Requests : reqs[s].ver = v
    BY DEF RecordsInv, OpenIsOwned
  <2>2. v # 0
    BY DEF RecordsInv, RecordsTypeOK, Versions
  <2> QED BY <2>1, <2>2, <1>2
<1> QED BY <1>1, <1>3, <1>4, <1>5, <1>6 DEF RecordsInv

\* A request that begins is one of a pipeline; only a run carries anything that
\* matters later.
LEMMA BeginStep ==
  ASSUME RecordsInv, NEW r \in Requests, NEW q \in Request, Begin(r, q),
         UNCHANGED <<versions, rows, open, work, lost, process, sweep>>,
         pipes' \in [Pipes -> {"none", "live", "deleted"}], conf' = conf,
         \A p \in Pipes : pipes[p] = "deleted" => pipes'[p] = "deleted",
         q.ver = 0, q.at = <<0, 0>>,
         \/ q.pc \in Pcs \ RunPcs /\ ~ q.late /\ (q.pc = "read source" => q.from \in Pipes)
         \/ q.pc = "read conf" /\ q.pipe \in Pipes /\ (q.late => pipes'[q.pipe] = "deleted")
  PROVE  RecordsInv'
<1>1. reqs \in [Requests -> Request] /\ conf' \in [Pipes -> DocRows]
  BY DEF RecordsInv, RecordsTypeOK
<1>2. reqs' = [reqs EXCEPT ![r] = q] /\ reqs[r].pc = "idle"
  BY DEF Begin, At
<1>3. reqs[r].ver = 0
  BY <1>2 DEF RecordsInv, RequestsFit, RequestFits, Inserting
<1>4. RequestFits(reqs[r])'
  BY <1>1, <1>2 DEF RequestFits, RunPcs, Accepted, Inserting
<1> QED BY <1>1, <1>2, <1>3, <1>4, RequestStep

\* A request of a pipeline that is not a run goes on, or is answered.
LEMMA GoStep ==
  ASSUME RecordsInv, NEW r \in Requests, NEW q \in Request, Go(r, q),
         UNCHANGED <<versions, rows, open, work, lost, process, sweep>>,
         pipes' \in [Pipes -> {"none", "live", "deleted"}], conf' \in [Pipes -> DocRows],
         \A p \in Pipes : pipes[p] = "deleted" => pipes'[p] = "deleted",
         reqs[r].pc \notin Inserting,
         q.ver = 0, q.at = <<0, 0>>, q.pc \in Pcs \ RunPcs, q.pc # "read source", ~ q.late
  PROVE  RecordsInv'
<1>1. reqs \in [Requests -> Request]
  BY DEF RecordsInv, RecordsTypeOK
<1>2. reqs' = [reqs EXCEPT ![r] = q] /\ reqs[r].ver = 0
  BY DEF Go, RecordsInv, RequestsFit, RequestFits
<1>3. RequestFits(reqs[r])'
  BY <1>1, <1>2 DEF RequestFits, RunPcs, Accepted, Inserting
<1> QED BY <1>1, <1>2, <1>3, RequestStep

\* The statements that are not those of a run, and those that write rows.
LEMMA PcsApart ==
  /\ {"idle", "insert conf", "read source", "save conf", "drop pipe", "drop versions",
      "drop version"} = Pcs \ RunPcs
  /\ Inserting \subseteq RunPcs
  BY DEF Pcs, RunPcs, Accepted, Inserting

\* What the invariant says of one request.
LEMMA RequestFacts ==
  ASSUME RecordsInv, NEW r \in Requests
  PROVE  /\ reqs \in [Requests -> Request] /\ reqs[r] \in Request
         /\ pipes \in [Pipes -> {"none", "live", "deleted"}] /\ conf \in [Pipes -> DocRows]
         /\ RequestFits(reqs[r]) /\ VersionOfRequest(reqs[r])
         /\ reqs[r].pc \in Pcs \ RunPcs => reqs[r].ver = 0 /\ reqs[r].at = <<0, 0>> /\ ~ reqs[r].late
<1>1. RequestFits(reqs[r]) /\ VersionOfRequest(reqs[r])
  BY DEF RecordsInv, RequestsFit
<1>2. reqs[r].pc \in Pcs \ RunPcs => reqs[r].ver = 0 /\ reqs[r].at = <<0, 0>> /\ ~ reqs[r].late
  BY <1>1, PcsApart DEF RequestFits, VersionOfRequest
<1> QED BY <1>1, <1>2 DEF RecordsInv, RecordsTypeOK

\* What the invariant says of the versions.
LEMMA VersionFacts ==
  ASSUME RecordsInv
  PROVE  /\ versions \in Seq(Version) /\ Len(versions) \in Nat
         /\ Versions = 1 .. Len(versions) /\ Versions \subseteq Ids /\ 0 \notin Ids
         /\ \A v \in Versions : versions[v] \in Version /\ VersionFits(v)
<1>1. versions \in Seq(Version) /\ Len(versions) \in Nat /\ Versions = 1 .. Len(versions)
  BY DEF RecordsInv, RecordsTypeOK, Versions
<1>2. Len(versions) <= MaxVersions /\ MaxVersions \in Nat
  BY RecordsShape DEF RecordsShape, RecordsInv, RecordsTypeOK
<1>3. Versions \subseteq Ids /\ 0 \notin Ids
  BY <1>1, <1>2 DEF Ids
<1>4. \A v \in Versions : versions[v] \in Version
  BY <1>1
<1>5. \A v \in Versions : VersionFits(v)
  BY DEF RecordsInv, VersionsFit
<1> QED BY <1>1, <1>3, <1>4, <1>5

\* The statements of new, copy and save.
LEMMA PipeSteps ==
  ASSUME RecordsInv, NEW r \in Requests, PipeNext(r)
  PROVE  RecordsInv'
<1>0. /\ reqs \in [Requests -> Request] /\ reqs[r] \in Request
      /\ pipes \in [Pipes -> {"none", "live", "deleted"}] /\ conf \in [Pipes -> DocRows]
      /\ reqs[r].pc \in Pcs \ RunPcs => reqs[r].ver = 0 /\ reqs[r].at = <<0, 0>> /\ ~ reqs[r].late
  BY RequestFacts
<1>1. \A d \in WellFormed : d \in DocRows
  BY RecordsShape DEF RecordsShape, DocRows
<1>2. CASE NewPipe(r)
  <2>1. PICK p \in Pipes, d \in WellFormed :
          /\ pipes[p] = "none" /\ pipes' = [pipes EXCEPT ![p] = "live"]
          /\ Begin(r, [Idle EXCEPT !.pc = "insert conf", !.op = "new", !.pipe = p, !.doc = d])
    BY <1>2 DEF NewPipe
  <2> DEFINE q == [Idle EXCEPT !.pc = "insert conf", !.op = "new", !.pipe = p, !.doc = d]
  <2>2. q \in Request /\ q.pc = "insert conf" /\ q.ver = 0 /\ q.at = <<0, 0>> /\ ~ q.late
    BY <1>1, IdleFits DEF Request, Pcs, Ops
  <2>3. Begin(r, q)
    BY <2>1
  <2>4. /\ pipes' \in [Pipes -> {"none", "live", "deleted"}]
        /\ \A x \in Pipes : pipes[x] = "deleted" => pipes'[x] = "deleted"
    BY <1>0, <2>1
  <2> HIDE DEF q
  <2> QED BY <1>2, <2>2, <2>3, <2>4, PcsApart, BeginStep DEF NewPipe, buildRows, server
<1>3. CASE CopyPipe(r)
  <2>1. PICK p \in Pipes, p2 \in Pipes :
          /\ pipes[p] = "none" /\ pipes' = [pipes EXCEPT ![p] = "live"]
          /\ Begin(r, [Idle EXCEPT !.pc = "read source", !.op = "copy", !.pipe = p, !.from = p2])
    BY <1>3 DEF CopyPipe
  <2> DEFINE q == [Idle EXCEPT !.pc = "read source", !.op = "copy", !.pipe = p, !.from = p2]
  <2>2. q \in Request /\ q.pc = "read source" /\ q.ver = 0 /\ q.at = <<0, 0>> /\ ~ q.late /\ q.from = p2
    BY IdleFits DEF Request, Pcs, Ops
  <2>3. Begin(r, q)
    BY <2>1
  <2>4. /\ pipes' \in [Pipes -> {"none", "live", "deleted"}]
        /\ \A x \in Pipes : pipes[x] = "deleted" => pipes'[x] = "deleted"
    BY <1>0, <2>1
  <2> HIDE DEF q
  <2> QED BY <1>3, <2>2, <2>3, <2>4, PcsApart, BeginStep DEF CopyPipe, buildRows, server
<1>4. CASE ReadSource(r)
  <2> DEFINE d == conf[reqs[r].from]
             q == [reqs[r] EXCEPT !.pc = "insert conf", !.doc = IF d = NoDoc THEN EmptyDoc ELSE d]
  <2>1. Go(r, q) /\ reqs[r].pc = "read source"
    BY <1>4 DEF ReadSource, At
  <2>2. (IF d = NoDoc THEN EmptyDoc ELSE d) \in DocRows
    BY <1>0, <2>1, RequestFacts DEF RequestFits, DocRows
  <2>3. q \in Request /\ q.pc = "insert conf" /\ q.ver = 0 /\ q.at = <<0, 0>> /\ ~ q.late
    BY <1>0, <2>1, <2>2, PcsApart DEF Request, Pcs
  <2> HIDE DEF q
  <2> QED BY <1>0, <1>4, <2>1, <2>3, PcsApart, GoStep DEF ReadSource, tables, buildRows, server
<1>5. CASE InsertConf(r)
  <2>1. Go(r, Idle) /\ reqs[r].pc = "insert conf"
    BY <1>5 DEF InsertConf, At, Answer, Go
  <2>2. conf' \in [Pipes -> DocRows]
    BY <1>0, <1>5 DEF InsertConf, Request
  <2> QED BY <1>0, <1>5, <2>1, <2>2, IdleFits, PcsApart, GoStep DEF InsertConf, buildRows, server
<1>6. CASE SavePipe(r)
  <2>1. PICK p \in Pipes, d \in WellFormed :
          Begin(r, [Idle EXCEPT !.pc = "save conf", !.op = "save", !.pipe = p, !.doc = d])
    BY <1>6 DEF SavePipe
  <2> DEFINE q == [Idle EXCEPT !.pc = "save conf", !.op = "save", !.pipe = p, !.doc = d]
  <2>2. q \in Request /\ q.pc = "save conf" /\ q.ver = 0 /\ q.at = <<0, 0>> /\ ~ q.late
    BY <1>1, IdleFits DEF Request, Pcs, Ops
  <2>3. Begin(r, q)
    BY <2>1
  <2> HIDE DEF q
  <2> QED BY <1>0, <1>6, <2>2, <2>3, PcsApart, BeginStep DEF SavePipe, tables, buildRows, server
<1>7. CASE SaveConf(r)
  <2>1. Go(r, Idle) /\ reqs[r].pc = "save conf"
    BY <1>7 DEF SaveConf, At, Answer, Go
  <2>2. conf' \in [Pipes -> DocRows]
    BY <1>0, <1>7 DEF SaveConf, Request, DocRows
  <2> QED BY <1>0, <1>7, <2>1, <2>2, IdleFits, PcsApart, GoStep DEF SaveConf, buildRows, server
<1> QED BY <1>2, <1>3, <1>4, <1>5, <1>6, <1>7 DEF PipeNext

\* The steps of a deletion that leave the versions alone.
LEMMA DeleteSteps ==
  ASSUME RecordsInv, NEW r \in Requests, DeletePipe(r) \/ DropPipe(r) \/ DeleteVersion(r)
  PROVE  RecordsInv'
<1>0. /\ reqs \in [Requests -> Request] /\ reqs[r] \in Request
      /\ pipes \in [Pipes -> {"none", "live", "deleted"}] /\ conf \in [Pipes -> DocRows]
      /\ reqs[r].pc \in Pcs \ RunPcs => reqs[r].ver = 0 /\ reqs[r].at = <<0, 0>> /\ ~ reqs[r].late
  BY RequestFacts
<1>1. CASE DeletePipe(r)
  <2>1. PICK p \in Pipes : Begin(r, [Idle EXCEPT !.pc = "drop pipe", !.op = "delete", !.pipe = p])
    BY <1>1 DEF DeletePipe
  <2> DEFINE q == [Idle EXCEPT !.pc = "drop pipe", !.op = "delete", !.pipe = p]
  <2>2. q \in Request /\ q.pc = "drop pipe" /\ q.ver = 0 /\ q.at = <<0, 0>> /\ ~ q.late
    BY IdleFits DEF Request, Pcs, Ops
  <2>3. Begin(r, q)
    BY <2>1
  <2> HIDE DEF q
  <2> QED BY <1>0, <1>1, <2>2, <2>3, PcsApart, BeginStep DEF DeletePipe, tables, buildRows, server
<1>2. CASE DropPipe(r)
  <2> DEFINE q == [reqs[r] EXCEPT !.pc = "drop versions"]
  <2>1. Go(r, q) /\ reqs[r].pc = "drop pipe"
    BY <1>2 DEF DropPipe, At
  <2>2. q \in Request /\ q.pc = "drop versions" /\ q.ver = 0 /\ q.at = <<0, 0>> /\ ~ q.late
    BY <1>0, <2>1, PcsApart DEF Request, Pcs
  <2>3. /\ pipes' \in [Pipes -> {"none", "live", "deleted"}]
        /\ \A x \in Pipes : pipes[x] = "deleted" => pipes'[x] = "deleted"
    BY <1>0, <1>2 DEF DropPipe
  <2> HIDE DEF q
  <2> QED BY <1>0, <1>2, <2>1, <2>2, <2>3, PcsApart, GoStep DEF DropPipe, buildRows, server
<1>3. CASE DeleteVersion(r)
  <2>1. PICK v \in Versions :
          Begin(r, [Idle EXCEPT !.pc = "drop version", !.op = "delete version",
                                !.pipe = versions[v].pipe, !.seen = {v}])
    BY <1>3 DEF DeleteVersion
  <2>2. versions[v] \in Version /\ v \in Ids
    BY VersionFacts
  <2> DEFINE q == [Idle EXCEPT !.pc = "drop version", !.op = "delete version",
                               !.pipe = versions[v].pipe, !.seen = {v}]
  <2>3. q \in Request /\ q.pc = "drop version" /\ q.ver = 0 /\ q.at = <<0, 0>> /\ ~ q.late
    BY <2>2, IdleFits DEF Request, Pcs, Ops, Version
  <2>4. Begin(r, q)
    BY <2>1
  <2> HIDE DEF q
  <2> QED BY <1>0, <1>3, <2>3, <2>4, PcsApart, BeginStep DEF DeleteVersion, tables, buildRows, server
<1> QED BY <1>1, <1>2, <1>3

\* A run begins: only that of a trigger may be late.
LEMMA BeginRunSteps ==
  ASSUME RecordsInv, NEW r \in Requests, BeginRun(r) \/ BeginTrigger(r) \/ BeginRebuild(r)
  PROVE  RecordsInv'
<1>0. /\ reqs \in [Requests -> Request]
      /\ pipes \in [Pipes -> {"none", "live", "deleted"}] /\ conf \in [Pipes -> DocRows]
  BY RequestFacts
<1>1. CASE BeginRun(r)
  <2>1. PICK p \in Pipes : Begin(r, [Idle EXCEPT !.pc = "read conf", !.op = "run", !.pipe = p])
    BY <1>1 DEF BeginRun
  <2> DEFINE q == [Idle EXCEPT !.pc = "read conf", !.op = "run", !.pipe = p]
  <2>2. /\ q \in Request /\ q.pc = "read conf" /\ q.ver = 0 /\ q.at = <<0, 0>> /\ ~ q.late
        /\ q.pipe \in Pipes
    BY IdleFits DEF Request, Pcs, Ops, RunPcs
  <2>3. Begin(r, q)
    BY <2>1
  <2> HIDE DEF q
  <2> QED BY <1>0, <1>1, <2>2, <2>3, BeginStep DEF BeginRun, tables, buildRows, server
<1>2. CASE BeginTrigger(r)
  <2>1. PICK p \in Pipes : Begin(r, [Idle EXCEPT !.pc = "read conf", !.op = "trigger", !.pipe = p,
                                                 !.late = (pipes[p] = "deleted")])
    BY <1>2 DEF BeginTrigger
  <2> DEFINE q == [Idle EXCEPT !.pc = "read conf", !.op = "trigger", !.pipe = p,
                               !.late = (pipes[p] = "deleted")]
  <2>2. /\ q \in Request /\ q.pc = "read conf" /\ q.ver = 0 /\ q.at = <<0, 0>>
        /\ q.pipe = p /\ (q.late => pipes[p] = "deleted")
    BY IdleFits DEF Request, Pcs, Ops, RunPcs
  <2>3. Begin(r, q)
    BY <2>1
  <2> HIDE DEF q
  <2> QED BY <1>0, <1>2, <2>2, <2>3, BeginStep DEF BeginTrigger, tables, buildRows, server
<1>3. CASE BeginRebuild(r)
  <2>1. PICK v \in Versions :
          Begin(r, [Idle EXCEPT !.pc = "read conf", !.op = "rebuild",
                                !.pipe = versions[v].pipe, !.doc = versions[v].content])
    BY <1>3 DEF BeginRebuild
  <2>2. versions[v] \in Version
    BY DEF RecordsInv, RecordsTypeOK, Versions
  <2> DEFINE q == [Idle EXCEPT !.pc = "read conf", !.op = "rebuild",
                               !.pipe = versions[v].pipe, !.doc = versions[v].content]
  <2>3. /\ q \in Request /\ q.pc = "read conf" /\ q.ver = 0 /\ q.at = <<0, 0>> /\ ~ q.late
        /\ q.pipe \in Pipes
    BY <2>2, IdleFits DEF Request, Pcs, Ops, RunPcs, Version
  <2>4. Begin(r, q)
    BY <2>1
  <2> HIDE DEF q
  <2> QED BY <1>0, <1>3, <2>3, <2>4, BeginStep DEF BeginRebuild, tables, buildRows, server
<1> QED BY <1>1, <1>2, <1>3

\* A run up to the insert of its version.
LEMMA ReadSteps ==
  ASSUME RecordsInv, NEW r \in Requests, ReadConf(r) \/ ReadPipe(r) \/ ReadNumber(r)
  PROVE  RecordsInv'
<1>0. /\ reqs \in [Requests -> Request] /\ reqs[r] \in Request
      /\ pipes \in [Pipes -> {"none", "live", "deleted"}] /\ conf \in [Pipes -> DocRows]
      /\ RequestFits(reqs[r]) /\ VersionOfRequest(reqs[r])
  BY RequestFacts
<1>1. CASE ReadConf(r)
  <2> DEFINE c == conf[reqs[r].pipe]
             q1 == [reqs[r] EXCEPT !.pc = "read pipe", !.content = reqs[r].doc]
             q2 == [reqs[r] EXCEPT !.pc = "read pipe", !.doc = c, !.content = c]
  <2>1. reqs[r].pc = "read conf" /\ (Go(r, q1) \/ Go(r, q2))
    BY <1>1 DEF ReadConf, At
  <2>2. reqs[r].ver = 0 /\ reqs[r].at = <<0, 0>> /\ reqs[r].pipe \in Pipes
    BY <1>0, <2>1 DEF RequestFits, VersionOfRequest, RunPcs, Inserting
  <2>3. ASSUME NEW q, Go(r, q), q \in Request, q.pc = "read pipe", q.content = q.doc,
               q.ver = reqs[r].ver, q.at = reqs[r].at, q.pipe = reqs[r].pipe, q.late = reqs[r].late
        PROVE  RecordsInv'
    <3>1. reqs' = [reqs EXCEPT ![r] = q]
      BY <2>3 DEF Go
    <3>2. RequestFits(reqs[r])'
      BY <1>0, <1>1, <2>1, <2>2, <2>3, <3>1 DEF RequestFits, RunPcs, Accepted, Inserting, ReadConf, tables
    <3> QED BY <1>0, <1>1, <2>2, <2>3, <3>1, <3>2, RequestStep DEF ReadConf, tables, buildRows, server
  <2>4. /\ q1 \in Request /\ q1.pc = "read pipe" /\ q1.content = q1.doc
        /\ q1.ver = reqs[r].ver /\ q1.at = reqs[r].at /\ q1.pipe = reqs[r].pipe /\ q1.late = reqs[r].late
    BY <1>0 DEF Request, Pcs, RunPcs
  <2>5. c \in DocRows
    BY <1>0, <2>2
  <2> HIDE DEF c
  <2>6. /\ q2 \in Request /\ q2.pc = "read pipe" /\ q2.content = q2.doc
        /\ q2.ver = reqs[r].ver /\ q2.at = reqs[r].at /\ q2.pipe = reqs[r].pipe /\ q2.late = reqs[r].late
    BY <1>0, <2>5 DEF Request, Pcs, RunPcs
  <2> HIDE DEF q1, q2
  <2> QED BY <2>1, <2>3, <2>4, <2>6
<1>2. CASE ReadPipe(r)
  <2> DEFINE q == [reqs[r] EXCEPT !.pc = "read number"]
  <2>1. Go(r, q) /\ reqs[r].pc = "read pipe" /\ reqs[r].doc \in WellFormed /\ pipes[reqs[r].pipe] = "live"
    BY <1>2 DEF ReadPipe, At
  <2>2. reqs[r].ver = 0 /\ reqs[r].at = <<0, 0>> /\ ~ reqs[r].late
    BY <1>0, <2>1 DEF RequestFits, VersionOfRequest, RunPcs, Inserting
  <2>3. /\ q \in Request /\ q.pc = "read number" /\ q.ver = 0 /\ q.at = <<0, 0>> /\ ~ q.late
        /\ q.pipe = reqs[r].pipe /\ q.doc = reqs[r].doc /\ q.content = reqs[r].content
    BY <1>0, <2>2 DEF Request, Pcs, RunPcs, Accepted
  <2> HIDE DEF q
  <2>4. reqs' = [reqs EXCEPT ![r] = q]
    BY <2>1 DEF Go
  <2>5. RequestFits(reqs[r])'
    BY <1>0, <1>2, <2>1, <2>3, <2>4 DEF RequestFits, RunPcs, Accepted, Inserting
  <2> QED BY <1>0, <1>2, <2>2, <2>3, <2>4, <2>5, RequestStep DEF ReadPipe, tables, buildRows, server
<1>3. CASE ReadNumber(r)
  <2> DEFINE S == {0} \cup {versions[v].number : v \in VersionsOf(reqs[r].pipe)}
             m == Max(S)
             n == Len(versions)
             q == [reqs[r] EXCEPT !.pc = "insert version", !.seen = Versions, !.number = m + 1]
  <2>1. Go(r, q) /\ reqs[r].pc = "read number"
    BY <1>3 DEF ReadNumber, At
  <2>2. /\ n \in Nat /\ Versions = 1 .. n /\ Versions \subseteq Ids
        /\ \A v \in Versions : versions[v] \in Version /\ versions[v].number <= v
    BY VersionFacts DEF VersionFits
  <2>3. /\ S \in SUBSET Nat /\ 0 \in S
        /\ \A k \in S : k <= n
        /\ \A v \in Versions : versions[v].pipe = reqs[r].pipe => versions[v].number \in S
    BY <2>2 DEF VersionsOf, Version
  <2> HIDE DEF S
  <2>4. m \in Nat /\ m <= n /\ \A k \in S : k <= m
    BY <2>2, <2>3, MaxOfBounded
  <2> HIDE DEF m, n
  <2>5. reqs[r].ver = 0 /\ reqs[r].at = <<0, 0>> /\ ~ reqs[r].late /\ reqs[r].pipe \in Pipes
    BY <1>0, <2>1 DEF RequestFits, VersionOfRequest, RunPcs, Accepted, Inserting
  <2>6. /\ q \in Request /\ q.pc = "insert version" /\ q.ver = 0 /\ q.at = <<0, 0>> /\ ~ q.late
        /\ q.pipe = reqs[r].pipe /\ q.doc = reqs[r].doc /\ q.content = reqs[r].content
        /\ q.number = m + 1 /\ q.seen = Versions
    <3>1. m + 1 \in Nat /\ Versions \in SUBSET Ids
      BY <2>2, <2>4
    <3> QED BY <1>0, <2>5, <3>1 DEF Request, Pcs, RunPcs, Accepted
  <2> HIDE DEF q
  <2>7. reqs' = [reqs EXCEPT ![r] = q]
    BY <2>1 DEF Go
  <2>8. UNCHANGED <<pipes, conf, versions, rows, open, work, lost, process, sweep>>
    BY <1>3 DEF ReadNumber, tables, buildRows, server
  <2>9. RequestFits(reqs[r])'
    <3>1. \A w \in Versions : versions[w].pipe = q.pipe => versions[w].number < q.number
      <4> SUFFICES ASSUME NEW w \in Versions, versions[w].pipe = q.pipe
                   PROVE  versions[w].number < q.number
        OBVIOUS
      <4> DEFINE k == versions[w].number
      <4>1. k \in Nat /\ k <= m
        BY <2>2, <2>3, <2>4, <2>6 DEF Version
      <4> HIDE DEF k
      <4>2. k < m + 1
        BY <2>4, <4>1
      <4> QED BY <2>6, <4>2 DEF k
    <3>2. q.number <= Len(versions) + 1
      <4>1. m + 1 <= n + 1
        BY <2>2, <2>4
      <4> QED BY <2>6, <4>1 DEF n
    <3> QED BY <1>0, <2>1, <2>5, <2>6, <2>7, <2>8, <3>1, <3>2
            DEF RequestFits, RunPcs, Accepted, Inserting, Versions
  <2> QED BY <1>0, <2>5, <2>6, <2>7, <2>8, <2>9, RequestStep
<1> QED BY <1>1, <1>2, <1>3

-----------------------------------------------------------------------------
(* Steps that write versions and rows.                                     *)

\* A deletion sets flags of versions and is answered.
LEMMA GoneStep ==
  ASSUME RecordsInv, NEW r \in Requests, NEW g \in [Versions -> BOOLEAN],
         versions' = [v \in Versions |-> [versions[v] EXCEPT !.gone = g[v]]],
         reqs' = [reqs EXCEPT ![r] = Idle], reqs[r].pc \notin Inserting,
         UNCHANGED <<pipes, conf, rows, open, work, lost, process, sweep>>
  PROVE  RecordsInv'
<1> DEFINE n == Len(versions)
<1>1. /\ n \in Nat /\ Versions = 1 .. n /\ 0 \notin Ids
      /\ \A v \in Versions : versions[v] \in Version /\ VersionFits(v)
  BY VersionFacts
<1>2. /\ versions' \in Seq(Version) /\ Len(versions') = n /\ Versions' = Versions
      /\ \A v \in Versions : versions'[v] \in Version
  <2>1. \A v \in 1 .. n : [versions[v] EXCEPT !.gone = g[v]] \in Version
    BY <1>1 DEF Version
  <2> HIDE DEF n
  <2>2. versions' \in [1 .. n -> Version]
    BY <1>1, <2>1
  <2>3. n \in Nat /\ Versions = 1 .. n
    BY <1>1
  <2>4. versions' \in Seq(Version) /\ Len(versions') = n
    BY <2>2, <2>3
  <2>5. DOMAIN versions' = Versions
    BY <2>2, <2>3
  <2>6. Versions' = Versions
    BY <2>5 DEF Versions
  <2> QED BY <2>2, <2>3, <2>4, <2>6
<1>3. ASSUME NEW v \in Versions
      PROVE  /\ versions'[v].pipe = versions[v].pipe /\ versions'[v].number = versions[v].number
             /\ versions'[v].content = versions[v].content /\ versions'[v].seen = versions[v].seen
             /\ versions'[v].late = versions[v].late /\ versions'[v].process = versions[v].process
  BY <1>1 DEF Version
<1>4. reqs[r].ver = 0 /\ reqs'[r] = Idle /\ reqs' \in [Requests -> Request]
  BY IdleFits, RequestFacts DEF RequestFits
<1>5. ASSUME NEW s \in Requests, s # r
      PROVE  reqs'[s] = reqs[s] /\ reqs[s] \in Request
  BY <1>5 DEF RecordsInv, RecordsTypeOK
<1>6. RequestsFit'
  <2> SUFFICES ASSUME NEW s \in Requests
               PROVE  RequestFits(reqs[s])' /\ VersionOfRequest(reqs[s])'
    BY DEF RequestsFit
  <2>1. CASE s = r
    BY <1>4, <2>1, IdleFits DEF RequestFits, VersionOfRequest, RunPcs, Accepted, Inserting
  <2>2. CASE s # r
    <3>1. RequestFits(reqs[s]) /\ VersionOfRequest(reqs[s])
      BY DEF RecordsInv, RequestsFit
    <3>2. RequestFits(reqs[s])'
      BY <1>2, <1>3, <1>5, <2>2, <3>1 DEF RequestFits
    <3>3. VersionOfRequest(reqs[s])'
      BY <1>2, <1>3, <1>5, <2>2, <3>1 DEF VersionOfRequest
    <3> QED BY <3>2, <3>3
  <2> QED BY <2>1, <2>2
<1>7. OneWriter'
  BY <1>4, <1>5, IdleFits DEF RecordsInv, OneWriter
<1>8. VersionsFit'
  <2> SUFFICES ASSUME NEW v \in Versions PROVE VersionFits(v)'
    BY <1>2 DEF VersionsFit
  <2>1. VersionFits(v)
    BY <1>1
  <2> QED BY <1>2, <1>3, <2>1 DEF VersionFits
<1>9. RestIsEmpty'
  BY <1>2 DEF RecordsInv, RestIsEmpty
<1>10. OpenIsOwned'
  <2> SUFFICES ASSUME NEW v \in Versions, NEW w \in open[v]
               PROVE  IF versions[v].process # process THEN TableOf(w) \notin {Tables[i] : i \in 1 .. sweep}
                      ELSE \/ work[v] \in {"listed", "running"} \/ v \in lost
                           \/ \E s \in Requests : reqs'[s].ver = v
    BY <1>2, <1>3 DEF OpenIsOwned
  <2>1. v # 0
    BY <1>1
  <2>2. ASSUME NEW s \in Requests, reqs[s].ver = v PROVE reqs'[s].ver = v
    BY <1>4, <1>5, <2>1, <2>2
  <2> QED BY <2>2 DEF RecordsInv, OpenIsOwned
<1>11. RecordsTypeOK'
  BY <1>2, <1>4 DEF RecordsInv, RecordsTypeOK
<1> QED BY <1>6, <1>7, <1>8, <1>9, <1>10, <1>11 DEF RecordsInv

\* The statements that mark the versions of a pipeline, or one.
LEMMA DropSteps ==
  ASSUME RecordsInv, NEW r \in Requests, DropVersions(r) \/ DropVersion(r)
  PROVE  RecordsInv'
<1>0. \A v \in Versions : versions[v] \in Version
  BY VersionFacts
<1>1. CASE DropVersions(r)
  <2> DEFINE g == [v \in Versions |-> versions[v].gone \/ versions[v].pipe = reqs[r].pipe]
  <2>1. g \in [Versions -> BOOLEAN]
    BY <1>0 DEF Version
  <2>2. versions' = [v \in Versions |-> [versions[v] EXCEPT !.gone = g[v]]]
    BY <1>1 DEF DropVersions
  <2>3. reqs' = [reqs EXCEPT ![r] = Idle] /\ reqs[r].pc \notin Inserting
    BY <1>1 DEF DropVersions, Answer, At, Inserting
  <2> HIDE DEF g
  <2> QED BY <1>1, <2>1, <2>2, <2>3, GoneStep DEF DropVersions, tables, buildRows, server
<1>2. CASE DropVersion(r)
  <2> DEFINE g == [v \in Versions |-> versions[v].gone \/ v \in reqs[r].seen]
  <2>1. g \in [Versions -> BOOLEAN]
    BY <1>0 DEF Version
  <2>2. versions' = [v \in Versions |-> [versions[v] EXCEPT !.gone = g[v]]]
    BY <1>2 DEF DropVersion
  <2>3. reqs' = [reqs EXCEPT ![r] = Idle] /\ reqs[r].pc \notin Inserting
    BY <1>2 DEF DropVersion, Answer, At, Inserting
  <2> HIDE DEF g
  <2> QED BY <1>2, <2>1, <2>2, <2>3, GoneStep DEF DropVersion, tables, buildRows, server
<1> QED BY <1>1, <1>2

\* A new version is the last one, and its rows are those before the first of its plan.
LEMMA InsertVersionStep ==
  ASSUME RecordsInv, NEW r \in Requests, InsertVersion(r)
  PROVE  RecordsInv'
<1> DEFINE n == Len(versions)
           new == n + 1
           q == [reqs[r] EXCEPT !.pc = "insert rows", !.ver = new]
           rec == [pipe |-> reqs[r].pipe, number |-> reqs[r].number, gone |-> FALSE,
                   content |-> reqs[r].content, seen |-> reqs[r].seen, late |-> reqs[r].late,
                   process |-> process]
<1>1. /\ versions \in Seq(Version) /\ n \in Nat /\ Versions = 1 .. n /\ Versions \subseteq Ids
      /\ 0 \notin Ids /\ \A v \in Versions : versions[v] \in Version /\ VersionFits(v)
  BY VersionFacts
<1>2. /\ reqs[r].pc = "insert version" /\ versions' = Append(versions, rec)
      /\ reqs' = [reqs EXCEPT ![r] = q] /\ n < MaxVersions
      /\ UNCHANGED <<pipes, conf, rows, open, work, lost, process, sweep>>
  BY DEF InsertVersion, At, Go, tables, buildRows, server
<1>3. /\ reqs \in [Requests -> Request] /\ reqs[r] \in Request
      /\ RequestFits(reqs[r]) /\ VersionOfRequest(reqs[r])
  BY RequestFacts
<1>4. /\ reqs[r].ver = 0 /\ reqs[r].at = <<0, 0>> /\ reqs[r].pipe \in Pipes
      /\ reqs[r].doc \in WellFormed /\ ~ reqs[r].late /\ reqs[r].content = reqs[r].doc
      /\ reqs[r].number <= new /\ reqs[r].seen \subseteq Versions
      /\ \A w \in reqs[r].seen : versions[w].pipe = reqs[r].pipe => versions[w].number < reqs[r].number
  BY <1>2, <1>3 DEF RequestFits, VersionOfRequest, RunPcs, Accepted, Inserting
<1>5. process \in Nat
  BY DEF RecordsInv, RecordsTypeOK
<1>6. new \in Ids /\ new \notin Versions /\ new # 0
  <2>1. n < MaxVersions /\ MaxVersions \in Nat
    BY <1>2, RecordsShape DEF RecordsShape
  <2>2. n \in Nat /\ Versions = 1 .. n
    BY <1>1
  <2> HIDE DEF n
  <2> QED BY <2>1, <2>2 DEF Ids
<1>7. rec \in Version
  BY <1>3, <1>4, <1>5 DEF Version, Request
<1>8. /\ rec.pipe = reqs[r].pipe /\ rec.number = reqs[r].number /\ rec.content = reqs[r].doc
      /\ rec.seen = reqs[r].seen /\ ~ rec.late /\ rec.process = process
  BY <1>4
<1>9. /\ q \in Request /\ q.pc = "insert rows" /\ q.ver = new /\ q.at = <<0, 0>>
      /\ q.doc = reqs[r].doc /\ q.content = reqs[r].doc /\ q.pipe = reqs[r].pipe /\ ~ q.late
  <2> HIDE DEF new
  <2> QED BY <1>3, <1>4, <1>6 DEF Request, Pcs, RunPcs, Accepted, Inserting
<1> HIDE DEF rec, q
<1>10. /\ versions' \in Seq(Version) /\ Len(versions') = new /\ versions'[new] = rec
       /\ Versions' = Versions \cup {new}
       /\ \A v \in Versions : versions'[v] = versions[v]
  <2>1. /\ versions' \in Seq(Version) /\ Len(versions') = n + 1 /\ versions'[n + 1] = rec
        /\ \A v \in 1 .. n : versions'[v] = versions[v]
    <3>1. versions \in Seq(Version) /\ rec \in Version /\ versions' = Append(versions, rec)
      BY <1>1, <1>2, <1>7
    <3> QED BY <3>1, AppendProperties
  <2>2. DOMAIN versions' = 1 .. (n + 1)
    BY <2>1
  <2>3. n \in Nat /\ Versions = 1 .. n
    BY <1>1
  <2> HIDE DEF n
  <2>4. DOMAIN versions' = Versions \cup {n + 1}
    BY <2>2, <2>3
  <2> QED BY <2>1, <2>3, <2>4 DEF Versions
<1>11. /\ Len(versions') <= MaxVersions /\ new = Len(versions) + 1
       /\ \A k \in Nat : k <= new => k <= Len(versions') + 1
  <2>1. n < MaxVersions /\ MaxVersions \in Nat /\ n \in Nat /\ Len(versions') = n + 1
    BY <1>1, <1>2, <1>10, RecordsShape DEF RecordsShape
  <2>2. n + 1 <= MaxVersions /\ \A k \in Nat : k <= n + 1 => k <= n + 1 + 1
    <3> HIDE DEF n
    <3> QED BY <2>1
  <2> QED BY <2>1, <2>2
<1> HIDE DEF n, new
<1>12. RecordsTypeOK' /\ reqs'[r] = q
  BY <1>2, <1>3, <1>9, <1>10, <1>11 DEF RecordsInv, RecordsTypeOK
<1>13. ASSUME NEW s \in Requests, s # r
       PROVE  reqs'[s] = reqs[s] /\ reqs[s] \in Request
  BY <1>2, <1>3, <1>13
<1>14. rows[new] = {} /\ work[new] = "none"
  BY <1>6 DEF RecordsInv, RestIsEmpty
<1>15. RequestsFit'
  <2> SUFFICES ASSUME NEW s \in Requests
               PROVE  RequestFits(reqs[s])' /\ VersionOfRequest(reqs[s])'
    BY DEF RequestsFit
  <2>1. CASE s = r
    <3>1. RequestFits(reqs[s])'
      BY <1>4, <1>6, <1>9, <1>12, <2>1 DEF RequestFits, RunPcs, Accepted, Inserting
    <3>2. reqs[r].doc \in Docs
      BY <1>4, RecordsShape DEF RecordsShape
    <3>3. <<0, 0>> \in Plan(reqs[r].doc) /\ rows[new] = RowsBefore(reqs[r].doc, <<0, 0>>)
      BY <1>14, <3>2, FirstRow
    <3>4. reqs'[s] = q /\ q.doc = reqs[r].doc /\ q.at = <<0, 0>> /\ q.ver = new /\ q.pc = "insert rows"
      BY <1>9, <1>12, <2>1
    <3>5. /\ new \in Versions' /\ versions'[new].content = reqs[r].doc
          /\ versions'[new].process = process' /\ work'[new] = "none" /\ rows'[new] = rows[new]
      BY <1>2, <1>8, <1>10, <1>14
    <3>6. VersionOfRequest(reqs[s])'
      BY <3>3, <3>4, <3>5 DEF VersionOfRequest, Inserting
    <3> QED BY <3>1, <3>6
  <2>2. CASE s # r
    <3>1. RequestFits(reqs[s]) /\ VersionOfRequest(reqs[s])
      BY DEF RecordsInv, RequestsFit
    <3>2. RequestFits(reqs[s])'
      <4>1. reqs[s].number \in Nat
        BY <1>13, <2>2 DEF Request
      <4> QED BY <1>2, <1>10, <1>11, <1>13, <2>2, <3>1, <4>1 DEF RequestFits
    <3>3. VersionOfRequest(reqs[s])'
      <4>1. reqs'[s] = reqs[s]
        BY <1>13, <2>2
      <4>2. CASE reqs[s].pc \notin Inserting
        BY <3>1, <4>1, <4>2 DEF VersionOfRequest
      <4>3. CASE reqs[s].pc \in Inserting
        <5>1. reqs[s].ver \in Versions
          BY <3>1, <4>3 DEF VersionOfRequest
        <5>2. versions'[reqs[s].ver] = versions[reqs[s].ver] /\ reqs[s].ver \in Versions'
          BY <1>10, <5>1
        <5> QED BY <1>2, <3>1, <4>1, <4>3, <5>2 DEF VersionOfRequest
      <4> QED BY <4>2, <4>3
    <3> QED BY <3>2, <3>3
  <2> QED BY <2>1, <2>2
<1>16. OneWriter'
  <2>1. ASSUME NEW s \in Requests PROVE reqs[s].ver # new
    <3>1. reqs[s].ver # 0 => reqs[s].ver \in Versions
      BY DEF RecordsInv, RequestsFit, RequestFits, VersionOfRequest
    <3> QED BY <1>6, <3>1
  <2> QED BY <1>9, <1>12, <1>13, <2>1 DEF RecordsInv, OneWriter
<1>17. VersionsFit'
  <2> SUFFICES ASSUME NEW v \in Versions' PROVE VersionFits(v)'
    BY DEF VersionsFit
  <2>1. CASE v = new
    <3>1. /\ versions'[v].number <= v /\ versions'[v].seen \subseteq Versions
          /\ ~ versions'[v].late /\ versions'[v].process <= process' /\ work'[v] = "none"
      <4>1. versions'[v] = rec
        BY <1>10, <2>1
      <4>2. rec.process <= process'
        <5>1. process <= process
          BY <1>5
        <5>2. rec.process = process /\ process' = process
          BY <1>2, <1>8
        <5> QED BY <5>1, <5>2
      <4>3. work'[v] = "none"
        BY <1>2, <1>14, <2>1
      <4> QED BY <1>4, <1>8, <2>1, <4>1, <4>2, <4>3
    <3>2. ASSUME NEW w \in versions'[v].seen, versions'[w].pipe = versions'[v].pipe
          PROVE  versions'[w].number < versions'[v].number
      BY <1>4, <1>8, <1>10, <2>1, <3>1, <3>2
    <3> QED BY <1>10, <3>1, <3>2 DEF VersionFits
  <2>2. CASE v \in Versions
    <3>1. VersionFits(v)
      BY <1>1, <2>2
    <3> QED BY <1>2, <1>10, <2>2, <3>1 DEF VersionFits
  <2> QED BY <1>10, <2>1, <2>2
<1>18. RestIsEmpty'
  BY <1>2, <1>10 DEF RecordsInv, RestIsEmpty
<1>19. OpenIsOwned'
  <2> SUFFICES ASSUME NEW v \in Versions', NEW w \in open[v]
               PROVE  IF versions'[v].process # process THEN TableOf(w) \notin {Tables[i] : i \in 1 .. sweep}
                      ELSE \/ work[v] \in {"listed", "running"} \/ v \in lost
                           \/ \E s \in Requests : reqs'[s].ver = v
    BY <1>2 DEF OpenIsOwned
  <2>1. CASE v = new
    BY <1>8, <1>9, <1>10, <1>12, <2>1
  <2>2. CASE v \in Versions
    <3>1. v # 0
      BY <1>1, <2>2
    <3>2. ASSUME NEW s \in Requests, reqs[s].ver = v PROVE reqs'[s].ver = v
      BY <1>4, <1>13, <3>1, <3>2
    <3> QED BY <1>10, <2>2, <3>2 DEF RecordsInv, OpenIsOwned
  <2> QED BY <1>10, <2>1, <2>2
<1> QED BY <1>12, <1>15, <1>16, <1>17, <1>18, <1>19 DEF RecordsInv

\* The row a request inserts is the next one of its plan.
LEMMA InsertRowStep ==
  ASSUME RecordsInv, NEW r \in Requests, InsertRow(r)
  PROVE  RecordsInv'
<1> DEFINE d == reqs[r].doc
           c == reqs[r].ver
           at == reqs[r].at
           next == AfterRow(d, at)
           q == IF next \in Plan(d) THEN [reqs[r] EXCEPT !.at = next] ELSE [reqs[r] EXCEPT !.pc = "put"]
<1>1. /\ reqs[r].pc = "insert rows" /\ reqs' = [reqs EXCEPT ![r] = q]
      /\ rows' = [rows EXCEPT ![c] = @ \cup {at}] /\ open' = [open EXCEPT ![c] = @ \cup {at}]
      /\ UNCHANGED <<pipes, conf, versions, work, lost, process, sweep>>
  BY DEF InsertRow, At, Go, tables, server
<1>2. /\ reqs \in [Requests -> Request] /\ reqs[r] \in Request
      /\ rows \in [Ids -> SUBSET RowIds] /\ open \in [Ids -> SUBSET RowIds]
      /\ RequestFits(reqs[r]) /\ VersionOfRequest(reqs[r])
  BY RequestFacts DEF RecordsInv, RecordsTypeOK
<1>3. /\ c # 0 /\ c \in Versions /\ d \in WellFormed /\ versions[c].content = d
      /\ versions[c].process = process /\ work[c] = "none"
      /\ at \in Plan(d) /\ rows[c] = RowsBefore(d, at)
  BY <1>1, <1>2 DEF RequestFits, VersionOfRequest, Accepted, Inserting
<1>4. d \in Docs /\ c \in Ids
  BY <1>3, VersionFacts, RecordsShape DEF RecordsShape
<1>5. at \in RowIds /\ (next \in Plan(d) => next \in RowIds)
  <2>1. \A w \in Plan(d) : w \in RowIds
    BY <1>4, PlanRow, RecordsShape DEF RecordsShape, RowIds
  <2> QED BY <1>3, <2>1
<1>6. /\ rows[c] \cup {at} = RowsBefore(d, next)
      /\ next \notin Plan(d) => rows[c] \cup {at} = Plan(d)
  BY <1>3, <1>4, NextRow
<1> HIDE DEF next
<1>7. /\ q \in Request /\ q.pc \in Inserting /\ q.ver = c /\ q.doc = d /\ q.content = reqs[r].content
      /\ q.late = reqs[r].late /\ q.pipe = reqs[r].pipe
      /\ q.pc = "insert rows" => q.at = next /\ next \in Plan(d)
      /\ q.pc = "put" => next \notin Plan(d)
  <2>1. CASE next \in Plan(d)
    BY <1>1, <1>2, <1>5, <2>1 DEF Request, Pcs, RunPcs, Accepted, Inserting
  <2>2. CASE next \notin Plan(d)
    BY <1>1, <1>2, <2>2 DEF Request, Pcs, RunPcs, Accepted, Inserting
  <2> QED BY <2>1, <2>2
<1> HIDE DEF q, d, c, at
<1>8. /\ rows' \in [Ids -> SUBSET RowIds] /\ open' \in [Ids -> SUBSET RowIds]
      /\ rows'[c] = rows[c] \cup {at} /\ open'[c] = open[c] \cup {at}
      /\ \A v \in Ids : v # c => rows'[v] = rows[v] /\ open'[v] = open[v]
  BY <1>1, <1>2, <1>4, <1>5
<1>9. RecordsTypeOK' /\ reqs'[r] = q
  BY <1>1, <1>2, <1>7, <1>8 DEF RecordsInv, RecordsTypeOK
<1>10. ASSUME NEW s \in Requests, s # r
       PROVE  /\ reqs'[s] = reqs[s] /\ RequestFits(reqs[s]) /\ VersionOfRequest(reqs[s])
              /\ reqs[s].ver # c
  <2>1. reqs'[s] = reqs[s]
    BY <1>1, <1>2, <1>10
  <2>2. reqs[s].ver # c
    BY <1>3, <1>10 DEF RecordsInv, OneWriter, c
  <2> QED BY <2>1, <2>2 DEF RecordsInv, RequestsFit
<1>11. Versions' = Versions /\ Versions \subseteq Ids
  BY <1>1, VersionFacts DEF Versions
<1>12. RequestsFit'
  <2> SUFFICES ASSUME NEW s \in Requests
               PROVE  RequestFits(reqs[s])' /\ VersionOfRequest(reqs[s])'
    BY DEF RequestsFit
  <2>1. CASE s = r
    <3>1. RequestFits(reqs[s])'
      <4>1. q.pipe \in Pipes /\ ~ q.late /\ q.doc \in WellFormed /\ q.content = q.doc
        BY <1>1, <1>2, <1>7 DEF RequestFits, RunPcs, Accepted, Inserting, d
      <4> QED BY <1>3, <1>7, <1>9, <2>1, <4>1 DEF RequestFits, Inserting
    <3>2. VersionOfRequest(reqs[s])'
      <4>1. reqs'[s] = q /\ q.ver = c /\ q.doc = d /\ q.pc \in Inserting
        BY <1>7, <1>9, <2>1
      <4>2. /\ c \in Versions' /\ versions'[c].content = d /\ versions'[c].process = process'
            /\ work'[c] = "none"
        BY <1>1, <1>3, <1>11
      <4>3. q.pc = "insert rows" => q.at \in Plan(d) /\ rows'[c] = RowsBefore(d, q.at)
        BY <1>6, <1>7, <1>8
      <4>4. q.pc = "put" => rows'[c] = Plan(d)
        BY <1>6, <1>7, <1>8
      <4> QED BY <4>1, <4>2, <4>3, <4>4 DEF VersionOfRequest
    <3> QED BY <3>1, <3>2
  <2>2. CASE s # r
    <3>1. RequestFits(reqs[s])'
      BY <1>1, <1>10, <1>11, <2>2 DEF RequestFits
    <3>2. VersionOfRequest(reqs[s])'
      <4>1. reqs'[s] = reqs[s] /\ VersionOfRequest(reqs[s]) /\ reqs[s].ver # c
        BY <1>10, <2>2
      <4>2. CASE reqs[s].pc \notin Inserting
        BY <4>1, <4>2 DEF VersionOfRequest
      <4>3. CASE reqs[s].pc \in Inserting
        <5>1. reqs[s].ver \in Versions
          BY <4>1, <4>3 DEF VersionOfRequest
        <5>2. rows'[reqs[s].ver] = rows[reqs[s].ver]
          BY <1>8, <1>11, <4>1, <5>1
        <5>3. UNCHANGED <<versions, work, process>>
          BY <1>1
        <5>4. VersionOfRequest(reqs[s]) /\ reqs'[s] = reqs[s]
          BY <4>1
        <5> QED BY <1>11, <4>3, <5>2, <5>3, <5>4 DEF VersionOfRequest
      <4> QED BY <4>2, <4>3
    <3> QED BY <3>1, <3>2
  <2> QED BY <2>1, <2>2
<1>13. OneWriter'
  <2>1. reqs[r].ver = c
    BY DEF c
  <2>2. \A s \in Requests : reqs'[s].ver = reqs[s].ver
    BY <1>7, <1>9, <1>10, <2>1
  <2> QED BY <2>2 DEF RecordsInv, OneWriter
<1>14. VersionsFit'
  <2> SUFFICES ASSUME NEW v \in Versions PROVE VersionFits(v)'
    BY <1>11 DEF VersionsFit
  <2>1. VersionFits(v) /\ v \in Ids
    BY VersionFacts
  <2> QED BY <1>1, <1>3, <1>8, <1>11, <2>1 DEF VersionFits
<1>15. RestIsEmpty'
  BY <1>1, <1>3, <1>8, <1>11 DEF RecordsInv, RestIsEmpty
<1>16. OpenIsOwned'
  <2> SUFFICES ASSUME NEW v \in Versions, NEW w \in open'[v]
               PROVE  IF versions[v].process # process THEN TableOf(w) \notin {Tables[i] : i \in 1 .. sweep}
                      ELSE \/ work[v] \in {"listed", "running"} \/ v \in lost
                           \/ \E s \in Requests : reqs'[s].ver = v
    BY <1>1, <1>11 DEF OpenIsOwned
  <2>1. CASE v = c
    BY <1>3, <1>7, <1>9, <2>1
  <2>2. CASE v # c
    <3>1. w \in open[v]
      BY <1>8, <1>11, <2>2
    <3>2. ASSUME NEW s \in Requests, reqs[s].ver = v PROVE reqs'[s].ver = v
      BY <1>10, <2>2, <3>2 DEF c
    <3> QED BY <3>1, <3>2 DEF RecordsInv, OpenIsOwned
  <2> QED BY <2>1, <2>2
<1> QED BY <1>9, <1>12, <1>13, <1>14, <1>15, <1>16 DEF RecordsInv

\* A request with a version is answered: the engine takes the build or the version is
\* lost.
LEMMA AnswerStep ==
  ASSUME RecordsInv, NEW r \in Requests,
         reqs' = [reqs EXCEPT ![r] = Idle],
         UNCHANGED <<pipes, conf, versions, rows, open, process, sweep>>,
         lost' \subseteq Ids, lost \subseteq lost',
         \/ /\ reqs[r].pc = "put"
            /\ work' = [work EXCEPT ![reqs[r].ver] = "listed"]
         \/ /\ work' = work
            /\ reqs[r].ver = 0 \/ reqs[r].ver \in lost'
  PROVE  RecordsInv'
<1> DEFINE c == reqs[r].ver
<1>1. /\ reqs \in [Requests -> Request]
      /\ work \in [Ids -> {"none", "listed", "running", "over"}]
      /\ RequestFits(reqs[r]) /\ VersionOfRequest(reqs[r])
  BY RequestFacts DEF RecordsInv, RecordsTypeOK
<1>2. Versions' = Versions /\ Versions \subseteq Ids /\ 0 \notin Ids
  BY VersionFacts DEF Versions
<1>3. reqs[r].pc = "put" => /\ c \in Versions /\ versions[c].content \in WellFormed
                            /\ versions[c].process = process /\ rows[c] = Plan(versions[c].content)
  BY <1>1 DEF RequestFits, VersionOfRequest, Accepted, Inserting
<1>4. /\ work' \in [Ids -> {"none", "listed", "running", "over"}]
      /\ \A v \in Ids : v # c => work'[v] = work[v]
  BY <1>1
<1>5. reqs'[r] = Idle /\ reqs' \in [Requests -> Request]
  BY <1>1, IdleFits
<1>6. ASSUME NEW s \in Requests, s # r
      PROVE  /\ reqs'[s] = reqs[s] /\ RequestFits(reqs[s]) /\ VersionOfRequest(reqs[s])
             /\ reqs[s].ver = c => c = 0
  BY <1>1, <1>6 DEF RecordsInv, OneWriter, RequestsFit
<1>7. \A v \in Ids \ Versions : work'[v] = work[v]
  BY <1>1, <1>3
<1>8. RequestsFit'
  <2> SUFFICES ASSUME NEW s \in Requests
               PROVE  RequestFits(reqs[s])' /\ VersionOfRequest(reqs[s])'
    BY DEF RequestsFit
  <2>1. CASE s = r
    BY <1>5, <2>1, IdleFits DEF RequestFits, VersionOfRequest, RunPcs, Accepted, Inserting
  <2>2. CASE s # r
    <3>1. reqs'[s] = reqs[s] /\ RequestFits(reqs[s]) /\ VersionOfRequest(reqs[s])
      BY <1>6, <2>2
    <3>2. RequestFits(reqs[s])'
      BY <1>2, <3>1 DEF RequestFits
    <3>3. VersionOfRequest(reqs[s])'
      <4>1. CASE reqs[s].pc \notin Inserting
        BY <3>1, <4>1 DEF VersionOfRequest
      <4>2. CASE reqs[s].pc \in Inserting
        <5>1. reqs[s].ver \in Versions /\ reqs[s].ver # 0
          BY <3>1, <4>2 DEF VersionOfRequest, RequestFits
        <5>2. work'[reqs[s].ver] = work[reqs[s].ver]
          BY <1>2, <1>4, <1>6, <2>2, <5>1
        <5>3. UNCHANGED <<versions, rows, process>>
          OBVIOUS
        <5>4. VersionOfRequest(reqs[s]) /\ reqs'[s] = reqs[s] /\ Versions' = Versions
          BY <1>2, <3>1
        <5>5. reqs[s].pc \in Inserting
          BY <4>2
        <5> HIDE DEF c
        <5> QED BY ONLY <5>2, <5>3, <5>4, <5>5 DEF VersionOfRequest
      <4> QED BY <4>1, <4>2
    <3> QED BY <3>2, <3>3
  <2> QED BY <2>1, <2>2
<1>9. OneWriter'
  BY <1>5, <1>6, IdleFits DEF RecordsInv, OneWriter
<1>10. VersionsFit'
  <2> SUFFICES ASSUME NEW v \in Versions PROVE VersionFits(v)'
    BY <1>2 DEF VersionsFit
  <2>1. VersionFits(v) /\ v \in Ids
    BY VersionFacts
  <2>2. CASE work'[v] = work[v]
    BY <1>2, <2>1, <2>2 DEF VersionFits
  <2>3. CASE work'[v] # work[v]
    <3>1. v = c /\ reqs[r].pc = "put"
      BY <1>4, <2>1, <2>3
    <3> QED BY <1>2, <1>3, <2>1, <3>1 DEF VersionFits
  <2> QED BY <2>2, <2>3
<1>11. RestIsEmpty'
  BY <1>2, <1>7 DEF RecordsInv, RestIsEmpty
<1>12. OpenIsOwned'
  <2> SUFFICES ASSUME NEW v \in Versions, NEW w \in open[v]
               PROVE  IF versions[v].process # process THEN TableOf(w) \notin {Tables[i] : i \in 1 .. sweep}
                      ELSE \/ work'[v] \in {"listed", "running"} \/ v \in lost'
                           \/ \E s \in Requests : reqs'[s].ver = v
    BY <1>2 DEF OpenIsOwned
  <2>1. CASE v = c
    <3>1. v \in Ids /\ v # 0
      BY <1>2
    <3>2. work'[v] = "listed" \/ v \in lost'
      BY <1>1, <2>1, <3>1
    <3>3. versions[v].process # process => TableOf(w) \notin {Tables[i] : i \in 1 .. sweep}
      BY DEF RecordsInv, OpenIsOwned
    <3> QED BY <3>2, <3>3
  <2>2. CASE v # c
    <3>1. work'[v] = work[v]
      BY <1>2, <1>4, <2>2
    <3>2. ASSUME NEW s \in Requests, reqs[s].ver = v PROVE reqs'[s].ver = v
      BY <1>6, <2>2, <3>2
    <3> QED BY <3>1, <3>2 DEF RecordsInv, OpenIsOwned
  <2> QED BY <2>1, <2>2
<1>13. RecordsTypeOK'
  BY <1>4, <1>5 DEF RecordsInv, RecordsTypeOK
<1> QED BY <1>8, <1>9, <1>10, <1>11, <1>12, <1>13 DEF RecordsInv

\* The build is put into the engine, or the request fails.
LEMMA EndSteps ==
  ASSUME RecordsInv, NEW r \in Requests, PutBuild(r) \/ Fail(r)
  PROVE  RecordsInv'
<1>1. lost \subseteq Ids /\ reqs[r].ver \in {0} \cup Ids
  BY RequestFacts DEF RecordsInv, RecordsTypeOK, Request
<1>2. reqs[r].pc = "put" => reqs[r].ver \in Ids
  BY <1>1, RequestFacts DEF RequestFits, Inserting
<1>3. CASE PutBuild(r)
  <2>1. CASE engine = "on"
    BY <1>1, <1>3, <2>1, AnswerStep DEF PutBuild, Answer, At, tables, buildRows, server
  <2>2. CASE engine # "on"
    BY <1>1, <1>2, <1>3, <2>2, AnswerStep DEF PutBuild, Answer, At, tables, buildRows, server
  <2> QED BY <2>1, <2>2
<1>4. CASE Fail(r)
  BY <1>1, <1>4, AnswerStep DEF Fail, Answer, tables, buildRows, server
<1> QED BY <1>3, <1>4
-----------------------------------------------------------------------------
(* Steps of the engine and of the process.                                 *)

\* A step of the engine takes no build back and gives it none; that open rows are owned
\* is shown for each of them.
LEMMA EngineStep ==
  ASSUME RecordsInv, UNCHANGED <<pipes, conf, versions, rows, reqs, process>>,
         work' \in [Ids -> {"none", "listed", "running", "over"}],
         \A v \in Ids : work[v] = "none" <=> work'[v] = "none",
         open' \in [Ids -> SUBSET RowIds], lost' \subseteq Ids, sweep' \in 0 .. Len(Tables),
         OpenIsOwned'
  PROVE  RecordsInv'
<1>1. Versions' = Versions /\ Versions \subseteq Ids
  BY VersionFacts DEF Versions
<1>2. RecordsTypeOK'
  BY DEF RecordsInv, RecordsTypeOK
<1>3. RequestsFit'
  <2> SUFFICES ASSUME NEW s \in Requests
               PROVE  RequestFits(reqs[s])' /\ VersionOfRequest(reqs[s])'
    BY DEF RequestsFit
  <2>1. RequestFits(reqs[s]) /\ VersionOfRequest(reqs[s])
    BY DEF RecordsInv, RequestsFit
  <2>2. RequestFits(reqs[s])'
    BY <1>1, <2>1 DEF RequestFits
  <2>3. VersionOfRequest(reqs[s])'
    BY <1>1, <2>1 DEF VersionOfRequest
  <2> QED BY <2>2, <2>3
<1>4. OneWriter' /\ RestIsEmpty'
  BY <1>1 DEF RecordsInv, OneWriter, RestIsEmpty
<1>5. VersionsFit'
  <2> SUFFICES ASSUME NEW v \in Versions PROVE VersionFits(v)'
    BY <1>1 DEF VersionsFit
  <2>1. VersionFits(v) /\ v \in Ids
    BY VersionFacts
  <2> QED BY <1>1, <2>1 DEF VersionFits
<1> QED BY <1>2, <1>3, <1>4, <1>5 DEF RecordsInv

\* TakeBuild opens a row of a build in the engine, EndBuild closes all of them or loses
\* the version, and Sweep leaves nothing open in one more table.
LEMMA EngineSteps ==
  ASSUME RecordsInv, EngineNext
  PROVE  RecordsInv'
<1>1. /\ work \in [Ids -> {"none", "listed", "running", "over"}]
      /\ open \in [Ids -> SUBSET RowIds] /\ lost \subseteq Ids /\ sweep \in 0 .. Len(Tables)
      /\ Len(Tables) = 3
  BY DEF RecordsInv, RecordsTypeOK, Tables
<1>2. Versions \subseteq Ids
  BY VersionFacts
<1>3. ASSUME NEW v \in Ids, work[v] # "none"
      PROVE  v \in Versions /\ versions[v].process = process
  BY <1>3, VersionFacts DEF RecordsInv, RestIsEmpty, VersionFits
<1>4. OpenIsOwned
  BY DEF RecordsInv
<1>5. ASSUME NEW v \in Ids, TakeBuild(v) \/ EndBuild(v)
      PROVE  RecordsInv'
  <2>1. work[v] \in {"listed", "running"} /\ v \in Versions /\ versions[v].process = process
    BY <1>3, <1>5 DEF TakeBuild, EndBuild
  <2>2. CASE TakeBuild(v)
    <3>1. <<0, 0>> \in RowIds
      BY DEF RowIds
    <3>2. /\ work' \in [Ids -> {"none", "listed", "running", "over"}]
          /\ open' \in [Ids -> SUBSET RowIds]
          /\ work'[v] = "running"
          /\ \A u \in Ids : work[u] = "none" <=> work'[u] = "none"
          /\ \A u \in Ids : u # v => work'[u] = work[u] /\ open'[u] = open[u]
      BY <1>1, <2>1, <2>2, <3>1 DEF TakeBuild
    <3>3. UNCHANGED <<pipes, conf, versions, rows, reqs, process, lost, sweep>>
      BY <2>2 DEF TakeBuild, tables, server
    <3>4. OpenIsOwned'
      BY <1>2, <1>4, <2>1, <3>2, <3>3 DEF OpenIsOwned, Versions
    <3> QED BY <1>1, <3>2, <3>3, <3>4, EngineStep
  <2>3. CASE EndBuild(v)
    <3>1. /\ work' \in [Ids -> {"none", "listed", "running", "over"}]
          /\ \A u \in Ids : work[u] = "none" <=> work'[u] = "none"
          /\ \A u \in Ids : u # v => work'[u] = work[u]
      BY <1>1, <2>1, <2>3 DEF EndBuild
    <3>2. /\ open' \in [Ids -> SUBSET RowIds] /\ lost' \subseteq Ids /\ lost \subseteq lost'
          /\ \A u \in Ids : u # v => open'[u] = open[u]
          /\ open'[v] = {} \/ v \in lost'
      BY <1>1, <2>3 DEF EndBuild
    <3>3. UNCHANGED <<pipes, conf, versions, rows, reqs, process, sweep>>
      BY <2>3 DEF EndBuild, tables, server
    <3>4. OpenIsOwned'
      BY <1>2, <1>4, <2>1, <3>1, <3>2, <3>3 DEF OpenIsOwned, Versions
    <3> QED BY <1>1, <3>1, <3>2, <3>3, <3>4, EngineStep
  <2> QED BY <1>5, <2>2, <2>3
<1>6. CASE StartEngine
  <2>1. UNCHANGED <<pipes, conf, versions, rows, open, reqs, work, lost, process, sweep>>
    BY <1>6 DEF StartEngine, tables, buildRows
  <2>2. OpenIsOwned'
    BY <1>4, <2>1 DEF OpenIsOwned, Versions
  <2> QED BY <1>1, <2>1, <2>2, EngineStep
<1>7. CASE Sweep
  <2> DEFINE t == Tables[sweep + 1]
  <2>1. /\ sweep' = sweep + 1 /\ sweep' \in 0 .. Len(Tables)
        /\ open' = [v \in Ids |-> {w \in open[v] : TableOf(w) # t}]
    BY <1>1, <1>7 DEF Sweep
  <2>2. UNCHANGED <<pipes, conf, versions, rows, reqs, work, lost, process>>
    BY <1>7 DEF Sweep, tables
  <2>3. open' \in [Ids -> SUBSET RowIds]
    BY <1>1, <2>1
  <2>4. {Tables[i] : i \in 1 .. sweep'} \subseteq {Tables[i] : i \in 1 .. sweep} \cup {t}
    BY <1>1, <2>1
  <2>5. \A v \in Ids : \A w \in open'[v] : w \in open[v] /\ TableOf(w) # t
    BY <2>1
  <2> HIDE DEF t
  <2>6. OpenIsOwned'
    <3> SUFFICES ASSUME NEW v \in Versions, NEW w \in open'[v]
                 PROVE  IF versions[v].process # process
                        THEN TableOf(w) \notin {Tables[i] : i \in 1 .. sweep'}
                        ELSE \/ work[v] \in {"listed", "running"} \/ v \in lost
                             \/ \E s \in Requests : reqs[s].ver = v
      BY <2>2 DEF OpenIsOwned, Versions
    <3>1. w \in open[v] /\ TableOf(w) # t
      BY <1>2, <2>5
    <3> QED BY <1>4, <2>4, <3>1 DEF OpenIsOwned
  <2> QED BY <1>1, <2>1, <2>2, <2>3, <2>6, EngineStep
<1> QED BY <1>5, <1>6, <1>7 DEF EngineNext

\* After a restart every version is one of an earlier process.
LEMMA RestartStep ==
  ASSUME RecordsInv, Restart
  PROVE  RecordsInv'
<1>1. /\ reqs' = [r \in Requests |-> Idle] /\ work' = [v \in Ids |-> "none"]
      /\ process' = process + 1 /\ sweep' = 0
      /\ UNCHANGED <<pipes, conf, versions, rows, open, lost>>
  BY DEF Restart, tables, buildRows
<1>2. process \in Nat /\ Len(Tables) = 3
  BY DEF RecordsInv, RecordsTypeOK, Tables
<1>3. Versions' = Versions /\ Versions \subseteq Ids /\ \A v \in Versions : versions[v] \in Version
  BY <1>1, VersionFacts DEF Versions
<1>4. RecordsTypeOK'
  BY <1>1, <1>2, IdleFits DEF RecordsInv, RecordsTypeOK
<1>5. RequestsFit' /\ OneWriter'
  BY <1>1, IdleFits DEF RequestsFit, RequestFits, VersionOfRequest, OneWriter, RunPcs, Accepted,
       Inserting
<1>6. ASSUME NEW v \in Versions
      PROVE  versions[v].process \in Nat /\ versions[v].process < process' /\ work'[v] = "none"
  <2>1. versions[v].process <= process /\ versions[v].process \in Nat
    BY <1>3, VersionFacts DEF VersionFits, Version
  <2> QED BY <1>1, <1>2, <1>3, <2>1
<1>7. VersionsFit'
  <2> SUFFICES ASSUME NEW v \in Versions PROVE VersionFits(v)'
    BY <1>3 DEF VersionsFit
  <2>1. VersionFits(v)
    BY VersionFacts
  <2>2. process' \in Nat /\ versions[v].process <= process'
    BY <1>1, <1>2, <1>6
  <2> QED BY <1>1, <1>3, <1>6, <2>1, <2>2 DEF VersionFits
<1>8. RestIsEmpty'
  BY <1>1, <1>3 DEF RecordsInv, RestIsEmpty
<1>9. OpenIsOwned'
  <2>1. {Tables[i] : i \in 1 .. sweep'} = {}
    BY <1>1
  <2>2. \A v \in Versions : versions[v].process # process'
    BY <1>1, <1>2, <1>6
  <2> QED BY <1>1, <1>3, <2>1, <2>2 DEF OpenIsOwned
<1> QED BY <1>4, <1>5, <1>7, <1>8, <1>9 DEF RecordsInv

\* The invariant holds of what the database may hold when the process starts.
LEMMA InitHolds ==
  ASSUME RecordsInit
  PROVE  RecordsInv
<1>1. /\ MaxVersions \in Nat \ {0} /\ WellFormed \subseteq Docs /\ Sizes \in [Docs -> Seq(Nat)]
      /\ reqs = [r \in Requests |-> Idle] /\ work = [v \in Ids |-> "none"] /\ lost = {} /\ sweep = 0
      /\ process \in {1, 2} /\ (versions # <<>> => process = 2)
      /\ rows = [v \in Ids |-> IF v \in Versions THEN Plan(versions[v].content) ELSE {}]
  BY RecordsShape DEF RecordsShape, RecordsInit
<1>2. pipes \in [Pipes -> {"none", "live", "deleted"}] /\ conf \in [Pipes -> DocRows]
  BY <1>1 DEF RecordsInit, DocRows
<1>3. \/ versions = <<>>
      \/ \E p \in Pipes, d \in WellFormed :
           versions = <<Earlier(p, d)>>
  BY DEF RecordsInit
<1>4. /\ versions \in Seq(Version) /\ Len(versions) \in {0, 1} /\ Versions = 1 .. Len(versions)
      /\ \A v \in Versions :
           /\ v = 1
           /\ versions[v].number = 1 /\ versions[v].seen = {} /\ ~ versions[v].late
           /\ versions[v].process = 1 /\ versions[v].content \in WellFormed
  <2>1. CASE versions = <<>>
    BY <2>1 DEF Versions
  <2>2. ASSUME NEW p \in Pipes, NEW d \in WellFormed,
               versions = <<Earlier(p, d)>>
        PROVE  /\ versions \in Seq(Version) /\ Len(versions) \in {0, 1} /\ Versions = 1 .. Len(versions)
               /\ \A v \in Versions :
                    /\ v = 1
                    /\ versions[v].number = 1 /\ versions[v].seen = {} /\ ~ versions[v].late
                    /\ versions[v].process = 1 /\ versions[v].content \in WellFormed
    <3> DEFINE x == Earlier(p, d)
    <3>1. x \in Version
      BY <1>1 DEF Earlier, Version, DocRows
    <3>2. x.number = 1 /\ x.seen = {} /\ ~ x.late /\ x.process = 1 /\ x.content = d
      BY DEF Earlier
    <3>3. versions = <<x>>
      BY <2>2
    <3> HIDE DEF x
    <3> QED BY <3>1, <3>2, <3>3 DEF Versions
  <2> QED BY <1>3, <2>1, <2>2
<1>5. Versions \subseteq Ids /\ Len(versions) <= MaxVersions
  BY <1>1, <1>4 DEF Ids
<1>6. /\ rows \in [Ids -> SUBSET RowIds] /\ open \in [Ids -> SUBSET RowIds]
      /\ \A v \in Ids \ Versions : rows[v] = {}
      /\ \A v \in Versions : rows[v] = Plan(versions[v].content)
  <2>1. ASSUME NEW v \in Versions PROVE Plan(versions[v].content) \subseteq RowIds
    <3>1. versions[v].content \in Docs
      BY <1>1, <1>4
    <3> QED BY <3>1, PlanIsRows DEF RowIds
  <2>2. \A v \in Ids : rows[v] \subseteq RowIds
    BY <1>1, <2>1
  <2>3. open \in LeftOpen
    BY DEF RecordsInit
  <2>4. DOMAIN open = Ids /\ open = [v \in Ids |-> open[v]]
    BY <2>3 DEF LeftOpen
  <2>5. \A v \in Ids : open[v] \subseteq RowIds
    BY <2>2, <2>3 DEF LeftOpen
  <2> QED BY <1>1, <1>5, <2>2, <2>4, <2>5
<1>7. RecordsTypeOK
  BY <1>1, <1>2, <1>4, <1>5, <1>6, IdleFits DEF RecordsTypeOK, Tables
<1>8. RequestsFit /\ OneWriter
  BY <1>1, IdleFits DEF RequestsFit, RequestFits, VersionOfRequest, OneWriter, RunPcs, Accepted,
       Inserting
<1>9. VersionsFit
  <2> SUFFICES ASSUME NEW v \in Versions PROVE VersionFits(v)
    BY DEF VersionsFit
  <2>1. versions[v].process <= process
    BY <1>1, <1>4
  <2> QED BY <1>1, <1>4, <1>5, <2>1 DEF VersionFits
<1>10. RestIsEmpty
  BY <1>1, <1>6 DEF RestIsEmpty
<1>11. OpenIsOwned
  <2>1. \A v \in Versions : versions[v].process = 1 /\ process = 2
    <3>1. ASSUME NEW v \in Versions PROVE versions # <<>>
      BY <1>4
    <3> QED BY <1>1, <1>4, <3>1
  <2>2. {Tables[i] : i \in 1 .. sweep} = {}
    BY <1>1
  <2> QED BY <2>1, <2>2 DEF OpenIsOwned
<1> QED BY <1>7, <1>8, <1>9, <1>10, <1>11 DEF RecordsInv

-----------------------------------------------------------------------------
(* The theorems.                                                           *)

\* The invariant holds in every state, for any pipelines, descriptions, requests and
\* bounds.  It says of every request which description it carries and how many rows of
\* it its version has, of every version where its number and its rows come from, and
\* that no two requests write the rows of one version.
THEOREM RecordsInvariant == RecordsSpec => []RecordsInv
<1>1. RecordsInit => RecordsInv
  BY InitHolds
<1>2. RecordsInv /\ [RecordsNext]_recordsVars => RecordsInv'
  <2> SUFFICES ASSUME RecordsInv, [RecordsNext]_recordsVars
               PROVE  RecordsInv'
    OBVIOUS
  <2>1. ASSUME NEW r \in Editors, PipeNext(r) \/ DeleteNext(r) PROVE RecordsInv'
    <3>1. r \in Requests
      BY RecordsShape DEF RecordsShape
    <3> QED BY <2>1, <3>1, PipeSteps, DeleteSteps, DropSteps DEF DeleteNext
  <2>2. ASSUME NEW r \in Requests, RunNext(r) PROVE RecordsInv'
    BY <2>2, BeginRunSteps, ReadSteps, InsertVersionStep, InsertRowStep, EndSteps DEF RunNext
  <2>3. ASSUME NEW r \in Requests, Fail(r) PROVE RecordsInv'
    BY <2>3, EndSteps
  <2>4. CASE EngineNext
    BY <2>4, EngineSteps
  <2>5. CASE Restart
    BY <2>5, RestartStep
  <2>6. CASE UNCHANGED recordsVars
    <3>1. UNCHANGED <<pipes, conf, versions, rows, open, reqs, work, lost, process, sweep>>
      BY <2>6 DEF recordsVars, tables, buildRows, server
    <3>2. Versions' = Versions /\ Versions \subseteq Ids
      BY <3>1, VersionFacts DEF Versions
    <3>3. OpenIsOwned'
      BY <3>1, <3>2 DEF OpenIsOwned, RecordsInv
    <3>4. /\ work \in [Ids -> {"none", "listed", "running", "over"}]
          /\ open \in [Ids -> SUBSET RowIds] /\ lost \subseteq Ids /\ sweep \in 0 .. Len(Tables)
      BY DEF RecordsInv, RecordsTypeOK
    <3> QED BY <3>1, <3>3, <3>4, EngineStep
  <2> QED BY <2>1, <2>2, <2>3, <2>4, <2>5, <2>6 DEF RecordsNext
<1> QED BY <1>1, <1>2, PTL DEF RecordsSpec

\* A build that is in the engine has every row of the description its version shows,
\* and that description passed Check (preBuild, Run and ReBuild in service/pipeline.go),
\* whatever is saved, copied or deleted while its rows are inserted.
THEOREM PutBuildsAreComplete == RecordsSpec => []PutIsComplete
<1>1. RecordsInv => PutIsComplete
  BY DEF RecordsInv, VersionsFit, VersionFits, PutIsComplete
<1> QED BY <1>1, RecordsInvariant, PTL

\* A row that has not ended belongs to a build in the engine, to a request at work or to
\* a version that was lost in this process; what an earlier process left open is closed
\* by init() table by table (engine/buildEgn.go), while new rows appear beside it.
THEOREM OpenRowsAreOwned == RecordsSpec => []OpenIsOwned
<1>1. RecordsInv => OpenIsOwned
  BY DEF RecordsInv
<1> QED BY <1>1, RecordsInvariant, PTL

\* The number of a version is above those of all versions of its pipeline that were
\* there when it was computed, the deleted ones and those of earlier processes too.
THEOREM VersionNumbersRise == RecordsSpec => []NumbersRise
<1>1. RecordsInv => NumbersRise
  BY DEF RecordsInv, VersionsFit, VersionFits, NumbersRise
<1> QED BY <1>1, RecordsInvariant, PTL

\* No version is made of a pipeline that was deleted before the run began: the trigger
\* does not look at the flag, but preBuild reads the row again.
THEOREM DeletedPipesAreNotRun == RecordsSpec => []DeletedIsNotRun
<1>1. RecordsInv => DeletedIsNotRun
  BY DEF RecordsInv, VersionsFit, VersionFits, DeletedIsNotRun
<1> QED BY <1>1, RecordsInvariant, PTL
=============================================================================
