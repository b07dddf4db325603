-------------------------------- MODULE Orgs --------------------------------
(***************************************************************************)
(* An organisation, its members, the pipeline it shares and the variables  *)
(* of both: who may do what (service/user.go, service/perms.go) and the    *)
(* handlers that change the rows (route/org.go, route/pipeline.go).  No    *)
(* table has a unique key: a handler that adds a row looks for it first,   *)
(* and nothing keeps two handlers from finding nothing at the same time.   *)
(*                                                                         *)
(* Members and permissions are those of one organisation, First, and of    *)
(* the pipeline First.  Variables are those of several organisations and   *)
(* pipelines, which share a table and which a request names beside the     *)
(* row; new makes pipelines.  Users are never removed.  All variables are  *)
(* secret.                                                                 *)
(***************************************************************************)
EXTENDS Naturals, FiniteSets, Sequences

CONSTANTS
  Admin,      \* the user of the reserved name
  Owner,      \* of the organisation
  Author,     \* of the pipeline
  Others,
  First, Seconds, \* organisations and pipelines
  VarNames,
  MaxGiven,   \* bounds the variables a request to new brings along
  Granted,    \* bounds what an edit of a member gives
  Requests,   \* the handlers under way
  Aids        \* bounds the rows of a table: their keys

\* The database counts the keys of a table from one.
ASSUME OrgsShape == Aids \subseteq Nat \ {0}

Users == {Admin, Owner, Author} \cup Others
Perms == {"adm", "rw", "exec"}
Scopes == {"org", "pipe"}   \* t_org_var and t_pipeline_var
Homes == {First} \cup Seconds
Given == UNION {[1 .. n -> VarNames] : n \in 1 .. MaxGiven}

VARIABLES
  org,      \* t_org: public, deleted
  isMySQL,  \* comm.IsMySQL
  members,  \* t_user_org
  pipes,    \* t_pipeline: the pipelines there are
  shared,   \* t_org_pipe: the rows of the organisation, by pipeline
  variables, \* t_org_var and t_pipeline_var: rows by home and name
  handlers, \* the handlers
  table,    \* the table all handlers write; the others stay as they are
  excused   \* history: the keys two rows have, or may get, for a reason named below

orgsVars == <<org, isMySQL, members, pipes, shared, variables, handlers, table, excused>>

Waiting == [at |-> "waiting"]

\* Who works on the organisation finds the other tables as any handlers may have left
\* them; who works on another table starts with empty ones.
OrgsInit ==
  /\ table \in {"orgs", "members", "shared"} \cup Scopes
  /\ \/ /\ table = "orgs"
        /\ org \in [public : BOOLEAN, deleted : BOOLEAN]
        /\ isMySQL \in BOOLEAN
        /\ members \in {{[aid |-> 1, key |-> u, perms |-> g], [aid |-> m, key |-> w, perms |-> g2]} :
              u, w \in Others, g, g2 \in SUBSET Granted, m \in {1, 2}} \cup {{}}
        /\ shared \in {{}, {[aid |-> 1, key |-> First]}}
        /\ excused = Others
     \/ /\ table # "orgs"
        /\ org = [public |-> FALSE, deleted |-> FALSE]
        /\ isMySQL = TRUE
        /\ members = {} /\ shared = {} /\ excused = {}
  /\ pipes = {First}
  /\ variables = [s \in Scopes |-> {}]
  /\ handlers = [r \in Requests |-> Waiting]

-----------------------------------------------------------------------------
(* Permissions.                                                            *)

IsAdmin(u) == u = Admin

\* NewOrgPermCtx: the organisation unless it is deleted, and a row of the user.
OrgPerm(u) ==
  {[by |-> u, found |-> ~ org.deleted, public |-> org.public, row |-> row] :
     row \in IF org.deleted \/ \A m \in members : m.key # u THEN {{}}
             ELSE {m.perms \cup {"member"} : m \in {n \in members : n.key = u}}}

IsOrgOwner(p) == p.found /\ p.by = Owner
IsOrgAdmin(p) == IsAdmin(p.by) \/ IsOrgOwner(p) \/ "adm" \in p.row
OrgCanRead(p) == (p.found /\ p.public) \/ IsOrgAdmin(p) \/ p.row # {}
OrgCanWrite(p) == IsOrgAdmin(p) \/ "rw" \in p.row
OrgCanExec(p) == IsOrgAdmin(p) \/ "exec" \in p.row

\* NewPipePermCtx: the organisations of the pipeline, only in a MySQL database; the
\* query takes a deleted one that is public.
PipePerm(u) ==
  [by |-> u,
   orgs |-> IF ~ isMySQL \/ (\A s \in shared : s.key # First) \/ (org.deleted /\ ~ org.public) THEN {}
            ELSE LET mine == {m \in members : m.key = u}
                     Row(r) == [public |-> org.public, row |-> r]
                 IN IF mine = {} THEN {Row({})} ELSE {Row(m.perms \cup {"member"}) : m \in mine}]

IsPipeOwner(p) == p.by = Author
PipeGrants(p, given) ==
  \/ IsAdmin(p.by)
  \/ IsPipeOwner(p)
  \/ \E o \in p.orgs : p.by = Owner \/ o.row \cap given # {}
\* The mutant looks for the rows with a permission only.
PipeCanReadNamed(p) == PipeGrants(p, Perms) \/ \E o \in p.orgs : o.public
PipeCanRead(p) == PipeGrants(p, {"member"}) \/ \E o \in p.orgs : o.public
PipeCanWrite(p) == PipeGrants(p, {"adm", "rw"})
PipeCanExec(p) == PipeGrants(p, {"adm", "exec"})

-----------------------------------------------------------------------------
(* What the listings and the pages show.                                   *)

\* list of the organisations
OrgListed(u) ==
  /\ ~ org.deleted
  /\ IsAdmin(u) \/ org.public \/ u = Owner \/ \E m \in members : m.key = u

\* info of the organisation: its page, with what the user may do
OrgPages(u) ==
  {[adm |-> IsOrgAdmin(p), own |-> IsOrgOwner(p), write |-> OrgCanWrite(p), exec |-> OrgCanExec(p)] :
     p \in {q \in OrgPerm(u) : q.found /\ OrgCanRead(q)}}

\* users of the organisation: its members, the administrators apart
MemberPages(u) ==
  {[adms |-> {m \in members : "adm" \in m.perms}, others |-> {m \in members : "adm" \notin m.perms}] :
     p \in {q \in OrgPerm(u) : OrgCanRead(q) /\ q.found}}

\* orgPipelines: the pipelines of the organisation
PipeListedInOrg(u) == (\E s \in shared : s.key = First) /\ \E p \in OrgPerm(u) : p.found /\ OrgCanRead(p)

\* getPipelines: one's own, all of them for the administrator
PipeListed(u) == IsAdmin(u) \/ u = Author

\* info of the pipeline: its page, with what the user may do; who may not write does
\* not see the user name and the token of its repository
PipePages(u) ==
  LET p == PipePerm(u)
  IN IF ~ PipeCanRead(p) THEN {}
     ELSE {[write |-> PipeCanWrite(p), exec |-> PipeCanExec(p), masked |-> ~ PipeCanWrite(p)]}

\* vars of the organisation and of the pipeline
Masks(row, mayWrite) == IF ~ mayWrite THEN [row EXCEPT !.value = "***"] ELSE row
VarsOf(scope, home) == {row \in variables[scope] : row.key.home = home}
OrgVarPages(u) ==
  {{Masks(row, OrgCanWrite(p)) : row \in VarsOf("org", First)} : p \in {q \in OrgPerm(u) : q.found /\ OrgCanRead(q)}}
PipeVarPages(u) ==
  LET p == PipePerm(u)
  IN IF PipeCanRead(p) THEN {{Masks(row, PipeCanWrite(p)) : row \in VarsOf("pipe", First)}} ELSE {}

-----------------------------------------------------------------------------
(* Requests.  A handler reads the permissions first; one that is refused   *)
(* changes nothing and is left out.                                        *)

Free(r, place) == table = place /\ handlers[r] = Waiting

Begin(r, h) ==
  /\ handlers' = [handlers EXCEPT ![r] = h]
  /\ UNCHANGED <<org, isMySQL, members, pipes, shared, variables, table, excused>>

\* Only the administrator and the owner make somebody an administrator of the
\* organisation; who is one already may change the rest.
userEdit(r) ==
  /\ Free(r, "members")
  /\ \E by \in Users, u \in Others, perms \in SUBSET Granted, add \in BOOLEAN :
       \E p \in OrgPerm(by) :
         /\ by # u /\ p.found
         /\ IF "adm" \in perms THEN IsAdmin(by) \/ IsOrgOwner(p) ELSE IsOrgAdmin(p)
         /\ Begin(r, [at |-> "look", kind |-> "userEdit", key |-> u, perms |-> perms, add |-> add])

userRm(r) ==
  /\ Free(r, "members")
  /\ \E by \in Users, u \in Others : \E p \in OrgPerm(by) :
       /\ by # u /\ p.found /\ IsOrgAdmin(p)
       /\ Begin(r, [at |-> "look", kind |-> "userRm", key |-> u])

\* Who may ask for what the administrators of an organisation may.
Administrators == {by \in Users : \E p \in OrgPerm(by) : p.found /\ IsOrgAdmin(p)}

pipeAdd(r) ==
  /\ Free(r, "shared") /\ Administrators # {}
  /\ \E pipe \in pipes : Begin(r, [at |-> "look", kind |-> "pipeAdd", key |-> pipe])

pipeRm(r) ==
  /\ Free(r, "shared") /\ Administrators # {}
  /\ \E pipe \in pipes : Begin(r, [at |-> "write", kind |-> "pipeRm", key |-> pipe, aid |-> 0])

save(r) ==
  /\ Free(r, "orgs") /\ Administrators # {}
  /\ \E public \in BOOLEAN : Begin(r, [at |-> "write", kind |-> "save", key |-> public, aid |-> 0])

rm(r) ==
  /\ Free(r, "orgs") /\ Administrators # {}
  /\ Begin(r, [at |-> "write", kind |-> "rm", key |-> TRUE, aid |-> 0])

\* What is asked of First is asked of the others: they have the same owner and author.
Writers(scope) ==
  {by \in Users : IF scope = "pipe" THEN PipeCanWrite(PipePerm(by))
                  ELSE \E p \in OrgPerm(by) : p.found /\ OrgCanWrite(p)}
HomesOf(scope) == IF scope = "pipe" THEN pipes ELSE Homes

\* edits is 0 for a new variable, else the key of the row that is changed, whatever
\* organisation or pipeline it belongs to: home is the one the request names.
varSave(r) ==
  \E scope \in Scopes :
    /\ Free(r, scope) /\ Writers(scope) # {}
    /\ \E name \in VarNames, home \in HomesOf(scope), edits \in {0} \cup {v.aid : v \in variables[scope]} :
         Begin(r, [at |-> "look", kind |-> "varSave", key |-> [home |-> home, name |-> name],
                   edits |-> edits])

\* The row is read before the permissions.
varDel(r) ==
  \E scope \in Scopes :
    /\ Free(r, scope) /\ Writers(scope) # {}
    /\ \E v \in variables[scope] : Begin(r, [at |-> "write", kind |-> "varDel", aid |-> v.aid])

\* new makes the pipeline and then, looking for nothing, a row for each variable and one
\* for the organisation.  A request with both is here one with variables, or one with an
\* organisation: the rows are of two tables.
new(r) ==
  /\ \E home \in Seconds \ pipes :
       /\ \/ /\ Free(r, "shared") /\ Writers("org") # {}
             /\ handlers' = [handlers EXCEPT ![r] =
                               [at |-> "write", kind |-> "new", key |-> home, aid |-> 0]]
          \/ /\ Free(r, "pipe")
             /\ \E given \in Given :
                  handlers' = [handlers EXCEPT ![r] =
                                [at |-> "insert", kind |-> "new", home |-> home, names |-> given]]
       /\ pipes' = pipes \cup {home}
  /\ UNCHANGED <<org, isMySQL, members, shared, variables, table, excused>>

-----------------------------------------------------------------------------
(* The look before a write, and the write.                                 *)

Rows == CASE table = "members" -> members
          [] table = "shared" -> shared
          [] OTHER -> variables[table]

Found(h) == {row \in Rows : row.key = h.key}

Finish(r) == handlers' = [handlers EXCEPT ![r] = Waiting]
Writes(r, h) == handlers' = [handlers EXCEPT ![r] = h]

\* aid is the row that will be changed or removed, 0 for a new one.
GoOn(r, aid) ==
  LET h == handlers[r]
  IN CASE h.kind = "userEdit" ->
            \* an addition keeps what the row grants already, the administration apart
            LET old == UNION {row.perms : row \in {q \in members : q.aid = aid}}
            IN Writes(r, [at |-> "write", kind |-> h.kind, key |-> h.key, aid |-> aid,
                          perms |-> IF h.add THEN (old \ {"adm"}) \cup (h.perms \cap {"adm"}) ELSE h.perms])
       [] h.kind = "userRm" ->
            IF aid = 0 THEN Finish(r)
            ELSE Writes(r, [at |-> "write", kind |-> h.kind, key |-> h.key, aid |-> aid])
       [] h.kind = "pipeAdd" ->
            IF aid # 0 THEN Finish(r)
            ELSE Writes(r, [at |-> "write", kind |-> h.kind, key |-> h.key, aid |-> 0])
       [] h.kind = "varSave" ->
            IF aid # 0 /\ aid # h.edits THEN Finish(r)
            ELSE Writes(r, [at |-> "write", kind |-> h.kind, key |-> h.key, aid |-> h.edits])

\* The mutant takes it that there is none.
LookNowhere(r) ==
  /\ handlers[r].at = "look"
  /\ GoOn(r, 0)
  /\ UNCHANGED <<org, isMySQL, members, pipes, shared, variables, table, excused>>
Look(r) ==
  /\ handlers[r].at = "look"
  /\ IF Found(handlers[r]) = {} THEN GoOn(r, 0)
     ELSE \E row \in Found(handlers[r]) : GoOn(r, row.aid)
  /\ UNCHANGED <<org, isMySQL, members, pipes, shared, variables, table, excused>>

\* A key no row has and no handler remembers.
FreshAids(rows) ==
  Aids \ ({row.aid : row \in rows}
          \cup UNION {{handlers[q].aid} : q \in {o \in Requests : handlers[o].at = "write"}}
          \cup UNION {{handlers[q].edits} : q \in {o \in Requests : handlers[o].at = "look"
                                                     /\ handlers[o].kind = "varSave"}})

RowOf(h, aid) ==
  CASE h.kind = "userEdit" -> [aid |-> aid, key |-> h.key, perms |-> h.perms]
    [] h.kind \in {"pipeAdd", "new"} -> [aid |-> aid, key |-> h.key]
    [] h.kind = "varSave" -> [aid |-> aid, key |-> h.key, value |-> "text"]

\* A row that is changed stays where it is: a variable gets its name only.
Changed(h, row) ==
  CASE h.kind = "userEdit" -> RowOf(h, h.aid)
    [] h.kind = "varSave" -> [aid |-> h.aid, key |-> [home |-> row.key.home, name |-> h.key.name],
                              value |-> "text"]

\* A row that is gone is not changed.
Written(h, rows, aid) ==
  CASE h.kind \in {"userRm", "varDel"} -> {row \in rows : row.aid # h.aid}
    [] h.kind = "pipeRm" -> {row \in rows : row.key # h.key}
    [] OTHER -> IF h.aid = 0 THEN rows \cup {RowOf(h, aid)}
                ELSE {IF row.aid = h.aid THEN Changed(h, row) ELSE row : row \in rows}

\* The keys a handler is about to give to rows, where it has looked or will not look.
Gives(h) ==
  \/ h.kind \in {"pipeAdd", "new"}
  \/ h.kind \in {"userEdit", "varSave"} /\ h.aid = 0
  \/ h.kind = "varSave" /\ \E row \in Rows : row.aid = h.aid /\ row.key.home = h.key.home
Claims(h) ==
  CASE h.at = "insert" -> {[home |-> h.home, name |-> h.names[i]] : i \in 1 .. Len(h.names)}
    [] h.at = "write" -> IF Gives(h) THEN {h.key} ELSE {}
    [] OTHER -> {}
\* The key an edit gives to a row of another home than the request names.
Strays(h) ==
  IF h.kind # "varSave" THEN {}
  ELSE {[home |-> row.key.home, name |-> h.key.name] :
          row \in {v \in Rows : v.aid = h.aid /\ v.key.home # h.key.home}}
Claimed(r) == UNION {Claims(handlers[q]) : q \in Requests \ {r}}

\* An excuse is over when no two rows have the key and nobody is about to give it.
Lasting(keys, rows, claims) ==
  {k \in keys : k \in claims \/ \E m, n \in rows : m # n /\ m.key = k /\ n.key = k}

WriteRow(r) ==
  LET h == handlers[r]
      aids == IF h.aid = 0 /\ h.kind # "pipeRm" THEN FreshAids(Rows) ELSE {0}
  IN /\ h.at = "write"
     /\ h.kind \notin {"save", "rm"}
     /\ aids # {}
     /\ LET rows == Written(h, Rows, CHOOSE a \in aids : \A b \in aids : a <= b)
        IN /\ members' = IF table = "members" THEN rows ELSE members
           /\ shared' = IF table = "shared" THEN rows ELSE shared
           /\ variables' = IF table \in Scopes THEN [variables EXCEPT ![table] = rows] ELSE variables
           /\ excused' = Lasting(excused \cup (Claims(h) \cap Claimed(r)) \cup Strays(h), rows, Claimed(r))
     /\ Finish(r)
     /\ UNCHANGED <<org, isMySQL, pipes, table>>

\* new inserts the next of the variables it was given.
InsertVar(r) ==
  LET h == handlers[r]
      key == [home |-> h.home, name |-> Head(h.names)]
      aids == FreshAids(Rows)
  IN /\ h.at = "insert"
     /\ aids # {}
     /\ LET rows == Rows \cup {[aid |-> CHOOSE a \in aids : \A b \in aids : a <= b,
                                key |-> key, value |-> "text"]}
            rest == [h EXCEPT !.names = Tail(@)]
        IN /\ variables' = [variables EXCEPT ![table] = rows]
           /\ IF rest.names = <<>> THEN Finish(r) ELSE Writes(r, rest)
           /\ excused' = LET claims == Claimed(r) \cup Claims(rest)
                         IN Lasting(excused \cup ({key} \cap claims), rows, claims)
     /\ UNCHANGED <<org, isMySQL, members, pipes, shared, table>>

WriteOrg(r) ==
  LET h == handlers[r]
  IN /\ h.at = "write"
     /\ h.kind \in {"save", "rm"}
     /\ org' = IF h.kind = "save" THEN [org EXCEPT !.public = h.key] ELSE [org EXCEPT !.deleted = TRUE]
     /\ Finish(r)
     /\ UNCHANGED <<isMySQL, members, pipes, shared, variables, table, excused>>

\* A statement fails: the handler answers so.
StatementFails(r) ==
  /\ handlers[r].at \in {"look", "write", "insert"}
  /\ Finish(r)
  /\ UNCHANGED <<org, isMySQL, members, pipes, shared, variables, table, excused>>

OrgsNext ==
  \E r \in Requests :
    \/ userEdit(r) \/ userRm(r) \/ pipeAdd(r) \/ pipeRm(r) \/ varSave(r) \/ varDel(r)
    \/ save(r) \/ rm(r) \/ new(r)
    \/ Look(r) \/ WriteRow(r) \/ InsertVar(r) \/ WriteOrg(r) \/ StatementFails(r)

OrgsSpec == OrgsInit /\ [][OrgsNext]_orgsVars

-----------------------------------------------------------------------------
(* Properties.                                                             *)

\* A user is a member once, a pipeline is shared once and a name is taken once in an
\* organisation or a pipeline, unless two handlers were about to write the same at the
\* same time, an edit gave the name to a row of another home than it named and looked
\* into, or one request to new brought the name twice.
DoubledForReason ==
  /\ \A m, n \in members : m.key = n.key => m = n \/ m.key \in excused
  /\ \A m, n \in shared : m.key = n.key => m = n \/ m.key \in excused
  /\ \A s \in Scopes : \A v, w \in variables[s] : v.key = w.key => v = w \/ v.key \in excused

\* The queries of the listings and the rules of the pages agree: an organisation is
\* listed to whom its page opens for, with its members and variables, and a listed
\* pipeline opens, when the database is one the rules of pipelines look into.
ListedCanBeOpened ==
  \A u \in Users :
    /\ OrgListed(u) <=> OrgPages(u) # {}
    /\ OrgListed(u) <=> MemberPages(u) # {}
    /\ OrgListed(u) <=> OrgVarPages(u) # {}
    /\ PipePages(u) # {} => PipeVarPages(u) # {}
    /\ PipeListed(u) => PipePages(u) # {}
    /\ (PipeListedInOrg(u) /\ isMySQL) => PipePages(u) # {}
=============================================================================
