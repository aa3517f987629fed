------------------------------- MODULE QuerySets -------------------------------
(* The query sets of the portal: the generator tools/qs that writes them from the *)
(* structs of portal/db/models/models.go, and what the generated methods do with  *)
(* a statement. gorm and the MySQL server behind it are external.                 *)
EXTENDS GeneratedQueries, Integers, FiniteSets

CONSTANTS NULL,
          MaxCalls \* bound: filters in a chain

VARIABLES table,  \* the query set's table
          column, \* the column of the table that has values here, besides id
          rows,   \* the rows of the table, with these two columns
          qs,     \* the statement so far, NULL when it has been executed
          calls   \* history: the filters called for it

--------------------------------------------------------------------------------
(* The structs of models.go: the columns and the kind of Go type of each.         *)

Base == {<<"id", "number">>, <<"created_at", "time">>}
Updatable == Base \cup {<<"updated_at", "*time">>}
Deletable == Updatable \cup {<<"deleted_at", "*time">>}

Fields(columns, kind) == columns \X {kind}

UserStruct == Deletable \cup Fields({"email", "avatar", "name", "salt", "hash", "secret_key", "origin"}, "string")
DeviceStruct == Deletable \cup Fields({"user_id", "relay_server_id"}, "number") \cup Fields({"user"}, "*struct")
                          \cup Fields({"name", "os", "version", "machine_id", "address"}, "string")
                          \cup Fields({"last_seen"}, "time")
NetworkStruct == Deletable \cup Fields({"created_by_id"}, "number") \cup Fields({"created_by"}, "*struct")
                           \cup Fields({"name", "description"}, "string")
NetworkUserStruct == Deletable \cup Fields({"user_id", "network_id"}, "number")
                               \cup Fields({"user", "network"}, "*struct") \cup Fields({"role"}, "string")
InvitationStruct == Deletable \cup Fields({"network_id", "invited_by_id", "user_id"}, "number")
                              \cup Fields({"network", "invited_by", "user"}, "*struct") \cup Fields({"role"}, "string")
RelayServerStruct == Deletable \cup Fields({"name", "region", "host", "public_key"}, "string")
                               \cup Fields({"port", "stun_port"}, "number")
                               \cup Fields({"started_at", "keepalive_at"}, "time")
GithubUserStruct == Deletable \cup Fields({"user_id", "github_id"}, "number") \cup Fields({"user"}, "*struct")
                              \cup Fields({"login", "avatar_url", "location"}, "string")
WechatUserStruct == Deletable \cup Fields({"user_id"}, "number") \cup Fields({"user"}, "*struct")
                              \cup Fields({"union_id", "nickname", "head_img_url", "city"}, "string")
AuthKeyStruct == Deletable \cup Fields({"user_id"}, "number") \cup Fields({"user"}, "*struct")
                           \cup Fields({"type", "role", "key", "machine_id"}, "string")
                           \cup Fields({"expired_at"}, "time") \cup Fields({"enabled"}, "bool")

--------------------------------------------------------------------------------
(* The generator.                                                                 *)

\* What a type is, field.go: time counts as a number; a pointer hides what it points to.
GenFieldInfo(kind) ==
  [isTime |-> kind = "time", isNumeric |-> kind \in {"time", "number"}, isString |-> kind = "string",
   isStruct |-> kind = "struct", isPointer |-> kind \in {"*time", "*struct"}]

Pointed(kind) == IF kind = "*time" THEN "time" ELSE "struct"

\* Fault: the test of the time type is lost, and times get IN filters.
PlainMethodsFaulty(info) ==
  LET basic == {"Eq", "Ne", "OrderAscBy", "OrderDescBy", "In", "NotIn"}
      numeric == {"Lt", "Gt", "Lte", "Gte"}
  IN  CASE info.isString -> basic \cup {"Like", "Notlike"} \cup numeric
        [] info.isNumeric -> basic \cup numeric
        [] info.isStruct -> {"Preload"}
        [] OTHER -> basic

\* getQuerySetMethodsForField for a field that is not a pointer.
PlainMethods(info) ==
  LET basic == {"Eq", "Ne", "OrderAscBy", "OrderDescBy"} \cup (IF info.isTime THEN {} ELSE {"In", "NotIn"})
      numeric == {"Lt", "Gt", "Lte", "Gte"}
  IN  CASE info.isString -> basic \cup {"Like", "Notlike"} \cup numeric
        [] info.isNumeric -> basic \cup numeric
        [] info.isStruct -> {"Preload"}
        [] OTHER -> basic

getQuerySetMethodsForField(kind) ==
  IF GenFieldInfo(kind).isPointer
    THEN PlainMethods(GenFieldInfo(Pointed(kind))) \cup {"IsNull", "IsNotNull"}
    ELSE PlainMethods(GenFieldInfo(kind))

\* A pointer to a struct has no setter.
buildUpdaterFieldMethods(kind) ==
  IF GenFieldInfo(kind).isPointer /\ GenFieldInfo(Pointed(kind)).isStruct THEN {} ELSE {"Set"}

\* The methods on columns that Build lists for a struct.
Build(struct) ==
  UNION {{f[1]} \X (getQuerySetMethodsForField(f[2]) \cup buildUpdaterFieldMethods(f[2])) : f \in struct}

--------------------------------------------------------------------------------
(* Statements. A statement collects conditions; an error that a method adds stays *)
(* with it, and gorm then runs no SQL for it.                                     *)

\* Fault: the column is not quoted.
QuotedFaulty(op) == FALSE

\* The conditions that name their column in back quotes: BinaryFilterMethod alone does.
Quoted(op) == op \in {"Eq", "Ne", "Lt", "Lte", "Gt", "Gte", "Like", "Notlike"}

NewQuerySet == [conds |-> {}, err |-> FALSE]

Where(q, col, op, arg) == [q EXCEPT !.conds = @ \cup {[column |-> col, op |-> op, arg |-> arg]}]

\* Fault: a filter without values is left out instead of failing the statement.
InFilterFaulty(q, col, op, values) == IF values = {} THEN q ELSE Where(q, col, op, values)

InFilter(q, col, op, values) ==
  IF values = {} THEN [q EXCEPT !.err = TRUE] ELSE Where(q, col, op, values)

Filter(q, col, op, arg) ==
  IF op \in {"In", "NotIn"} THEN InFilter(q, col, op, arg) ELSE Where(q, col, op, arg)

\* SQL: a comparison with NULL is not true; a LIKE pattern is the set of values it matches.
Holds(row, c) ==
  LET v == row[c.column] IN
  CASE c.op = "IsNull" -> v = NULL
    [] c.op = "IsNotNull" -> v # NULL
    [] OTHER -> /\ v # NULL
                /\ CASE c.op = "Eq" -> v = c.arg
                     [] c.op = "Ne" -> v # c.arg
                     [] c.op = "Lt" -> v < c.arg
                     [] c.op = "Lte" -> v <= c.arg
                     [] c.op = "Gt" -> v > c.arg
                     [] c.op = "Gte" -> v >= c.arg
                     [] c.op \in {"In", "Like"} -> v \in c.arg
                     [] c.op \in {"NotIn", "Notlike"} -> v \notin c.arg

\* SQL: the column exists in the table, and a reserved word stands in quotes.
ReservedWords == {"key"}
Accepted(columns, op, col) == col \in columns /\ (Quoted(op) \/ col \notin ReservedWords)

Runs(columns, q) == ~q.err /\ \A c \in q.conds : Accepted(columns, c.op, c.column)

Matching(tbl, q) == {r \in tbl : \A c \in q.conds : Holds(r, c)}

\* All reads the matching rows; a statement that fails reads none.
All(columns, tbl, q) == IF Runs(columns, q) THEN Matching(tbl, q) ELSE {}

\* Delete leaves these rows. gorm refuses a DELETE or an UPDATE without a condition.
\* No struct embeds gorm.DeletedAt: rows are really removed, DeleteNumUnscoped does the same.
Delete(columns, tbl, q) == IF q.conds = {} THEN tbl ELSE tbl \ All(columns, tbl, q)

\* Updater.Update: the rows after the fields are set in the matching ones.
Update(columns, tbl, q, fields) ==
  IF q.conds = {} THEN tbl
  ELSE LET hit == All(columns, tbl, q) IN
       (tbl \ hit) \cup {[c \in DOMAIN r |-> IF c \in DOMAIN fields THEN fields[c] ELSE r[c]] : r \in hit}

--------------------------------------------------------------------------------
(* A handler builds a chain of filters and ends it with Delete or Update.         *)

queryVars == <<table, column, rows, qs, calls>>

Struct ==
  [AuthKey |-> AuthKeyStruct, Device |-> DeviceStruct, GithubUser |-> GithubUserStruct,
   Invitation |-> InvitationStruct, Network |-> NetworkStruct, NetworkUser |-> NetworkUserStruct,
   RelayServer |-> RelayServerStruct, User |-> UserStruct, WechatUser |-> WechatUserStruct]

Methods ==
  [AuthKey |-> AuthKeyMethods, Device |-> DeviceMethods, GithubUser |-> GithubUserMethods,
   Invitation |-> InvitationMethods, Network |-> NetworkMethods, NetworkUser |-> NetworkUserMethods,
   RelayServer |-> RelayServerMethods, User |-> UserMethods, WechatUser |-> WechatUserMethods]

DBSchema ==
  [AuthKey |-> AuthKeyDBSchema, Device |-> DeviceDBSchema, GithubUser |-> GithubUserDBSchema,
   Invitation |-> InvitationDBSchema, Network |-> NetworkDBSchema, NetworkUser |-> NetworkUserDBSchema,
   RelayServer |-> RelayServerDBSchema, User |-> UserDBSchema, WechatUser |-> WechatUserDBSchema]

\* The columns the database has: an association is no column.
Columns(t) == {f[1] : f \in {g \in Struct[t] : g[2] # "*struct"}}

Values == 1 .. 2
Arguments(op) == CASE op \in {"In", "NotIn", "Like", "Notlike"} -> SUBSET Values
                   [] op \in NullOps -> {NULL}
                   [] OTHER -> Values

QueryInit ==
  /\ table \in DOMAIN Struct
  /\ column \in DBSchema[table] \ {"id"}
  /\ rows = {[c \in {"id", column} |-> IF c = "id" THEN i ELSE IF i = 3 THEN NULL ELSE i] : i \in 1 .. 3}
  /\ qs = NewQuerySet
  /\ calls = {}

CallFilter ==
  /\ qs # NULL /\ Cardinality(calls) < MaxCalls
  /\ \E m \in Methods[table] : \E arg \in Arguments(m[2]) :
       /\ m[1] \in {"id", column} /\ m[2] \in TextOps \cup NullOps
       /\ qs' = Filter(qs, m[1], m[2], arg)
       /\ calls' = calls \cup {[column |-> m[1], op |-> m[2], arg |-> arg]}
  /\ UNCHANGED <<table, column, rows>>

CallDelete ==
  /\ qs # NULL
  /\ rows' = Delete(Columns(table), rows, qs)
  /\ qs' = NULL /\ calls' = {}
  /\ UNCHANGED <<table, column>>

CallUpdate ==
  /\ qs # NULL /\ <<column, "Set">> \in Methods[table]
  /\ \E v \in Values : rows' = Update(Columns(table), rows, qs, [c \in {column} |-> v])
  /\ qs' = NULL /\ calls' = {}
  /\ UNCHANGED <<table, column>>

QueryNext == CallFilter \/ CallDelete \/ CallUpdate

QuerySpec == QueryInit /\ [][QueryNext]_queryVars

--------------------------------------------------------------------------------
(* Properties.                                                                    *)

\* The generated file is what the generator makes of the structs as they are now: the same
\* methods for every column, and the same columns in the schema (autogen_query.go is checked
\* in, and nothing rebuilds it when models.go changes).
GeneratedIsCurrent ==
  /\ Methods[table] = Build(Struct[table])
  /\ DBSchema[table] = {f[1] : f \in Struct[table]}

\* The filters and orders that the portal's handlers call.
PortalCalls ==
  [AuthKey |-> {<<"user_id", "Eq">>, <<"id", "Eq">>, <<"key", "Eq">>, <<"created_at", "OrderDescBy">>},
   Device |-> {<<"user_id", "Eq">>, <<"id", "Eq">>, <<"id", "In">>, <<"machine_id", "Eq">>, <<"address", "Eq">>,
               <<"created_at", "OrderDescBy">>},
   GithubUser |-> {<<"github_id", "Eq">>},
   Invitation |-> {<<"user_id", "Eq">>, <<"id", "Eq">>, <<"network_id", "Eq">>},
   Network |-> {<<"id", "Eq">>, <<"created_by_id", "Eq">>},
   NetworkUser |-> {<<"user_id", "Eq">>, <<"network_id", "Eq">>, <<"network_id", "In">>},
   RelayServer |-> {<<"id", "Eq">>},
   User |-> {<<"id", "Eq">>, <<"email", "Eq">>},
   WechatUser |-> {}]

\* Every method that a handler of the portal calls exists and makes SQL that the server
\* accepts, although the generator quotes the column in some conditions only: `key`, the
\* column by which tokens are looked up, is a reserved word.
PortalCallsWork ==
  \A m \in PortalCalls[table] : m \in Methods[table] /\ Accepted(Columns(table), m[2], m[1])

\* A handler changes no row that one of its filters excludes: a filter that received an empty
\* list, or that the server rejects, stops the whole statement instead of widening it.
FiltersOnlyNarrow ==
  [][\A r \in rows \ rows' : \A c \in calls : Holds(r, c)]_queryVars
================================================================================
