------------------------------- MODULE Startup -------------------------------
(***************************************************************************)
(* The start of the proxy up to the moment it serves: the configuration    *)
(* (main.go, config.go), the database and its schema (database.go).        *)
(* Several proxies start on one database server; their steps interleave,   *)
(* the server fails and proxies die at any of them, and a proxy that has   *)
(* ended is started again (docker-compose.yml:16).                         *)
(*                                                                         *)
(* A DSN in key=value form is a sequence of symbols: a key is one, and of  *)
(* the characters of a value only those are told apart that quoting is     *)
(* about.                                                                  *)
(***************************************************************************)
EXTENDS Integers, Sequences, FiniteSets, SequencesExt, FiniteSetsExt

CONSTANTS
  Proxies,
  Configs,    \* configurations, as Load finds them in the file
  MaxFaults   \* bound: failing steps and crashes, over all proxies

(* The statements of sqliteDDLStatements and pgDDLStatements: two tables, each
   before its indexes. *)
Statements == <<"requests", "requests_index", "metrics", "metrics_index">>
Needs      == [requests_index |-> "requests", metrics_index |-> "metrics"]

Postgres == {"postgresql", "postgres", "pg"}
SQLite   == {"sqlite"}
Maintenance == <<"postgres">>   \* the database that is always there

Character == {"x", " ", "'", "\\"}   \* "x": one that quoting is not about

ASSUME ConfigsAssumption ==
  \A c \in Configs : /\ {c.valid, c.backends, c.dynamic, c.commands} \subseteq BOOLEAN
                     /\ c.dbname \in Seq(Character) /\ c.dbname # <<>>
                     /\ c.password \in Seq(Character)

-----------------------------------------------------------------------------
(* DSNs. *)

Quotes(text, i, j) == Cardinality({k \in i .. j : text[k] = "'"})

(* A value is put in quotes, and quotes in it are doubled, if it has to be. *)
Quoted(v) ==
  IF Range(v) \cap {" ", "'", "\\"} = {} THEN v
  ELSE <<"'">> \o FlattenSeq([i \in DOMAIN v |-> IF v[i] = "'" THEN <<"'", "'">> ELSE <<v[i]>>])
       \o <<"'">>

(* postgresURLToKV, and the end of pgAdminDSN.  The order is that of a Go map,
   which is any. *)
FormatKV(kv) ==
  FlattenSeq([i \in DOMAIN SetToSeq(DOMAIN kv) |->
                LET key == SetToSeq(DOMAIN kv)[i] IN <<key, "=">> \o Quoted(kv[key]) \o <<" ">>])

(* splitDSNFields: cut at the spaces that no quotes are around. *)
Fields(text) ==
  LET Cut(i) == i \notin DOMAIN text \/ (text[i] = " " /\ Quotes(text, 1, i) % 2 = 0)
      Run(i, j) == Cut(i - 1) /\ Cut(j + 1) /\ \A k \in i .. j : ~ Cut(k)
  IN  UNION {{SubSeq(text, i, j) : j \in {k \in i .. Len(text) : Run(i, k)}} : i \in DOMAIN text}

(* One more than the c's there are just before i. *)
RunAt(v, i, c) == Min({n \in 1 .. i : n = i \/ v[i - n] # c})

(* ReplaceAll cc by c: of each run of c's every second one goes. *)
Halved(v, c) ==
  LET Kept(i) == v[i] = c => RunAt(v, i, c) % 2 = 1
  IN  FlattenSeq([i \in DOMAIN v |-> IF Kept(i) THEN <<v[i]>> ELSE <<>>])

StrippedBug(v) ==
  IF Len(v) >= 2 /\ v[1] = "'" /\ v[Len(v)] = "'" THEN SubSeq(v, 2, Len(v) - 1) ELSE v

Unquoted(v) ==
  IF Len(v) >= 2 /\ v[1] = "'" /\ v[Len(v)] = "'"
  THEN Halved(SubSeq(v, 2, Len(v) - 1), "'") ELSE v

(* parsePostgresKV, once the DSN is in key=value form: what follows the first "="
   is the value.  A field without "=", an error, does not come from FormatKV. *)
ParseKV(text) ==
  [key \in {f[1] : f \in Fields(text)} |->
     LET f == CHOOSE g \in Fields(text) : g[1] = key IN Unquoted(SubSeq(f, 3, Len(f)))]

(* The driver reads a DSN in a way of its own: in quotes and out of them, \\ is
   one backslash and \' a quote, and a value in quotes ends at the first quote
   that has no such backslash before it.  PgxReads is what it takes for the value
   where the DSN has q; if the quotes do not end, more than that. *)
Unescaped(v) ==
  LET w == Halved(v, "\\")
      Escapes(i) == w[i] = "\\" /\ i < Len(w) /\ w[i + 1] = "'"
  IN  FlattenSeq([i \in DOMAIN w |-> IF Escapes(i) THEN <<>> ELSE <<w[i]>>])

Ends(q) == {i \in 2 .. Len(q) : q[i] = "'" /\ RunAt(q, i, "\\") % 2 = 1}

PgxReads(q) ==
  IF q = <<>> \/ q[1] # "'" THEN Unescaped(q)
  ELSE IF Ends(q) = {} THEN q
  ELSE Unescaped(SubSeq(q, 2, Min(Ends(q)) - 1))

(* What the user's URL says, and what pgDatabaseName and pgAdminDSN make of it. *)
URL(c) == [dbname |-> c.dbname, password |-> c.password]

PgDatabaseName == [c \in Configs |-> ParseKV(FormatKV(URL(c))).dbname]

PgAdminPassword == [c \in Configs |-> Quoted(ParseKV(FormatKV(URL(c))).password)]

(* The server lets the admin connection in with the user's password only. *)
AdminConnects == [c \in Configs |-> PgxReads(PgAdminPassword[c]) = c.password]

-----------------------------------------------------------------------------
VARIABLES
  cfg,        \* the configuration, the same for all proxies
  databases,  \* the names of the databases on the server
  schema,     \* the statements that have taken effect, each with its dialect
  pc,
  next,       \* for each proxy, the next of Statements
  faults      \* the faults there have been

vars == <<cfg, databases, schema, pc, next, faults>>

Init ==
  /\ cfg \in Configs
  /\ databases = {Maintenance}
  /\ schema = {}
  /\ pc = [p \in Proxies |-> "load"]
  /\ next = [p \in Proxies |-> 1]
  /\ faults = 0

Goto(p, step) == pc' = [pc EXCEPT ![p] = step]

(* Load, and the check that there is anybody to forward to. *)
Load(p) ==
  /\ pc[p] = "load"
  /\ \/ /\ cfg.valid
        /\ cfg.backends \/ cfg.dynamic \/ cfg.commands
        /\ Goto(p, "open")
     \/ /\ ~ cfg.valid \/ ~ (cfg.backends \/ cfg.dynamic \/ cfg.commands)
        /\ Goto(p, "fatal")
  /\ UNCHANGED <<cfg, databases, schema, next, faults>>

(* NewDatabase.  SQLite makes the file; with Postgres ensurePostgresDatabase
   connects first. *)
NewDatabase(p) ==
  /\ pc[p] = "open"
  /\ \/ cfg.type \in SQLite /\ Goto(p, "ddl") /\ databases' = databases \cup {cfg.dbname}
     \/ /\ cfg.type \in Postgres /\ UNCHANGED databases
        /\ Goto(p, IF cfg.dbname \in databases THEN "connect" ELSE "create")
     \/ cfg.type \notin SQLite \cup Postgres /\ Goto(p, "fatal") /\ UNCHANGED databases
  /\ UNCHANGED <<cfg, schema, next, faults>>

(* The rest of ensurePostgresDatabase: CREATE DATABASE, in the admin connection,
   fails if somebody else has been faster.  An empty password is written without
   quotes; the driver then takes the field after it for the password, unless it
   is the last in the order of the map. *)
CreateDatabase(p) ==
  /\ pc[p] = "create"
  /\ \/ /\ AdminConnects[cfg] /\ PgDatabaseName[cfg] \notin databases
        /\ databases' = databases \cup {PgDatabaseName[cfg]}
        /\ Goto(p, "connect")
     \/ /\ \/ ~ AdminConnects[cfg] \/ cfg.password = <<>>
           \/ PgDatabaseName[cfg] \in databases
        /\ Goto(p, "fatal")
        /\ UNCHANGED databases
  /\ UNCHANGED <<cfg, schema, next, faults>>

(* gorm.Open and Ping *)
Connect(p) ==
  /\ pc[p] = "connect"
  /\ Goto(p, IF cfg.dbname \in databases THEN "ddl" ELSE "fatal")
  /\ UNCHANGED <<cfg, databases, schema, next, faults>>

(* InitDB reads the type anew. *)
Dialect(type) == IF type \in Postgres THEN "postgres" ELSE "sqlite"

AnewBug(s) ==
  /\ s \in DOMAIN Needs => \E d \in {"postgres", "sqlite"} : <<d, Needs[s]>> \in schema
  /\ <<Dialect(cfg.type), s>> \notin schema

(* What makes a statement succeed: it is in the dialect of the database, and an
   index has its table.  With IF NOT EXISTS it may have been executed before. *)
Succeeds(s) ==
  /\ Dialect(cfg.type) = "sqlite" <=> cfg.type \in SQLite
  /\ s \in DOMAIN Needs => <<Dialect(cfg.type), Needs[s]>> \in schema

(* One turn of the loop of initSQLiteDB, initPostgreSQLDB. *)
InitDB(p) ==
  /\ pc[p] = "ddl"
  /\ Succeeds(Statements[next[p]])
  /\ schema' = schema \cup {<<Dialect(cfg.type), Statements[next[p]]>>}
  /\ \/ next[p] < Len(Statements) /\ next' = [next EXCEPT ![p] = @ + 1] /\ UNCHANGED pc
     \/ next[p] = Len(Statements) /\ Goto(p, "normalize") /\ UNCHANGED next
  /\ UNCHANGED <<cfg, databases, faults>>

(* Normalize, RepairStuckRequests (see RequestStore), ListenAndServe. *)
After == [normalize |-> "repair", repair |-> "listen", listen |-> "serving"]

Proceed(p) ==
  /\ pc[p] \in DOMAIN After
  /\ Goto(p, After[pc[p]])
  /\ UNCHANGED <<cfg, databases, schema, next, faults>>

(* A step fails, or the process dies; a failing repair is only logged. *)
Fail(p) ==
  /\ pc[p] # "fatal"
  /\ faults < MaxFaults
  /\ faults' = faults + 1
  /\ Goto(p, "fatal") \/ (pc[p] = "repair" /\ Goto(p, "listen"))
  /\ UNCHANGED <<cfg, databases, schema, next>>

Restart(p) ==
  /\ pc[p] = "fatal"
  /\ Goto(p, "load")
  /\ next' = [next EXCEPT ![p] = 1]
  /\ UNCHANGED <<cfg, databases, schema, faults>>

Start(p) == \/ Load(p) \/ NewDatabase(p) \/ CreateDatabase(p) \/ Connect(p)
            \/ InitDB(p) \/ Proceed(p) \/ Restart(p)

Next == \E p \in Proxies : Start(p) \/ Fail(p)

Spec == Init /\ [][Next]_vars

(* A proxy goes on, and is started again. *)
FairSpec == Spec /\ \A p \in Proxies : WF_vars(Start(p))

-----------------------------------------------------------------------------
(* No database but the one the configuration names is ever made, and who serves
   has all of the schema in it, whoever else was starting and died at the same
   time. *)
ServesOnSchema ==
  /\ databases \subseteq {Maintenance, cfg.dbname}
  /\ \A p \in Proxies : pc[p] = "serving" =>
       /\ cfg.dbname \in databases
       /\ \A i \in DOMAIN Statements : <<Dialect(cfg.type), Statements[i]>> \in schema

Acceptable(c) ==
  /\ c.valid /\ (c.backends \/ c.dynamic \/ c.commands)
  /\ c.type \in SQLite \cup Postgres

(* The passwords that reach the server: not empty, without quotes, and with every
   backslash followed by something else than a backslash. *)
Readable(v) ==
  /\ v # <<>>
  /\ \A i \in DOMAIN v : /\ v[i] # "'"
                         /\ v[i] = "\\" => i < Len(v) /\ v[i + 1] # "\\"

(* A proxy with an acceptable configuration serves in the end, for every name of
   the database and every password the driver reads as it was written, although
   another may create the database between its look and its own CREATE DATABASE,
   and a start may end anywhere and leave what it has done (README.md:398). *)
StartsInTheEnd ==
  \A p \in Proxies :
    Acceptable(cfg) /\ (cfg.type \in Postgres => Readable(cfg.password)) => <>[](pc[p] = "serving")

(* README.md:398 says it of every DSN.  TLC refutes that for each password that is
   not Readable, on a server without the database: what database.go:162 quotes is
   not what the driver reads. *)
EveryDSNStarts ==
  \A p \in Proxies : Acceptable(cfg) => <>[](pc[p] = "serving")
=============================================================================
