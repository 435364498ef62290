-------------------------------- MODULE Boot --------------------------------
(***************************************************************************)
(* How a server comes by its configuration (config.rs, state.rs): from the *)
(* environment of its process, outside production also from .env and       *)
(* .env.local, and from config.json and constants.json; and when it        *)
(* refuses to start.                                                       *)
(*                                                                         *)
(* A machine is what a server is started on.  A file is missing, a         *)
(* symbolic link, or a file of lines; a text is a sequence of lexemes of   *)
(* Json, empty where the file is missing.                                  *)
(***************************************************************************)
EXTENDS Integers, Sequences, SequencesExt

CONSTANTS MaxDepth,     \* of a JSON value
          Infinity      \* a number in JSON that is not finite

ASSUME BootAssumption == MaxDepth \in Nat /\ Infinity \notin Int

J == INSTANCE Json

Missing == [kind |-> "missing"]

Link == [kind |-> "link"]

File(lines) == [kind |-> "file", lines |-> lines]

-----------------------------------------------------------------------------
(* The environment                                                         *)

\* A line of a .env file, and one that is skipped: a comment, or without "=".
Pair(key, value) == [k |-> "pair", key |-> key, value |-> value]

Skipped == [k |-> "skipped"]

\* parse_env_file: of two lines with the same key the later one counts; a link is
\* refused.
FileVars(file) ==
    IF file.kind = "file"
    THEN FoldLeft(LAMBDA vs, l : IF l.k = "pair" /\ l.key # "" THEN (l.key :> l.value) @@ vs ELSE vs,
                  <<>>, file.lines)
    ELSE <<>>

\* ensure_regular_env_file: what may be there as .env when it is read.  A link is
\* removed, and what is not there is made from .env.example; each of these may fail.
EnvFiles(m) == IF m.env.kind = "file" THEN {m.env} ELSE {m.example, Missing}

\* load_local_env: the process's own variables first, then .env.local, then .env.
Env(m, dotenv) == IF m.prod THEN m.shell
                  ELSE m.shell @@ FileVars(m.local) @@ FileVars(dotenv)

\* env_nonempty, with "" for a variable that is not set.
Var(env, key) == IF key \in DOMAIN env THEN env[key] ELSE ""

-----------------------------------------------------------------------------
(* The files                                                               *)

\* resolve_env_placeholders, on connection strings that are one placeholder or none.
Expanded(conn, env) == IF conn = "${DB_FILE}" /\ "DB_FILE" \in DOMAIN env
                       THEN env["DB_FILE"] ELSE conn

Defaults(env) == [type |-> "sqlite", name |-> "MyApp",
                  conn |-> IF "TEST_DATABASE_PATH" \in DOMAIN env
                           THEN env["TEST_DATABASE_PATH"] ELSE "./databases/MyApp.db"]

\* load_config
LoadConfig(m, env) ==
    LET database == J!Get(J!Parse(m.config), "database")
    IN IF \A key \in {"db", "dbType", "connectionString"} : J!HasStr(database, key)
       THEN [type |-> J!GetStr(database, "dbType"), name |-> J!GetStr(database, "db"),
             conn |-> Expanded(J!GetStr(database, "connectionString"), env)]
       ELSE Defaults(env)

\* load_stripe_lookup_keys: none, if the file is not as expected.
LookupKeys(m) == LET items == J!Get(J!Parse(m.constants), "stripeProducts")
                 IN IF items.t = "arr"
                    THEN {J!GetStr(items.a[i], "lookup_key") : i \in DOMAIN items.a} \ {""}
                    ELSE {}

-----------------------------------------------------------------------------
(* The server                                                              *)

\* check_prod_jwt_secret, on a secret that is too short, one that is the template's,
\* and others.
GoodSecret(s) == s \notin {"", "short", "template"}

\* Whether open_in opens a database, which of them, or stops before.
Starts(m, env) == /\ m.prod => GoodSecret(Var(env, "JWT_SECRET"))
                  /\ LoadConfig(m, env).type = "sqlite"

Opens(m, env) == IF Var(env, "LIBSQL_URL") # ""
                 THEN <<Var(env, "LIBSQL_URL"), LoadConfig(m, env).name>>
                 ELSE <<LoadConfig(m, env).conn>>

\* What a value is split into at its commas, for the values of the model.
Listed(s) == IF s = "app," THEN {"app", ""} ELSE {s}

\* resolve_cors_origins
CorsOrigins(env) == IF "CORS_ORIGINS" \in DOMAIN env THEN Listed(env["CORS_ORIGINS"])
                    ELSE {"http://localhost:5173", "http://localhost:8000",
                          "http://127.0.0.1:5173", "http://127.0.0.1:8000"}

\* AppState: "" for what is not configured.
AppState(m, env) == [jwt |-> Var(env, "JWT_SECRET"),
                     stripe |-> Var(env, "STRIPE_KEY"),
                     endpoint |-> Var(env, "STRIPE_ENDPOINT_SECRET"),
                     frontend |-> Var(env, "FRONTEND_URL"),
                     origins |-> CorsOrigins(env),
                     keys |-> LookupKeys(m),
                     store |-> Opens(m, env)]

\* The states a server may start in on a machine: none, if it does not start.
Boots(m) == {AppState(m, env) : env \in {e \in {Env(m, f) : f \in EnvFiles(m)} : Starts(m, e)}}
=============================================================================
