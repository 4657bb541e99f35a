------------------------------ MODULE Settings ------------------------------
(***************************************************************************)
(* AppSettings.from_env, app/config.py: which environments the application *)
(* starts in and which database it then uses.  A setting is represented by *)
(* the class of its value that the validation tells apart.                 *)
(***************************************************************************)
EXTENDS Naturals, FiniteSets

Supported == {"local", "test", "staging", "production"}
Deployed(env) == env.APP_ENV \in {"staging", "production"}

\* _validate_database_url: an unsupported driver or a MariaDB URL without
\* charset=utf8mb4 is refused.
UrlOk(env) ==
  /\ env.DATABASE_URL \in {"unset", "sqlite", "mariadb utf8mb4"}
  /\ Deployed(env) => env.DATABASE_URL # "unset"

\* _host_value, _port_value, _listener_port.
ListenerOk(env) ==
  /\ env.HOST # "invalid" /\ env.PORT # "invalid"
  /\ Deployed(env) => "unset" \notin {env.HOST, env.PORT}

\* _persistent_path and _ensure_writable_directory, for the path that fares
\* worst; locally every path is accepted.
PathsOk(env) == Deployed(env) => env.PATHS = "absolute writable"

FrontendOk(env) == Deployed(env) => env.FRONTEND_DIST_DIR # "relative"

\* The secrets in use: the worker secret falls back on the storage secret,
\* and that one on the development default.
StorageSecret(env) ==
  IF env.APP_STORAGE_SECRET = "unset" THEN "default" ELSE env.APP_STORAGE_SECRET
WorkerSecret(env) ==
  IF env.WORKER_API_TOKEN_SECRET = "unset" THEN StorageSecret(env)
  ELSE env.WORKER_API_TOKEN_SECRET
SecretsOk(env) ==
  Deployed(env) =>
    /\ ~env.ALLOW_ANONYMOUS_LOCAL
    /\ "default" \notin {StorageSecret(env), WorkerSecret(env)}

\* The positive and bounded numbers, log level and booleans, as one class.
LimitsOk(env) == env.LIMITS = "valid"

FromEnv(env) ==
  /\ env.APP_ENV \in Supported
  /\ UrlOk(env) /\ ListenerOk(env) /\ PathsOk(env) /\ FrontendOk(env)
  /\ SecretsOk(env) /\ LimitsOk(env)

\* effective_database_url.
UsesMariaDB(env) == env.DATABASE_URL = "mariadb utf8mb4"

\* create_database_engine: no SQLite in a deployment.
EngineOk(env) == Deployed(env) => UsesMariaDB(env)
=============================================================================
