-------------------------- MODULE MCDatabaseMigration --------------------------
(* A small database for checking DatabaseMigration with TLC: a document     *)
(* and a setting that both sides seed under the same key.                  *)
EXTENDS DatabaseMigration, TLC

MCTableOf == [document |-> "documents", setting |-> "dashboard_settings"]
MCRefsOf == [r \in DOMAIN MCTableOf |-> {}]
MCRows == DOMAIN MCTableOf

\* A dry run, a first migration and one that resumes.
MCOptions ==
  {[apply |-> FALSE, resume |-> FALSE, trees |-> TRUE],
   [apply |-> TRUE,  resume |-> FALSE, trees |-> TRUE],
   [apply |-> TRUE,  resume |-> TRUE,  trees |-> TRUE]}

LOCAL Env(app_env, url, paths, secret, worker) ==
  [APP_ENV |-> app_env, DATABASE_URL |-> url, HOST |-> "valid", PORT |-> "valid",
   PATHS |-> paths, FRONTEND_DIST_DIR |-> "unset", APP_STORAGE_SECRET |-> secret,
   WORKER_API_TOKEN_SECRET |-> worker, ALLOW_ANONYMOUS_LOCAL |-> FALSE,
   LIMITS |-> "valid"]

\* A dashboard on either side; a deployment does not take a file.
MCEnvironments ==
  {Env("local", "unset", "relative", "unset", "unset"),
   Env("production", "sqlite", "absolute writable", "own", "own"),
   Env("production", "mariadb utf8mb4", "absolute writable", "own", "own")}
=============================================================================
