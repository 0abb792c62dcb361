------------------------------- MODULE Routes -------------------------------
(***************************************************************************)
(* The routes of the controllers, with the guard in front of each and its  *)
(* @EndpointKey, and the data that SeedService writes.                     *)
(***************************************************************************)

\* A route without guard, or guarded but without key.
Open(path) == [path |-> path, guard |-> "none", key |-> "none"]
Unkeyed(path, guard) == [path |-> path, guard |-> guard, key |-> "none"]

\* Routes that share a guard and a key.
Under(guard, key, paths) == {[path |-> p, guard |-> guard, key |-> key] : p \in paths}

UsersController ==
    {Open("first-activation"), Open("login"), Open("refresh-token"),
     Unkeyed("logout", "AuthGuard")}
    \union Under("ApiKeyGuard", "users.register", {"register"})
    \union Under("AuthGuard", "users.update", {"activate", "deactivate"})

\* The second half of UsersController.
UsersControllerQueries ==
    {Open("forgot-password"), Open("reset-password")}
    \union Under("MicroserviceGuard", "users.find_api", {"can-do", "me"})
    \union Under("AuthGuard", "users.update", {"assign-role"})
    \union Under("AuthGuard", "users.find", {"all"})

ApiKeysController ==
    {Unkeyed("can-do", "ApiKeyGuard")}
    \union Under("AuthGuard", "api-key.generate", {"generate"})
    \union Under("AuthGuard", "api-key.find", {"find", "all"})
    \union Under("AuthGuard", "api-key.update", {"change-permissions"})
    \union Under("AuthGuard", "api-key.deactivate", {"deactivate"})
    \union Under("AuthGuard", "api-key.activate", {"activate"})

EndpointPermissionRulesController ==
    Under("AuthGuard", "endpoint-permission-rules.create", {"new"})
    \union Under("AuthGuard", "endpoint-permission-rules.update",
                 {"edit", "assign-permissions", "enable", "disable"})
    \union Under("AuthGuard", "endpoint-permission-rules.delete", {"delete"})
    \union Under("AuthGuard", "endpoint-permission-rules.find", {"all", "find"})
    \union Under("ApiKeyGuard", "endpoint-permission-rules.find_api",
                 {"get-endpoint-permissions"})

PermissionsController ==
    Under("AuthGuard", "permission.create", {"new"})
    \union Under("AuthGuard", "permission.update", {"edit"})
    \union Under("AuthGuard", "permission.delete", {"delete"})
    \union Under("AuthGuard", "permission.details", {"details"})
    \union Under("AuthGuard", "permission.find", {"find", "all"})

RolesController ==
    Under("AuthGuard", "roles.create", {"new"})
    \union Under("AuthGuard", "roles.update", {"edit", "assign-permissions"})
    \union Under("AuthGuard", "roles.delete", {"delete"})
    \union Under("AuthGuard", "roles.details", {"details/unrestricted"})
    \union Under("AuthGuard", "roles.details.restricted", {"details/restricted"})
    \union Under("AuthGuard", "roles.find", {"find", "all"})

SessionsController ==
    Under("AuthGuard", "sessions.find", {"user"})
    \union Under("AuthGuard", "sessions.deactivate", {"deactivate"})

MetricsController == Under("ApiKeyGuard", "metrics.get", {"metrics"})

AllRoutes ==
    UsersController \union UsersControllerQueries \union ApiKeysController
    \union EndpointPermissionRulesController \union PermissionsController
    \union RolesController \union SessionsController \union MetricsController

\* The values of @EndpointKey in use.
EndpointKeys == {r.key : r \in AllRoutes} \ {"none"}

-----------------------------------------------------------------------------
SEED_PERMISSIONS ==
    {"ENDPOINT-PERMISSION-RULES_CREATE", "ENDPOINT-PERMISSION-RULES_READ",
     "ENDPOINT-PERMISSION-RULES_UPDATE", "ENDPOINT-PERMISSION-RULES_DELETE",
     "API_KEYS_CREATE", "API_KEYS_READ", "API_KEYS_DEACTIVATE",
     "PERMISSIONS_CREATE", "PERMISSIONS_READ", "PERMISSIONS_UPDATE", "PERMISSIONS_DELETE",
     "ROLES_CREATE", "ROLES_READ", "ROLES_UPDATE", "ROLES_DELETE",
     "SESSIONS_READ", "SESSIONS_DEACTIVATE",
     "USERS_CREATE", "USERS_READ", "USERS_UPDATE",
     "METRICS_READ", "BASE_ACCESS", "API_KEY_ACCESS", "EMAIL_SEND", "LOGGER_READ",
     "GENDERS_CREATE", "GENDERS_READ", "GENDERS_UPDATE", "GENDERS_DELETE",
     "PERSONS_CREATE", "PERSONS_READ", "PERSONS_UPDATE"}

\* endpoint_key_name and permission_code; every rule is enabled.
SEED_EPR ==
    {<<"endpoint-permission-rules.create", "ENDPOINT-PERMISSION-RULES_CREATE">>,
     <<"endpoint-permission-rules.find", "ENDPOINT-PERMISSION-RULES_READ">>,
     <<"endpoint-permission-rules.find_api", "API_KEY_ACCESS">>,
     <<"endpoint-permission-rules.update", "ENDPOINT-PERMISSION-RULES_UPDATE">>,
     <<"endpoint-permission-rules.delete", "ENDPOINT-PERMISSION-RULES_DELETE">>,
     <<"api-key.generate", "API_KEYS_CREATE">>,
     <<"api-key.find", "API_KEYS_READ">>,
     <<"api-key.deactivate", "API_KEYS_DEACTIVATE">>,
     <<"permission.create", "PERMISSIONS_CREATE">>,
     <<"permission.update", "PERMISSIONS_UPDATE">>,
     <<"permission.delete", "PERMISSIONS_DELETE">>,
     <<"permission.find", "PERMISSIONS_READ">>,
     <<"permission.details", "PERMISSIONS_READ">>,
     <<"roles.create", "ROLES_CREATE">>,
     <<"roles.update", "ROLES_UPDATE">>,
     <<"roles.delete", "ROLES_DELETE">>,
     <<"roles.find", "ROLES_READ">>,
     <<"roles.details", "USERS_CREATE">>,
     <<"roles.details.restricted", "ROLES_READ">>,
     <<"sessions.find", "SESSIONS_READ">>,
     <<"sessions.deactivate", "SESSIONS_DEACTIVATE">>,
     <<"users.register", "USERS_CREATE">>,
     <<"users.update", "USERS_UPDATE">>,
     <<"users.find", "USERS_READ">>,
     <<"users.find_api", "API_KEY_ACCESS">>,
     <<"metrics.get", "METRICS_READ">>,
     <<"logger.find", "LOGGER_READ">>,
     <<"genders.create", "GENDERS_CREATE">>,
     <<"genders.update", "GENDERS_UPDATE">>,
     <<"genders.delete", "GENDERS_DELETE">>,
     <<"genders.find", "GENDERS_READ">>,
     <<"genders.details", "BASE_ACCESS">>,
     <<"persons.create", "PERSONS_CREATE">>,
     <<"persons.update", "PERSONS_UPDATE">>,
     <<"persons.find", "PERSONS_READ">>,
     <<"persons.details", "BASE_ACCESS">>}
=============================================================================
