------------------------------- MODULE Startup -------------------------------
(***************************************************************************)
(* sisterd from main() to the accept loop: loadConfig and main() of        *)
(* apps/sisterd/main.cpp, and the two ways of obtaining a listener of      *)
(* apps/sisterd/runtime/listener.cpp.                                      *)
(*                                                                         *)
(* The environment is a function from settings to the classes of values    *)
(* the code tells apart.  "absent" is a variable that is not set; a value  *)
(* of a flag that is set and empty means the same.                         *)
(***************************************************************************)

CONSTANTS Environments,  \* what the process may be started with
          Forgotten      \* an environment that is not read any more

VARIABLES stage,     \* where main() is
          env,       \* environment, arguments and inherited descriptor
          listener   \* acquiredListener

startupVars == <<stage, env, listener>>

Flags == {"SISTER_COOKIE_SECURE", "SISTER_HSTS", "SISTER_REQUIRE_SAME_ORIGIN", "SISTER_ENABLE_HTTP_BOOTSTRAP",
          "SISTER_ENABLE_LEGACY_PROXY", "SISTER_ENABLE_LEGACY_WEBSOCKET_PROXY", "SISTER_ALLOW_TCP_FALLBACK",
          "SISTER_ENABLE_REFERENCE_SUBSYSTEM", "SISTER_ENABLE_NEXO_CONTEXT_PROJECTION"}

\* Numbers that are parsed whatever the other settings are.
Numbers == {"SISTER_WORKERS", "SISTER_QUEUE_LIMIT", "SISTER_CLIENT_TIMEOUT_SECONDS", "SISTER_UPSTREAM_TIMEOUT_MS",
            "SISTER_REFERENCE_PORT", "SISTER_SUBSYSTEM_HEALTH_TIMEOUT_MS"}

\* Numbers that are parsed when what they belong to is in use.
OptionalNumbers == {"SISTER_PORT", "port argument", "SISTER_NEXO_PORT", "SISTER_INTERNAL_IDENTITY_TTL_SECONDS"}

\* The other settings, the protocol of the service manager, and what the
\* process finds in the file system; for each the classes of its values.
Texts ==
    [SISTER_ENV |-> {"absent", "production", "development", "invalid"},
     SISTER_LISTENER_MODE |-> {"absent", "systemd-unix", "tcp-loopback", "invalid"},
     SISTER_ACTIVATED_SOCKET_PATH |-> {"/run/sister/sisterd.sock", "other", "relative"},
     SISTER_BIND_HOST |-> {"absent", "loopback", "elsewhere"},
     SISTER_AUTH_BACKEND |-> {"file", "postgresql", "invalid"},
     SISTER_DATABASE_URL |-> {"absent", "set"},
     SISTER_INTERNAL_IDENTITY_PRIVATE_KEY_FILE |-> {"absent", "absolute", "relative"},
     SISTER_INTERNAL_IDENTITY_KEY_ID |-> {"absent", "set"},
     SISTER_INTERNAL_PROXY_TOKEN |-> {"short", "long"},
     SISTER_WEB_ROOT |-> {"directory", "nothing"},
     LISTEN_PID |-> {"absent", "this process", "another"},
     LISTEN_FDS |-> {"absent", "1", "2"},
     LISTEN_FDNAMES |-> {"absent", "sisterd-http"},
     \* what descriptor 3 is: the service manager's listening socket on a
     \* path, or something else
     descriptor |-> {"closed", "datagram", "not listening", "not unix", "abstract",
                     "/run/sister/sisterd.sock", "other"},
     \* owner and mode of /run/sister and of the socket in it
     permissions |-> {"right", "wrong"}]

Settings ==
    [s \in Flags \cup Numbers \cup OptionalNumbers \cup DOMAIN Texts |->
        IF s \in Flags THEN {"absent", "true", "false", "invalid"}
        ELSE IF s \in Numbers \cup OptionalNumbers THEN {"absent", "in range", "invalid"}
        ELSE Texts[s]]

\* Every setting has one of its values.
Typed(e) == DOMAIN e = DOMAIN Settings /\ \A s \in DOMAIN Settings : e[s] \in Settings[s]

ASSUME EnvironmentsAssumption == \A e \in Environments : Typed(e)

StartupInit ==
    /\ stage = "load"
    /\ env \in Environments
    /\ listener = "none"

-----------------------------------------------------------------------------
(* loadConfig. *)

\* parseBool of a variable with a default.
Flag(name, default) == env[name] = "true" \/ (env[name] = "absent" /\ default)

Production == env.SISTER_ENV \in {"absent", "production"}

Activated ==
    \/ env.SISTER_LISTENER_MODE = "systemd-unix"
    \/ env.SISTER_LISTENER_MODE = "absent" /\ Production

NexoEnabled == Flag("SISTER_ENABLE_NEXO_CONTEXT_PROJECTION", FALSE)

\* Everything has a value of its kind, when it is looked at.
WellFormed ==
    /\ "invalid" \notin {env[s] : s \in Flags \cup Numbers \cup
                            {"SISTER_ENV", "SISTER_LISTENER_MODE", "SISTER_AUTH_BACKEND"}}
    /\ ~Activated => "invalid" \notin {env["SISTER_PORT"], env["port argument"]}
    /\ NexoEnabled => env.SISTER_INTERNAL_IDENTITY_TTL_SECONDS # "invalid"
    /\ env.SISTER_WEB_ROOT = "directory"

\* Mutant: in production the activated listener is the default and no more.
ListenerAllowedByDefault ==
    /\ ~Activated => env.SISTER_BIND_HOST # "elsewhere"
    /\ Activated => env["port argument"] = "absent"
    /\ ~Flag("SISTER_ALLOW_TCP_FALLBACK", FALSE)

\* What production requires of the listener, and what each kind excludes.
ListenerAllowed ==
    /\ Production =>
          /\ Activated
          /\ env.SISTER_ACTIVATED_SOCKET_PATH = "/run/sister/sisterd.sock"
          /\ env.SISTER_BIND_HOST = "absent" /\ env.SISTER_PORT = "absent"
    /\ Activated => env["port argument"] = "absent"
    /\ ~Activated => env.SISTER_BIND_HOST # "elsewhere"
    /\ ~Flag("SISTER_ALLOW_TCP_FALLBACK", FALSE)

SecureCookie == Flag("SISTER_COOKIE_SECURE", Production)
Hsts == Flag("SISTER_HSTS", FALSE)
RequireSameOrigin == Flag("SISTER_REQUIRE_SAME_ORIGIN", Production)
BootstrapEnabled == Flag("SISTER_ENABLE_HTTP_BOOTSTRAP", ~Production)
LegacyProxyEnabled == Flag("SISTER_ENABLE_LEGACY_PROXY", FALSE)
LegacyWebSocketEnabled == Flag("SISTER_ENABLE_LEGACY_WEBSOCKET_PROXY", FALSE)

FeaturesAllowed ==
    /\ Production => ~BootstrapEnabled /\ ~LegacyProxyEnabled /\ ~LegacyWebSocketEnabled
    /\ LegacyWebSocketEnabled => LegacyProxyEnabled
    /\ env.SISTER_AUTH_BACKEND = "postgresql" => env.SISTER_DATABASE_URL = "set"
    /\ Flag("SISTER_ENABLE_REFERENCE_SUBSYSTEM", FALSE) => env.SISTER_INTERNAL_PROXY_TOKEN = "long"
    /\ NexoEnabled =>
          /\ env.SISTER_NEXO_PORT = "in range"
          /\ env.SISTER_INTERNAL_IDENTITY_PRIVATE_KEY_FILE = "absolute"
          /\ env.SISTER_INTERNAL_IDENTITY_KEY_ID = "set"

\* Any refusal is an exception, which main() reports before it returns 1:
\* which of them comes first makes no difference.
LoadConfig ==
    /\ stage = "load"
    /\ stage' = IF WellFormed /\ ListenerAllowed /\ FeaturesAllowed THEN "signals" ELSE "failed"
    /\ UNCHANGED <<env, listener>>

\* SIGPIPE is ignored; from here on SIGINT and SIGTERM only clear a flag.
InstallHandlers ==
    /\ stage = "signals"
    /\ stage' = "listen"
    /\ UNCHANGED <<env, listener>>

-----------------------------------------------------------------------------
(* The listener. *)

ActivationVariables == {"LISTEN_PID", "LISTEN_FDS", "LISTEN_FDNAMES"}

WithoutActivation == [s \in DOMAIN env |-> IF s \in ActivationVariables THEN "absent" ELSE env[s]]

\* The path is tested, and the two numbers parsed, before anything is cleared.
ActivationReadable ==
    /\ env.SISTER_ACTIVATED_SOCKET_PATH # "relative"
    /\ env.LISTEN_PID # "absent" /\ env.LISTEN_FDS # "absent"

\* Descriptor 3 is a listening stream socket on the path that was configured,
\* given to this process under the name it expects.
ActivationValid ==
    /\ ActivationReadable
    /\ env.LISTEN_PID = "this process" /\ env.LISTEN_FDS = "1" /\ env.LISTEN_FDNAMES = "sisterd-http"
    /\ env.descriptor = env.SISTER_ACTIVATED_SOCKET_PATH
    /\ Production => env.permissions = "right"

AcquireActivatedUnixListener ==
    /\ stage = "listen" /\ Activated
    /\ env' = IF ActivationReadable THEN WithoutActivation ELSE env
    /\ IF ActivationValid THEN stage' = "state" /\ listener' = "unix"
       ELSE stage' = "failed" /\ UNCHANGED listener

\* socket, setsockopt, bind or listen may fail; the address is tested again.
CreateTcpLoopbackListener ==
    /\ stage = "listen" /\ ~Activated
    /\ \/ env.SISTER_BIND_HOST # "elsewhere" /\ stage' = "state" /\ listener' = "tcp"
       \/ stage' = "failed" /\ UNCHANGED listener
    /\ UNCHANGED env

-----------------------------------------------------------------------------
(* What the handlers share, and their threads. *)

\* AppState: without its database the PostgreSQL identity store throws, and
\* nothing catches it; the database of everything else may be absent.
CreateState ==
    /\ stage = "state"
    /\ \/ stage' = "pool"
       \/ env.SISTER_AUTH_BACKEND = "postgresql" /\ stage' = "aborted"
    /\ UNCHANGED <<env, listener>>

\* The pool's constructor starts the threads.  When one cannot be started the
\* exception destroys those that run already, which ends the process.  main()
\* reads of the configuration only what kind of listener it has.
StartPool ==
    /\ stage = "pool"
    /\ stage' \in {"serving", "aborted"}
    /\ env' = Forgotten
    /\ UNCHANGED listener

Boot == LoadConfig \/ InstallHandlers \/ AcquireActivatedUnixListener \/ CreateTcpLoopbackListener
        \/ CreateState \/ StartPool

\* SIGINT or SIGTERM before std::signal: the default action.
Killed ==
    /\ stage \in {"load", "signals"}
    /\ stage' = "killed"
    /\ UNCHANGED <<env, listener>>

Stages == {"load", "signals", "listen", "state", "pool", "serving", "failed", "killed", "aborted"}

StartupTypeOK ==
    /\ stage \in Stages
    /\ env = Forgotten \/ Typed(env)
    /\ listener \in {"none", "unix", "tcp"}
=============================================================================
