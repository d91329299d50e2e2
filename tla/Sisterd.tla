------------------------------- MODULE Sisterd -------------------------------
(***************************************************************************)
(* The process sisterd: its start (Startup), then its accept loop and      *)
(* pool (ConnectionPool).  A signal may come at any point; what it does    *)
(* depends on how far main() is.                                           *)
(***************************************************************************)
EXTENDS ConnectionPool, Startup

ProcessInit == Init /\ StartupInit

\* The threads of the pool, and the accept loop after its constructor.
Serving == stage = "serving" /\ Next /\ UNCHANGED startupVars

\* main() before the accept loop.
Starting == Boot /\ UNCHANGED vars

\* The handlers are installed, and nothing looks at the flag before the loop.
SignalWhileStarting ==
    /\ stage \in {"listen", "state", "pool"}
    /\ HandleSignal
    /\ UNCHANGED startupVars

SignalTooEarly == Killed /\ UNCHANGED vars

StartFailed == stage \in {"failed", "killed", "aborted"}

ProcessOver == StartFailed /\ UNCHANGED <<vars, startupVars>>

ProcessNext ==
    \/ Starting
    \/ SignalTooEarly
    \/ SignalWhileStarting
    \/ Serving
    \/ ProcessOver

\* The fairness of the pool, once its threads exist; before that main() runs
\* on its own and none of the calls it makes blocks for ever.
ProcessSpec ==
    /\ ProcessInit /\ [][ProcessNext]_<<vars, startupVars>>
    /\ WF_<<vars, startupVars>>(Starting)
    /\ WF_<<vars, startupVars>>(Serving /\ MainStep)
    /\ WF_<<vars, startupVars>>(Serving /\ ~keepRunning /\ LeaveLoop)
    /\ \A w \in Workers : WF_<<vars, startupVars>>(Serving /\ WorkerStep(w))

-----------------------------------------------------------------------------
\* What a process whose listener is there has been started with.
ListenerFits ==
    /\ Production =>
          /\ listener = "unix"
          /\ env.descriptor = "/run/sister/sisterd.sock" /\ env.permissions = "right"
          /\ ~BootstrapEnabled /\ ~LegacyProxyEnabled /\ ~LegacyWebSocketEnabled
    /\ listener = "unix" =>
          /\ \A s \in ActivationVariables : env[s] = "absent"
          /\ env.descriptor = env.SISTER_ACTIVATED_SOCKET_PATH
    /\ listener = "tcp" => env.SISTER_BIND_HOST # "elsewhere"

(***************************************************************************)
(* docs/security/SISTERD_SECURITY_BASELINE.md: production accepts only the *)
(* activated /run/sister/sisterd.sock, TCP and any fallback to it are      *)
(* forbidden.  No combination of settings, arguments and inherited         *)
(* descriptor brings a production process to the point where it shares its *)
(* state with handlers but on that socket, handed to this very process,    *)
(* with the permissions it demands and the bootstrap and the legacy        *)
(* proxies off; and no process gets there on TCP beyond loopback, or with  *)
(* an activation its children could take for theirs.                       *)
(***************************************************************************)
ListensAsAllowed ==
    /\ TypeOK /\ StartupTypeOK
    /\ stage \in {"state", "pool"} => ListenerFits
    /\ stage = "serving" => listener # "none"

(***************************************************************************)
(* The start comes to an end, serving or not; and a signal, whether it     *)
(* comes during the start, while the pool is full or while it is idle,     *)
(* ends the process, with every queued connection finished (the queue is   *)
(* empty when the process leaves).                                         *)
(***************************************************************************)
HasLeft == StartFailed \/ (mainPc = "exit" /\ jobs = <<>>)


(***************************************************************************)
(* README.md calls the secure cookie, HSTS and the same-origin test active *)
(* by default in production.                                               *)
(***************************************************************************)
ControlsActiveByDefault ==
    stage = "pool" /\ Production =>
        /\ env.SISTER_COOKIE_SECURE = "absent" => SecureCookie
        /\ env.SISTER_HSTS = "absent" => Hsts
        /\ env.SISTER_REQUIRE_SAME_ORIGIN = "absent" => RequireSameOrigin
=============================================================================
