----------------------------- MODULE ServedViews -----------------------------
(***************************************************************************)
(* The handlers (ClientHandler) with the ecosystem snapshots they share    *)
(* (EcosystemViews): a request for a view refreshes it under the mutex it  *)
(* has waited for, while the files and the participants change.            *)
(***************************************************************************)
EXTENDS ClientHandler, EcosystemViews

\* What a path asks of the snapshots.
KindOf(path) ==
    CASE path = "/api/v1/workspace" -> "declared"
      [] path \in {"/api/ecosystem", "/api/systems"} -> "observed"
      [] OTHER -> "semantic"

\* The access classes whose surfaces the workspace of a role shows.
AccessClasses(role) ==
    {"authenticated"}
    \cup (IF role \in {"researcher", "admin"} THEN {"research"} ELSE {})
    \cup (IF role = "admin" THEN {"engineering", "admin"} ELSE {})

VARIABLE shown   \* the surfaces each worker's answer shows

servedVars == <<handlerVars, viewVars, shown>>

ServedInit ==
    /\ \E loads \in Loads : \E load \in loads : InitWith(load) /\ ViewsInit(load.contents, load.changes)
    /\ shown = [w \in Workers |-> {}]

\* A handler's own steps; in the section of a view's mutex they are the call.
Handle(w) ==
    /\ Work(w)
    /\ IF h[w].want \notin Views THEN UNCHANGED viewVars
       ELSE CASE h[w].pc = "wait"   -> BeginCall(h[w].want, KindOf(h[w].request.path))
              [] h[w].pc = "inside" -> EndCall(h[w].want)
              [] OTHER -> UNCHANGED viewVars
    /\ shown' = IF h[w].pc = "inside" /\ h[w].request.path = "/api/v1/workspace" /\ h[w].want = "ecosystem"
                THEN [shown EXCEPT ![w] = Workspace(cache["ecosystem"].view, AccessClasses(h[w].actor))]
                ELSE shown

Refresh(w) ==
    /\ h[w].pc = "inside" /\ h[w].want \in Views
    /\ ViewStep(h[w].want)
    /\ UNCHANGED <<handlerVars, shown>>

ServedNext ==
    \/ \E w \in Workers : Handle(w) \/ Refresh(w)
    \/ Outside /\ UNCHANGED <<handlerVars, shown>>

\* Threads run, a mutex that stays free is obtained, and recv, send, connect and the
\* probes come back, with an error if need be (socket timeouts).  A call of libpq, which
\* has no timeout, may never come back: it is left without fairness.  Each worker has one
\* request: a mutex fought for for ever is not considered.
ServedSpec ==
    /\ ServedInit /\ [][ServedNext]_servedVars
    /\ \A w \in Workers : WF_servedVars(~InDatabase(w) /\ (Handle(w) \/ Refresh(w)))

-----------------------------------------------------------------------------
(***************************************************************************)
(* The views handed out follow their sources (ViewsFollowSources), and a   *)
(* workspace shows a surface only to roles its access class is for.        *)
(***************************************************************************)
ViewsAreCurrent ==
    /\ ViewsFollowSources
    /\ \A v \in Views : (call[v].pc = "idle") = (mutex[v] = None)
    /\ \A w \in Workers : \A surface \in shown[w] :
          /\ surface.class \in {"engineering", "admin"} => h[w].actor = "admin"
          /\ surface.class = "research" => h[w].actor \in {"admin", "researcher"}
=============================================================================
