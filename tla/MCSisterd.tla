----------------------------- MODULE MCSisterd -----------------------------
(* sisterd for TLC: three ways of starting it that work, each with at most *)
(* two settings changed, so that every pair of conditions of loadConfig    *)
(* and of the listener meets.                                              *)
EXTENDS Sisterd, TLC

Common ==
    [s \in DOMAIN Settings |-> "absent"]

GoodStarts ==
    LET base == [SISTER_ACTIVATED_SOCKET_PATH |-> "/run/sister/sisterd.sock", SISTER_AUTH_BACKEND |-> "file",
                 SISTER_INTERNAL_PROXY_TOKEN |-> "short", SISTER_WEB_ROOT |-> "directory",
                 descriptor |-> "closed", permissions |-> "right"] @@ Common
        activated == [LISTEN_PID |-> "this process", LISTEN_FDS |-> "1", LISTEN_FDNAMES |-> "sisterd-http",
                      descriptor |-> "/run/sister/sisterd.sock"]
    IN  {activated @@ base,
         [SISTER_ENV |-> "development"] @@ base,
         [SISTER_ENV |-> "development", SISTER_LISTENER_MODE |-> "systemd-unix",
          SISTER_ACTIVATED_SOCKET_PATH |-> "other", descriptor |-> "other",
          SISTER_AUTH_BACKEND |-> "postgresql", SISTER_DATABASE_URL |-> "set",
          SISTER_ENABLE_NEXO_CONTEXT_PROJECTION |-> "true", SISTER_NEXO_PORT |-> "in range",
          SISTER_INTERNAL_IDENTITY_PRIVATE_KEY_FILE |-> "absolute",
          SISTER_INTERNAL_IDENTITY_KEY_ID |-> "set"] @@ activated @@ base}

Changes == UNION {{<<s, v>> : v \in Settings[s]} : s \in DOMAIN Settings}

MCEnvironments ==
    {[w EXCEPT ![c[1]] = c[2], ![d[1]] = d[2]] : w \in GoodStarts, c \in Changes, d \in Changes}
=============================================================================
