--------------------------- MODULE MCSyncSession ---------------------------
(* Small instances of SyncSession for TLC. *)
EXTENDS SyncSession

\* What a Realm and its user do while the session is in use.
UseCalls == {"get_session", "drop", "log_out", "wait", "commit"}
\* What restarts the session under its users.
RestartCalls == {"get_existing_session", "drop", "close", "revive", "log_out",
                 "wait", "update_configuration", "shutdown_and_wait"}
ResyncCalls == {"get_session", "drop", "wait", "revive", "close"}

SessionErrors == {<<"ignored", FALSE>>, <<"plain", TRUE>>, <<"plain", FALSE>>,
                  <<"bad_authentication", TRUE>>, <<"permission_denied", TRUE>>,
                  <<"client_reset", TRUE>>, <<"client_file", TRUE>>}
ResyncErrors == {<<"client_reset", TRUE>>, <<"token_expired", TRUE>>,
                 <<"plain", FALSE>>, <<"refresh", FALSE>>}
=============================================================================
