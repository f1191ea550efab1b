CONSTANTS
  MaxSequence = 2
  MaxQueue = 8
  Results = {"ok", "resolve_failure", "connect_failure", "sni_failure",
             "tls_handshake_failure", "tls_verification_failure",
             "websocket_handshake_failure", "text", "binary_message",
             "message_too_big", "remote_close", "incomplete_message",
             "read_failure", "timestamp_failure"}
SPECIFICATION SessionSpec
CHECK_DEADLOCK FALSE
INVARIANTS OneReadWhileOpen
PROPERTIES LateHandlersAreHarmless SessionNeverHangs
