--------------------------- MODULE MCPinnedServer ---------------------------
(* Instantiates PinnedServer: two keys, so that a start can fail before it  *)
(* saved its key and the next one finds a fresh one, a pin can be wrong,    *)
(* and the key a server holds need not be the one it claims.  Each end      *)
(* sends two messages that differ; one more does not fit in a frame.        *)
EXTENDS PinnedServer

MCMessage == {"ping", "pong", "listing"}
MCScript == <<{"ping"}, {"pong"}>>
MCOversized == {"listing"}
=============================================================================
