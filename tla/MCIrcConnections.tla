------------------------- MODULE MCIrcConnections -------------------------
EXTENDS IrcConnections, TLC

CONSTANTS starter, remover

\* One task connects, for the settings or for the API; one disconnects, or
\* reconnects with changed settings.
StartAndRemove == starter :> {"start", "api"} @@ remover :> {"remove"}
StartAndReconnect == starter :> {"start", "api"} @@ remover :> {"remove", "reconnect"}
===========================================================================
