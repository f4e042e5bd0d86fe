---------------------------- MODULE MCConnections -----------------------------
(***************************************************************************)
(* The connections in one run: those a server has accepted, that of a      *)
(* synchronous client, and the search for a client.  The first state says  *)
(* which part moves; the others stay where they began.                     *)
(***************************************************************************)
EXTENDS ServerConnections, ClientConnection, ClientRouting

VARIABLE part

connectionsVars == <<part, serverVars, clientVars, routingVars>>

ConnectionsInit ==
    /\ part \in {"server", "client", "routing"}
    /\ ServerInit /\ ClientInit /\ RoutingInit
    /\ part # "client" => ~single /\ heartbeat_ms_ = 0 /\ protocol = "http"
    /\ part # "routing" => ~onlyOne

ConnectionsNext ==
    /\ part' = part
    /\ \/ part = "server" /\ ServerNext /\ UNCHANGED <<clientVars, routingVars>>
       \/ part = "client" /\ ClientNext /\ UNCHANGED <<serverVars, routingVars>>
       \/ part = "routing" /\ RoutingNext /\ UNCHANGED <<serverVars, clientVars>>

(* ClientFairness, where the client moves. *)
ConnectionsFairness ==
    /\ WF_clientVars(part = "client" /\ IoStep)
    /\ WF_clientVars(part = "client" /\ ReconnectStep)
    /\ \A r \in Req :
        /\ SF_clientVars(part = "client" /\ Encode(r))
        /\ SF_clientVars(part = "client" /\ TimeOut(r))

ConnectionsSpec ==
    ConnectionsInit /\ [][ConnectionsNext]_connectionsVars /\ ConnectionsFairness
=============================================================================
