------------------------------ MODULE Envelope ------------------------------
(* The endpoint dispatcher of wpan_aps.c: the endpoint and cluster tables, the *)
(* searches over them, and what happens to one received envelope at one        *)
(* endpoint.  An envelope is a record; its `options` word is a set of names.   *)
EXTENDS Integers, Sequences, SequencesExt

CONSTANTS
    EndpointTable,   \* wpan_dev_t.endpoint_table, a sequence of rows
    AnyProfile,      \* WPAN_APS_PROFILE_ANY
    BroadcastEp      \* WPAN_ENDPOINT_BROADCAST

NoHandler == "NULL"
Rows == DOMAIN EndpointTable
ClusterFlags == {"input", "output", "encrypt", "encryptUnicast", "notZcl"}
FrameOptions == {"broadcastAddr", "broadcastEp", "apsEncrypt"}
Inout == {"input", "output"}

(* Every row has an endpoint number that is not the end-of-table mark, and no  *)
(* two rows would answer to the same endpoint and profile.                     *)
ASSUME TableAssumption ==
    /\ EndpointTable \in Seq({EndpointTable[r] : r \in Rows})
    /\ \A r \in Rows : /\ EndpointTable[r].endpoint # BroadcastEp
                       /\ EndpointTable[r].clusters \in
                             Seq({EndpointTable[r].clusters[i] : i \in DOMAIN EndpointTable[r].clusters})
                       /\ \A i \in DOMAIN EndpointTable[r].clusters :
                             EndpointTable[r].clusters[i].flags \subseteq ClusterFlags
    /\ \A r, s \in Rows : EndpointTable[r].endpoint = EndpointTable[s].endpoint /\ r # s =>
          /\ EndpointTable[r].profile # EndpointTable[s].profile
          /\ AnyProfile \notin {EndpointTable[r].profile, EndpointTable[s].profile}

(* The ZDO endpoint has a profile of its own, and clusters are not routed to   *)
(* its handler.                                                                *)
ASSUME ZdoAssumption ==
    \A r, s \in Rows :
       /\ EndpointTable[r].handler = "zdo_handler" /\ EndpointTable[r].profile = EndpointTable[s].profile => r = s
       /\ \A i \in DOMAIN EndpointTable[r].clusters : EndpointTable[r].clusters[i].handler # "zdo_handler"

(* wpan_cluster_match: position of the first entry with this ID and one of the *)
(* flags of the mask, 0 for none.                                              *)
ClusterMatch(id, mask, clusters) ==
    SelectInSeq(clusters, LAMBDA c : c.cluster = id /\ c.flags \cap mask # {})

(* wpan_endpoint_get_next, walked by wpan_endpoint_match.                      *)
EndpointMatch(endpoint, profile) ==
    SelectInSeq(EndpointTable, LAMBDA row : /\ row.endpoint = endpoint
                                            /\ profile \in {AnyProfile, row.profile})

(* The broadcast loop of wpan_envelope_dispatch: the next row after `row` that *)
(* has the envelope's profile, 0 at the end of the table.                      *)
NextOfProfile(row, profile) ==
    SelectInSubSeq(EndpointTable, row + 1, Len(EndpointTable),
                   LAMBDA e : e.profile = profile)

\* Mutant: the flags of the cluster served before stay in the options.
AddressedKept(env, r) ==
    IF "broadcastEp" \in env.options
    THEN [env EXCEPT !.dest = EndpointTable[r].endpoint]
    ELSE env

(* What wpan_envelope_dispatch does to the envelope before it hands it to row r*)
Addressed(env, r) ==
    IF "broadcastEp" \in env.options
    THEN [env EXCEPT !.dest = EndpointTable[r].endpoint,
                     !.options = @ \cap FrameOptions]
    ELSE env

(* _wpan_endpoint_dispatch, the encryption rule: an unencrypted frame to a ZCL *)
(* cluster that requires encryption is answered with a failure.                *)
Refuses(env, clust) ==
    /\ "apsEncrypt" \notin env.options
    /\ "notZcl" \notin clust.flags
    /\ \/ "encrypt" \in clust.flags
       \/ "encryptUnicast" \in clust.flags /\ "broadcastAddr" \notin env.options

(* _wpan_endpoint_dispatch: the envelope and the handler it is passed to.      *)
Route(env, r) ==
    LET row == EndpointTable[r]
        c == ClusterMatch(env.cluster, Inout, row.clusters)
        clust == row.clusters[c]
    IN  IF c = 0
        THEN [env |-> env, handler |-> row.handler]
        ELSE IF Refuses(env, clust)
        THEN [env |-> env, handler |-> "zcl_invalid_cluster"]
        ELSE [env |-> [env EXCEPT !.options = @ \cup clust.flags],
              handler |-> IF clust.handler # NoHandler THEN clust.handler
                                                       ELSE row.handler]

\* Mutant: only the broadcast address keeps an error report back.
DefaultResponseToAny(env) ==
    /\ "broadcastAddr" \notin env.options
    /\ env.kind # "zclDefault"

(* zcl_default_response: whether an error is reported to the sender.           *)
DefaultResponseSent(env) ==
    /\ env.options \cap {"broadcastAddr", "broadcastEp"} = {}
    /\ env.kind # "zclDefault"
=============================================================================
