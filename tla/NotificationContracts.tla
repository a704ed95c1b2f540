----------------------- MODULE NotificationContracts -----------------------
(***************************************************************************)
(* The two contracts of the notification SDK that have a REST projection,  *)
(* as the macro of RestContract sees their traits, with the ids under      *)
(* which their services are registered and resolved.                       *)
(***************************************************************************)
EXTENDS RestContract

RequestResponse(name, path) ==
  [name |-> name, streaming |-> FALSE, optional |-> FALSE,
   attrs |-> <<Marker, Http("post", path)>>]

NotificationApiRest ==
  <<RequestResponse("send", <<"v1", "send">>),
    RequestResponse("get_status", <<"v1", "get_status">>)>>

\* The name of a streaming method is the one without "stream_".
NotificationBackendRest ==
  <<RequestResponse("deliver", <<"v1", "deliver">>),
    [name |-> "delivery", streaming |-> TRUE, optional |-> FALSE,
     attrs |-> <<Marker, Http("post", <<"v1", "delivery", "stream">>)>>]>>

\* An id is "gts.poc.notification." and these segments.
ApiPrefix     == <<"api", "v1", "~">>
BackendPrefix == <<"backend", "v1", "~">>
Remote(prefix) == prefix \o <<"remote", "v1", "~">>
=============================================================================
