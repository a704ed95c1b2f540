----------------------------- MODULE MCPocHost -----------------------------
(* PocHost for TLC: each service may also publish the other's document, or *)
(* one whose stream is declared as JSON.                                   *)
EXTENDS PocHost

MCDocuments ==
  LET spi == openapi_spec(NotificationBackendRest)
  IN  [spi |-> spi, api |-> openapi_spec(NotificationApiRest),
       json |-> [spi EXCEPT ![<<"v1", "delivery", "stream">>]["post"].responses["200"] =
                              {"application/json"}]]
MCDeployed == [backend |-> {"spi", "api", "json"}, api |-> {"api", "spi"}]
=============================================================================
