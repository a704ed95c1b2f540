------------------------ MODULE MCServiceDirectory ------------------------
(***************************************************************************)
(* Instances of ServiceDirectory: the backend's contract, a later version  *)
(* of it, and a small contract with GET and DELETE.                        *)
(***************************************************************************)
EXTENDS ServiceDirectory, NotificationContracts

Method(name, attrs) ==
  [name |-> name, attrs |-> attrs, streaming |-> FALSE, optional |-> FALSE]

\* A later version of the backend's contract, with a method that is traced and
\* thus loses its path, and one that a service may omit.
BackendV10 == <<Method("deliver", <<Foreign, Http("post", <<"v10", "deliver">>)>>),
                [Method("cancel", <<>>) EXCEPT !.optional = TRUE]>>

MCContracts == [backend |-> NotificationBackendRest, backend10 |-> BackendV10]
MCPrefix == [backend   |-> <<"backend", "v1", "~">>,
             backend10 |-> <<"backend", "v1", "0", "~">>]
MCRegistrations ==
  {[id |-> <<"backend", "v1", "~", "remote">>, url |-> "sms", contract |-> "backend"],
   [id |-> <<"backend", "v1", "~", "static">>, url |-> "sms", contract |-> "backend"],
   [id |-> <<"backend", "v1", "0", "~", "remote">>, url |-> "new", contract |-> "backend10"]}
MCManual == {reg \in MCRegistrations : reg.id[4] = "static"}

\* Documents: of both versions, without its optional endpoint, with a GET in
\* the place of a POST, with JSON in the place of events, and with no paths.
Swapped(doc, p) ==
  [doc EXCEPT ![p] = [v \in {"get"} |-> doc[p]["post"]]]
Jsonized(doc, p) ==
  [doc EXCEPT ![p]["post"].responses["200"] = {"application/json"}]
Without(doc, p) == [q \in DOMAIN doc \ {p} |-> doc[q]]
MCDocuments ==
  LET old == openapi_spec(NotificationBackendRest)
      new == openapi_spec(BackendV10)
  IN  [empty |-> NoPaths, old |-> old, both |-> old @@ new,
       trimmed |-> Without(new, <<"v1", "cancel">>),
       swapped |-> Swapped(old, <<"v1", "deliver">>),
       json |-> Jsonized(old, <<"v1", "delivery", "stream">>)]
MCDeployed == [sms |-> {"old", "swapped", "json"}, new |-> {"empty", "both", "trimmed"}]

-----------------------------------------------------------------------------
\* One contract with a method of each kind, under one id.
Rich == <<Method("send", <<Http("post", <<"v1", "send">>)>>),
          Method("status", <<Http("get", <<"v1", "status">>)>>),
          [Method("recall", <<Http("delete", <<"v1", "recall">>)>>) EXCEPT !.optional = TRUE]>>
RichContracts == [rich |-> Rich]
RichPrefix == [rich |-> <<"rich", "v1", "~">>]
RichRegistrations ==
  {[id |-> <<"rich", "v1", "~", "remote">>, url |-> "rich", contract |-> "rich"]}
RichDocuments ==
  LET doc == openapi_spec(Rich)
  IN  [empty |-> NoPaths, full |-> doc, trimmed |-> Without(doc, <<"v1", "recall">>),
       text |-> [doc EXCEPT ![<<"v1", "send">>]["post"].request = {"text/plain"}],
       bare |-> [doc EXCEPT ![<<"v1", "send">>]["post"].responses =
                               [st \in {"200"} |-> {"application/json"}]]]
RichDeployed == [rich |-> DOMAIN RichDocuments]
None == {}
=============================================================================
