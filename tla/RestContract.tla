---------------------------- MODULE RestContract ----------------------------
(***************************************************************************)
(* What the macro modkit_rest_contract makes of a *Rest trait: the OpenAPI *)
(* document of the contract and the requests of the generated client.      *)
(*                                                                         *)
(* A trait is a sequence of methods [name, attrs, streaming, optional];    *)
(* optional says that the method has a default body.  An attribute is      *)
(* [kind, verb, path] with kind "http" (#[post("..")], #[get("..")],       *)
(* #[delete("..")]), "marker" (#[retryable]) or "foreign" (a path of more  *)
(* than one segment, #[tracing::instrument]).                              *)
(*                                                                         *)
(* A document is a function from paths to path items, a path item one from *)
(* verbs to operations, and an operation says which content types it takes *)
(* and, for each status, which it answers with.  A status without a        *)
(* "content" section is not in the domain of "responses".                  *)
(***************************************************************************)
EXTENDS Naturals, Sequences

Http(verb, path) == [kind |-> "http", verb |-> verb, path |-> path]
Marker  == [kind |-> "marker", verb |-> "", path |-> <<>>]
Foreign == [kind |-> "foreign", verb |-> "", path |-> <<>>]

First(S) == CHOOSE i \in S : \A j \in S : i <= j
Final(S) == CHOOSE i \in S : \A j \in S : j <= i

-----------------------------------------------------------------------------
\* The path generated from the name when the attributes give none; the name of
\* a streaming method is taken without its "stream_" or "_stream".
DefaultPath(m) == IF m.streaming THEN <<"v1", m.name, "stream">> ELSE <<"v1", m.name>>

\* The loop looks at one attribute after the other; get_ident()? ends it with
\* nothing at the first foreign one.
extract_endpoint_path(m) ==
  LET ends == {i \in DOMAIN m.attrs : m.attrs[i].kind \in {"http", "foreign"}}
      attr == m.attrs[First(ends)]
  IN  IF ends = {} \/ attr.kind = "foreign" THEN DefaultPath(m) ELSE attr.path

extract_http_method(m) ==
  LET https == {i \in DOMAIN m.attrs : m.attrs[i].kind = "http"}
  IN  IF https = {} THEN "post" ELSE m.attrs[First(https)].verb

Operation(m) ==
  [optional  |-> m.optional,
   request   |-> {"application/json"},
   responses |-> [st \in {"200", "4XX"} |->
                    {CASE st = "4XX"  -> "application/problem+json"
                       [] m.streaming -> "text/event-stream"
                       [] OTHER       -> "application/json"}]]

Endpoints(trait) == {extract_endpoint_path(trait[i]) : i \in DOMAIN trait}

\* Each insert replaces the whole item of the path, so that the last method
\* of a path is the one that is described.
openapi_spec(trait) ==
  [p \in Endpoints(trait) |->
     LET m == trait[Final({i \in DOMAIN trait : extract_endpoint_path(trait[i]) = p})]
     IN  [v \in {extract_http_method(m)} |-> Operation(m)]]

\* The request each generated method sends: always a POST.
ClientRequests(trait) ==
  {[verb |-> "post", path |-> extract_endpoint_path(trait[i])] :
     i \in {j \in DOMAIN trait : ~trait[j].optional}}
=============================================================================
