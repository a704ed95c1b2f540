--------------------------- MODULE SpecValidation ---------------------------
(***************************************************************************)
(* validate_remote_spec: the checks the directory makes of the document a  *)
(* remote service publishes, against the one the macro generated.          *)
(* A remote document is NoPaths when it has no "paths" section.            *)
(***************************************************************************)
EXTENDS RestContract

CONSTANT NoPaths

\* Only the description of a POST operation is looked at.
IsOptional(item) == "post" \in DOMAIN item /\ item["post"].optional

Missing(expected, remote) ==
  {p \in DOMAIN expected \ DOMAIN remote : ~IsOptional(expected[p])}

\* MUTANT: a path that is present is not looked into.
BugWrongMethods(expected, remote) == {}

WrongMethods(expected, remote) ==
  {p \in DOMAIN expected \cap DOMAIN remote :
     ~(DOMAIN expected[p] \subseteq DOMAIN remote[p])}

\* The content types of a status are compared when the remote operation has
\* any for that status.
ContentFits(op, remoteOp) ==
  \A st \in DOMAIN op.responses \cap DOMAIN remoteOp.responses :
    op.responses[st] \subseteq remoteOp.responses[st]

WrongContents(expected, remote) ==
  {p \in DOMAIN expected \cap DOMAIN remote :
     \E v \in DOMAIN expected[p] \cap DOMAIN remote[p] :
       ~ContentFits(expected[p][v], remote[p][v])}

\* ~has_failures() of the report.
Passes(expected, remote) ==
  /\ remote # NoPaths
  /\ Missing(expected, remote) = {}
  /\ WrongMethods(expected, remote) = {}
  /\ WrongContents(expected, remote) = {}

-----------------------------------------------------------------------------
(* What validation is for.                                                 *)

\* The requests a service answers that does what its document says.
Routes(remote) ==
  UNION {{[verb |-> v, path |-> p] : v \in DOMAIN remote[p]} : p \in DOMAIN remote}

\* A trait the generator was made for: one method per path, all of them POST.
PostOnly(trait) == \A i \in DOMAIN trait : extract_http_method(trait[i]) = "post"

OnePerPath(trait) ==
  \A i, j \in DOMAIN trait :
    extract_endpoint_path(trait[i]) = extract_endpoint_path(trait[j]) => i = j
=============================================================================
