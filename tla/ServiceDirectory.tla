-------------------------- MODULE ServiceDirectory --------------------------
(***************************************************************************)
(* The ServiceDirectory of modkit-directory: hosts register services under *)
(* GTS-like ids, with or without validation, and resolve ids or prefixes   *)
(* of them to the client configuration of a service.                       *)
(*                                                                         *)
(* The map is shared (Arc<RwLock<HashMap>>), so registrations and clients  *)
(* run concurrently; each access holds the lock and is one step.  The      *)
(* HashMap is a sequence of entries in its iteration order, which an       *)
(* insertion may change in any way and nothing else changes.  An id is the *)
(* sequence of its segments, and a string prefix a prefix of the sequence. *)
(* The rest of a ClientConfig is its url's.                                *)
(*                                                                         *)
(* The services are the environment: at any time one publishes a document, *)
(* is Down (refuses, answers an error status or no JSON) or is Silent (has *)
(* accepted the connection and does not answer; the fetch has no timeout). *)
(***************************************************************************)
EXTENDS SpecValidation, SequencesExt

CONSTANTS Contracts,      \* the traits, by the name of their contract
          Prefix,         \* the id prefix clients of a contract resolve
          Registrations,  \* the [id, url, contract] registrations hosts make
          Manual,         \* those of them made without validation
          Hosts,          \* calls of register_and_validate
          Clients,        \* REST clients, each built from one resolution
          Documents,      \* the documents services publish, by a name
          Deployed,       \* the documents of each service over time, by url
          Down, Silent,   \* the other states of a service
          Nothing         \* no document, no service

\* What ids and prefixes of them are made of.
Segments == UNION {ToSet(id) : id \in {reg.id : reg \in Registrations}
                                 \cup {Prefix[k] : k \in DOMAIN Contracts}}

\* Every id names its contract first, and the prefix of one contract is not
\* one of another's ("gts.poc.x.v1~" ends in a mark for that).
ASSUME NamesAssumption ==
  /\ \A reg \in Registrations : /\ reg.contract \in DOMAIN Contracts
                                /\ IsPrefix(Prefix[reg.contract], reg.id)
  /\ \A k, l \in DOMAIN Contracts : IsPrefix(Prefix[k], Prefix[l]) => k = l
  /\ \A k \in DOMAIN Contracts : /\ Prefix[k] \in Seq(Segments)
                                 /\ DOMAIN Contracts[k] \subseteq Nat
  /\ \A reg \in Registrations : reg.id \in Seq(Segments)
  /\ Manual \subseteq Registrations

ASSUME DeployedAssumption ==
  /\ Deployed \in [{reg.url : reg \in Registrations} -> SUBSET DOMAIN Documents]
  /\ {Down, Silent, Nothing} \cap DOMAIN Documents = {}
  /\ Down # Silent /\ Down # Nothing /\ Silent # Nothing

VARIABLES published,    \* what each service publishes now
          entries,      \* the map, in iteration order
          registering,  \* the registration each host has in hand, or the last
          bound         \* what the resolution of each client gave

vars == <<published, entries, registering, bound>>

Urls == DOMAIN Deployed
Names == DOMAIN Documents
Expected == [k \in DOMAIN Contracts |-> openapi_spec(Contracts[k])]

\* The documents that pass for a contract.
Fitting == {pair \in (DOMAIN Contracts) \X Names :
              Passes(Expected[pair[1]], Documents[pair[2]])}
Fits(reg, doc) == <<reg.contract, doc>> \in Fitting

\* "seen" (for the properties only) is the document the entry was validated on.
Entry(reg, doc) == [id |-> reg.id, url |-> reg.url, seen |-> doc]
AllEntries ==
  {Entry(reg, doc) : reg \in Registrations, doc \in Names \cup {Nothing}}

ASSUME NothingAssumption == Nothing \notin AllEntries

\* A map has one entry for each id.
OneEach(s) == \A i, j \in DOMAIN s : s[i].id = s[j].id => i = j

Stages == {"idle", "fetching", "fetched", "accepted", "rejected"}
TypeOK ==
  /\ published \in [Urls -> Names \cup {Down, Silent}]
  /\ entries \in Seq(AllEntries)
  /\ OneEach(entries)
  /\ registering \in [Hosts -> [stage : Stages, reg : Registrations \cup {Nothing},
                                doc : Names \cup {Nothing}]]
  /\ bound \in [Clients -> [contract : DOMAIN Contracts, entry : AllEntries]
                             \cup {Nothing}]

Init ==
  /\ published \in [Urls -> Names \cup {Down}]
  /\ \A url \in Urls : published[url] \in Deployed[url] \cup {Down}
  /\ entries = <<>>
  /\ registering = [h \in Hosts |-> [stage |-> "idle", reg |-> Nothing, doc |-> Nothing]]
  /\ bound = [c \in Clients |-> Nothing]

-----------------------------------------------------------------------------
\* MUTANT: the id is inserted next to an entry it should replace.
BugInserted(old, e) == SetToSeqs(ToSet(old) \cup {e})

\* MUTANT: one entry is kept for each contract, whatever the rest of the id.
BugOneEach(old, e) ==
  LET same(f) == Front(f.id) = Front(e.id)
  IN  SetToSeqs({f \in ToSet(old) : ~same(f)} \cup {e})

\* The contents the map can have after the insertion of e: a known id keeps
\* its place, a new one may reorder everything.
Inserted(old, e) ==
  IF \E i \in DOMAIN old : old[i].id = e.id
  THEN {[i \in DOMAIN old |-> IF old[i].id = e.id THEN e ELSE old[i]]}
  ELSE SetToSeqs(ToSet(old) \cup {e})

\* register: no question asked.
Register(reg) ==
  /\ reg \in Manual
  /\ entries' \in Inserted(entries, Entry(reg, Nothing))
  /\ UNCHANGED <<published, registering, bound>>

\* register_and_validate is called and asks for the document.
BeginRegister(h, reg) ==
  /\ registering[h].stage = "idle"
  /\ registering' = [registering EXCEPT ![h] =
       [stage |-> "fetching", reg |-> reg, doc |-> Nothing]]
  /\ UNCHANGED <<published, entries, bound>>

\* MUTANT: the answer is awaited until there is a document.
BugFetch(h) ==
  LET answer == published[registering[h].reg.url]
  IN  /\ registering[h].stage = "fetching"
      /\ answer \notin {Silent, Down}
      /\ registering' = [registering EXCEPT ![h].doc = answer, ![h].stage = "fetched"]
      /\ UNCHANGED <<published, entries, bound>>

\* The service answers the request; the early returns of validate_remote_spec.
Fetch(h) ==
  LET answer == published[registering[h].reg.url]
  IN  /\ registering[h].stage = "fetching"
      /\ answer # Silent
      /\ registering' = [registering EXCEPT
           ![h].doc = IF answer = Down THEN Nothing ELSE answer,
           ![h].stage = IF answer = Down THEN "rejected" ELSE "fetched"]
      /\ UNCHANGED <<published, entries, bound>>

\* MUTANT: the report is printed and not looked at.
BugAccept(h) ==
  LET now == registering[h]
  IN  /\ now.stage = "fetched"
      /\ entries' \in Inserted(entries, Entry(now.reg, now.doc))
      /\ registering' = [registering EXCEPT ![h].stage = "accepted"]
      /\ UNCHANGED <<published, bound>>

\* The report has no failure, and the service is registered.
Accept(h) ==
  LET now == registering[h]
  IN  /\ now.stage = "fetched"
      /\ Fits(now.reg, now.doc)
      /\ entries' \in Inserted(entries, Entry(now.reg, now.doc))
      /\ registering' = [registering EXCEPT ![h].stage = "accepted"]
      /\ UNCHANGED <<published, bound>>

\* The report has failures, which are returned.
Reject(h) ==
  LET now == registering[h]
  IN  /\ now.stage = "fetched"
      /\ ~Fits(now.reg, now.doc)
      /\ registering' = [registering EXCEPT ![h].stage = "rejected"]
      /\ UNCHANGED <<published, entries, bound>>

-----------------------------------------------------------------------------
\* MUTANT: the mark that ends the prefix is not compared.
BugStartsWith(id, prefix) == IsPrefix(SubSeq(prefix, 1, Len(prefix) - 1), id)

StartsWith(id, prefix) == IsPrefix(prefix, id)

\* resolve: the entry of that very id, or else the first the iteration meets
\* of which it is a prefix.
resolve(asked) ==
  LET exact == {i \in DOMAIN entries : entries[i].id = asked}
      some  == {i \in DOMAIN entries : StartsWith(entries[i].id, asked)}
  IN  CASE exact # {} -> entries[First(exact)]
        [] exact = {} /\ some # {} -> entries[First(some)]
        [] OTHER -> Nothing

\* A host resolves the prefix of a contract and builds a client from what it
\* gets, or goes without one.
Bind(c, k) ==
  /\ bound[c] = Nothing
  /\ resolve(Prefix[k]) # Nothing
  /\ bound' = [bound EXCEPT ![c] = [contract |-> k, entry |-> resolve(Prefix[k])]]
  /\ UNCHANGED <<published, entries, registering>>

\* The environment: a service is deployed, stopped, hangs or recovers.
Deploy(url) ==
  /\ \E doc \in Deployed[url] \cup {Down, Silent} :
       published' = [published EXCEPT ![url] = doc]
  /\ UNCHANGED <<entries, registering, bound>>

Next ==
  \/ \E reg \in Registrations : Register(reg)
  \/ \E h \in Hosts : \E reg \in Registrations \ Manual : BeginRegister(h, reg)
  \/ \E h \in Hosts : Fetch(h) \/ Accept(h) \/ Reject(h)
  \/ \E c \in Clients, k \in DOMAIN Contracts : Bind(c, k)
  \/ \E url \in Urls : Deploy(url)

Spec == Init /\ [][Next]_vars

\* The runtime polls every task that can move.
FairSpec == Spec /\ \A h \in Hosts : WF_vars(Fetch(h) \/ Accept(h) \/ Reject(h))

-----------------------------------------------------------------------------
(* Properties.                                                             *)

Listed == ToSet(entries)

\* An entry registered by hand, or the contract its registration names fits
\* the document that was fetched for it.
Vouched(e) ==
  \/ \E reg \in Manual : e = Entry(reg, Nothing)
  \/ \E reg \in Registrations \ Manual, doc \in Names :
       e = Entry(reg, doc) /\ Fits(reg, doc)

\* The directory vouches for what it has checked: a rejected registration never
\* replaces or leaves an entry, in whatever order hosts and services move.
EntriesPassed == \A e \in Listed : Vouched(e)

\* A registration that was accepted can be resolved from then on, by its id
\* and by the prefix of its contract, whatever other hosts register meanwhile.
AcceptedIsFound ==
  \A h \in Hosts : registering[h].stage = "accepted" =>
    LET reg == registering[h].reg
    IN  /\ resolve(reg.id) # Nothing /\ resolve(reg.id).id = reg.id
        /\ resolve(Prefix[reg.contract]) # Nothing

\* The documents that have every endpoint the client of a contract asks for.
Serving == {pair \in (DOMAIN Contracts) \X Names :
              /\ Documents[pair[2]] # NoPaths
              /\ ClientRequests(Contracts[pair[1]]) \subseteq Routes(Documents[pair[2]])}

\* The requests of a bound client are all answered, as long as the service
\* still publishes the document it was validated on.
Served(c) ==
  LET e == bound[c].entry
  IN  e.seen # Nothing /\ e.seen = published[e.url] =>
        <<bound[c].contract, e.seen>> \in Serving

\* Compatibility at wiring time: a client of a contract made of POST methods
\* with a path each is only ever bound to a service that has the endpoints of
\* that contract, not of one with a similar name.
CallsServed ==
  \A c \in Clients : bound[c] # Nothing =>
    LET trait == Contracts[bound[c].contract]
    IN  PostOnly(trait) /\ OnePerPath(trait) => Served(c)

\* The same of every contract the attributes #[post], #[get] and #[delete] can
\* describe (README.md:47).
WiringIsSafe == \A c \in Clients : bound[c] # Nothing => Served(c)

\* A registration ends unless the service keeps silent.
RegistrationEnds ==
  \A h \in Hosts :
    registering[h].stage \in {"fetching", "fetched"} ~>
      \/ registering[h].stage \in {"accepted", "rejected"}
      \/ \E reg \in Registrations :
           reg = registering[h].reg /\ published[reg.url] = Silent

\* Rule 4: for each matching operation the request and response content types
\* of the contract are present.
ContentTypesPresent ==
  \A h \in Hosts : registering[h].stage = "accepted" =>
    LET expected == Expected[registering[h].reg.contract]
        remote   == Documents[registering[h].doc]
    IN  \A p \in DOMAIN expected \cap DOMAIN remote :
          \A v \in DOMAIN expected[p] \cap DOMAIN remote[p] :
            /\ expected[p][v].request \subseteq remote[p][v].request
            /\ \A st \in DOMAIN expected[p][v].responses :
                 /\ st \in DOMAIN remote[p][v].responses
                 /\ expected[p][v].responses[st] \subseteq remote[p][v].responses[st]
=============================================================================
