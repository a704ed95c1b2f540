--------------------------- MODULE PocHostProofs ---------------------------
(* Theorems about PocHost, for every set of documents its services may     *)
(* publish over time.  What is known of the directory is not proved again: *)
(* DirectoryProofs are the theorems about ServiceDirectory, for the        *)
(* contracts and registrations of the host.                                *)
EXTENDS PocHost, SequenceTheorems, TLAPS

DirectoryProofs ==
  INSTANCE ServiceDirectoryProofs
    WITH Contracts <- [backend |-> NotificationBackendRest, api |-> NotificationApiRest],
         Prefix <- [backend |-> BackendPrefix, api |-> ApiPrefix],
         Registrations <- {Registration(k) : k \in Services},
         Manual <- {}, Hosts <- Services, Clients <- Services

-----------------------------------------------------------------------------
(* The inductive invariant.                                                *)

\* The prefix main resolves each service by.
PrefixOf == [backend |-> BackendPrefix, api |-> ApiPrefix]

\* The client of k is one of the contract of k, for a service that passed.
Wired(k) == /\ bound[k].contract = k
            /\ bound[k].entry.id = Remote(PrefixOf[k])
            /\ Directory!Vouched(bound[k].entry)

\* How far main is and what the directory has.
Reached ==
  /\ \A k \in Services : registering[k].stage # "idle" =>
       registering[k].reg = Registration(k)
  /\ environ.mode = "rest" /\ stage \in {"demo", "local", "bind_api", "remote"} =>
       Wired("backend")
  /\ stage = "remote" => Wired("api")
  /\ stage = "panicked" => environ.mode = "rest" /\ ~Validated("backend")

\* The number of the last call of a stage; one without calls stays at 1.
LastCall(part) == IF part \in DOMAIN CallsOf THEN Len(CallsOf[part]) ELSE 1

\* What main itself keeps: the environment, its stage and the call it is at.
HostTypes ==
  /\ environ \in [mode : {"compile", "rest", "other"}, urls : SUBSET Services]
  /\ stage \in DOMAIN Follows \cup Stopped
  /\ call \in 1..LastCall(stage)
  /\ stuck \in BOOLEAN

\* The directory's invariant, main's types, and what main has reached.
IInv == DirectoryProofs!IInv /\ HostTypes /\ Reached

-----------------------------------------------------------------------------
(* The directory of the host is one that ServiceDirectory describes.       *)

\* The segments of the ids and prefixes of the host.
Segments == DirectoryProofs!Segments

\* What the registrations are.
LEMMA RegistrationFacts ==
  /\ \A k \in Services : /\ Registration(k).contract = k /\ Registration(k).url = k
                         /\ Registration(k).id = Remote(PrefixOf[k])
  /\ {reg.url : reg \in {Registration(k) : k \in Services}} = Services
<1>1. ASSUME NEW k \in Services
      PROVE  /\ Registration(k).contract = k /\ Registration(k).url = k
             /\ Registration(k).id = Remote(PrefixOf[k])
  <2>1. k = "backend" \/ k = "api"
    BY DEF Services
  <2> QED
    BY <2>1 DEF Registration, PrefixOf
<1>2. {reg.url : reg \in {Registration(k) : k \in Services}} = Services
  <2>1. \A u : u \in {reg.url : reg \in {Registration(k) : k \in Services}} <=>
               \E k \in Services : u = Registration(k).url
    BY Zenon
  <2>2. \A u : u \in {reg.url : reg \in {Registration(k) : k \in Services}} <=> u \in Services
    BY <1>1, <2>1
  <2> QED
    BY <2>2
<1> QED
  BY <1>1, <1>2

\* What these prefixes and ids are made of.
Words == {"backend", "api", "v1", "~", "remote"}

\* A prefix is three segments, an id six, the first of which are the prefix.
LEMMA IdFacts ==
  ASSUME NEW k \in Services
  PROVE  /\ PrefixOf[k] \in Seq(Words) /\ Len(PrefixOf[k]) = 3
         /\ Remote(PrefixOf[k]) \in Seq(Words) /\ Len(Remote(PrefixOf[k])) = 6
         /\ \A i \in 1..3 : Remote(PrefixOf[k])[i] = PrefixOf[k][i]
<1> DEFINE p == PrefixOf[k]
           tail == <<"remote", "v1", "~">>
<1>1. p \in Seq(Words) /\ Len(p) = 3 /\ tail \in Seq(Words) /\ Len(tail) = 3
  <2>1. /\ BackendPrefix \in Seq(Words) /\ Len(BackendPrefix) = 3
        /\ ApiPrefix \in Seq(Words) /\ Len(ApiPrefix) = 3
    BY DEF BackendPrefix, ApiPrefix, Words
  <2>2. tail \in Seq(Words) /\ Len(tail) = 3
    BY DEF Words
  <2> QED
    BY <2>1, <2>2 DEF PrefixOf, Services
<1>2. Remote(p) = p \o tail
  BY DEF Remote
<1> HIDE DEF p, tail
<1>3. p \o tail \in Seq(Words) /\ Len(p \o tail) = Len(p) + Len(tail)
  BY <1>1, ConcatProperties
<1>4. ASSUME NEW i \in 1..3
      PROVE  (p \o tail)[i] = p[i]
  <2>1. i \in 1..(Len(p) + Len(tail)) /\ i <= Len(p)
    BY <1>1
  <2> QED
    BY <1>1, <2>1, ConcatProperties
<1>5. Len(p \o tail) = 6
  BY <1>1, <1>3
<1> QED
  BY <1>1, <1>2, <1>3, <1>4, <1>5 DEF p

\* What the items of a sequence are in, the sequence is of.
LEMMA Retyped ==
  ASSUME NEW S, NEW T, NEW s \in Seq(S), \A i \in DOMAIN s : s[i] \in T
  PROVE  s \in Seq(T)
<1>1. Len(s) \in Nat /\ s \in [1..Len(s) -> T]
  OBVIOUS
<1> QED
  BY <1>1, SeqDef

\* The ids of the host are made of segments.
LEMMA SegmentFacts ==
  ASSUME NEW k \in Services
  PROVE  PrefixOf[k] \in Seq(Segments) /\ Remote(PrefixOf[k]) \in Seq(Segments)
<1> DEFINE ids == {reg.id : reg \in {Registration(l) : l \in Services}}
           contracts == [backend |-> NotificationBackendRest, api |-> NotificationApiRest]
           prefixes == {[backend |-> BackendPrefix, api |-> ApiPrefix][l] : l \in DOMAIN contracts}
<1>1. Remote(PrefixOf[k]) \in ids /\ PrefixOf[k] \in prefixes
  BY RegistrationFacts DEF PrefixOf, Services
<1>2. \A id \in ids \cup prefixes : \A i \in DOMAIN id : id[i] \in Segments
  BY DEF Segments, DirectoryProofs!Segments, DirectoryProofs!ToSet
<1> HIDE DEF ids, prefixes
<1> QED
  BY <1>1, <1>2, IdFacts, Retyped

\* No two prefixes begin alike.
LEMMA PrefixFacts ==
  ASSUME NEW k \in Services, NEW l \in Services
  PROVE  /\ DirectoryProofs!IsPrefix(PrefixOf[k], Remote(PrefixOf[l])) <=> k = l
         /\ DirectoryProofs!IsPrefix(PrefixOf[k], PrefixOf[l]) => k = l
<1> DEFINE p == PrefixOf[k]
           q == PrefixOf[l]
           r == Remote(q)
<1>1. /\ p \in Seq(Segments) /\ Len(p) = 3 /\ q \in Seq(Segments) /\ Len(q) = 3
      /\ r \in Seq(Segments) /\ Len(r) = 6 /\ \A i \in 1..3 : r[i] = q[i]
  BY SegmentFacts, IdFacts
<1>2. (p[1] = q[1] => k = l) /\ (k = l => p = q)
  BY DEF PrefixOf, Services, BackendPrefix, ApiPrefix
<1> HIDE DEF p, q, r
<1>3. \A s, t \in Seq(Segments) :
        DirectoryProofs!IsPrefix(s, t) <=>
          Len(s) <= Len(t) /\ \A i \in 1..Len(s) : s[i] = t[i]
  BY DEF DirectoryProofs!IsPrefix
<1>4. DirectoryProofs!IsPrefix(p, r) <=> \A i \in 1..3 : p[i] = r[i]
  BY <1>1, <1>3
<1>5. DirectoryProofs!IsPrefix(p, q) => p[1] = q[1]
  BY <1>1, <1>3
<1> QED
  BY <1>1, <1>2, <1>4, <1>5 DEF p, q, r

\* What ServiceDirectory assumes of names holds of those of the host.
LEMMA HostNames ==
  /\ DirectoryProofs!NamesAssumption
  /\ DirectoryProofs!DeployedAssumption
  /\ DirectoryProofs!NothingAssumption
<1>1. DirectoryProofs!NamesAssumption
  <2> DEFINE contracts == [backend |-> NotificationBackendRest, api |-> NotificationApiRest]
  <2>1. \A k \in Services : DOMAIN contracts[k] \subseteq Nat
    BY DEF NotificationBackendRest, NotificationApiRest, Services
  <2>2. ASSUME NEW reg \in {Registration(k) : k \in Services}
        PROVE  \E k \in Services : reg.contract = k /\ reg.id = Remote(PrefixOf[k])
    BY RegistrationFacts
  <2>3. DOMAIN contracts = Services /\ PrefixOf = [backend |-> BackendPrefix, api |-> ApiPrefix]
    BY DEF PrefixOf, Services
  <2> HIDE DEF contracts
  <2>4. \A reg \in {Registration(k) : k \in Services} :
          /\ reg.contract \in DOMAIN contracts
          /\ DirectoryProofs!IsPrefix(PrefixOf[reg.contract], reg.id)
          /\ reg.id \in Seq(DirectoryProofs!Segments)
    BY <2>2, <2>3, SegmentFacts, PrefixFacts DEF Segments
  <2>5. \A k, l \in DOMAIN contracts :
          DirectoryProofs!IsPrefix(PrefixOf[k], PrefixOf[l]) => k = l
    BY <2>3, PrefixFacts
  <2>6. \A k \in DOMAIN contracts : /\ PrefixOf[k] \in Seq(DirectoryProofs!Segments)
                                    /\ DOMAIN contracts[k] \subseteq Nat
    BY <2>1, <2>3, SegmentFacts DEF Segments
  <2> QED
    BY <2>4, <2>5, <2>6 DEF DirectoryProofs!NamesAssumption, contracts, PrefixOf
<1>2. DirectoryProofs!DeployedAssumption
  <2>1. Deployed \in [{reg.url : reg \in {Registration(k) : k \in Services}}
                        -> SUBSET DOMAIN Documents]
    BY RegistrationFacts, HostAssumption
  <2> QED
    BY <2>1, HostAssumption DEF DirectoryProofs!DeployedAssumption
<1>3. DirectoryProofs!NothingAssumption
  BY HostAssumption DEF DirectoryProofs!NothingAssumption,
       DirectoryProofs!AllEntries, Directory!AllEntries,
       DirectoryProofs!Entry, Directory!Entry, DirectoryProofs!Names, Directory!Names
<1> QED
  BY <1>1, <1>2, <1>3

\* The state of the directory, the same for PocHost and for DirectoryProofs.
LEMMA SameTypes == DirectoryProofs!TypeOK <=> Directory!TypeOK
BY DEF DirectoryProofs!TypeOK, Directory!TypeOK, DirectoryProofs!Urls, Directory!Urls,
       DirectoryProofs!Names, Directory!Names, DirectoryProofs!AllEntries,
       Directory!AllEntries, DirectoryProofs!Entry, Directory!Entry,
       DirectoryProofs!OneEach, Directory!OneEach, DirectoryProofs!Stages, Directory!Stages

\* A trait has one document, in the host and in DirectoryProofs.
LEMMA SameDocument ==
  ASSUME NEW trait
  PROVE  DirectoryProofs!openapi_spec(trait) = Directory!openapi_spec(trait)
<1>1. \A S : /\ DirectoryProofs!First(S) = Directory!First(S)
             /\ DirectoryProofs!Final(S) = Directory!Final(S)
  BY DEF DirectoryProofs!First, Directory!First, DirectoryProofs!Final, Directory!Final
<1>2. ASSUME NEW m
      PROVE  DirectoryProofs!extract_endpoint_path(m) = Directory!extract_endpoint_path(m)
  BY <1>1 DEF DirectoryProofs!extract_endpoint_path, Directory!extract_endpoint_path,
              DirectoryProofs!DefaultPath, Directory!DefaultPath
<1>3. ASSUME NEW m
      PROVE  DirectoryProofs!extract_http_method(m) = Directory!extract_http_method(m)
  BY <1>1 DEF DirectoryProofs!extract_http_method, Directory!extract_http_method
<1>4. ASSUME NEW m
      PROVE  DirectoryProofs!Operation(m) = Directory!Operation(m)
  BY DEF DirectoryProofs!Operation, Directory!Operation
<1>5. DirectoryProofs!Endpoints(trait) = Directory!Endpoints(trait)
  BY <1>2 DEF DirectoryProofs!Endpoints, Directory!Endpoints
<1> QED
  BY <1>1, <1>2, <1>3, <1>4, <1>5 DEF DirectoryProofs!openapi_spec, Directory!openapi_spec

\* validate_remote_spec gives one answer in both.
LEMMA SamePasses ==
  ASSUME NEW expected, NEW remote
  PROVE  DirectoryProofs!Passes(expected, remote) <=> Directory!Passes(expected, remote)
BY DEF DirectoryProofs!Passes, Directory!Passes, DirectoryProofs!Missing, Directory!Missing,
       DirectoryProofs!IsOptional, Directory!IsOptional,
       DirectoryProofs!WrongMethods, Directory!WrongMethods,
       DirectoryProofs!WrongContents, Directory!WrongContents,
       DirectoryProofs!ContentFits, Directory!ContentFits

\* So a registration fits the same documents in both.
LEMMA SameFits ==
  ASSUME NEW reg, NEW doc
  PROVE  DirectoryProofs!Fits(reg, doc) <=> Directory!Fits(reg, doc)
<1>1. DirectoryProofs!Expected = Directory!Expected
  BY SameDocument DEF DirectoryProofs!Expected, Directory!Expected
<1>2. DirectoryProofs!Fitting = Directory!Fitting
  BY <1>1, SamePasses DEF DirectoryProofs!Fitting, Directory!Fitting,
                          DirectoryProofs!Names, Directory!Names
<1> QED
  BY <1>2 DEF DirectoryProofs!Fits, Directory!Fits

\* And the entries vouched for are the same.
LEMMA SameVouched ==
  ASSUME NEW e
  PROVE  DirectoryProofs!Vouched(e) <=> Directory!Vouched(e)
BY SameFits DEF DirectoryProofs!Vouched, Directory!Vouched, DirectoryProofs!Entry,
                Directory!Entry, DirectoryProofs!Names, Directory!Names

\* A validated entry takes the place of the same others in both.
LEMMA SameInserted ==
  ASSUME NEW old, NEW e
  PROVE  DirectoryProofs!Inserted(old, e) = Directory!Inserted(old, e)
<1>1. \A S : DirectoryProofs!Cardinality(S) = Directory!Cardinality(S)
  BY DEF DirectoryProofs!Cardinality, Directory!Cardinality
<1>2. \A S : DirectoryProofs!SetToSeqs(S) = Directory!SetToSeqs(S)
  BY <1>1 DEF DirectoryProofs!SetToSeqs, Directory!SetToSeqs
<1> QED
  BY <1>2 DEF DirectoryProofs!Inserted, Directory!Inserted,
              DirectoryProofs!ToSet, Directory!ToSet

\* resolve finds the same entry in both.
LEMMA SameResolve ==
  ASSUME NEW asked
  PROVE  DirectoryProofs!resolve(asked) = Directory!resolve(asked)
BY DEF DirectoryProofs!resolve, Directory!resolve, DirectoryProofs!StartsWith,
       Directory!StartsWith, DirectoryProofs!IsPrefix, Directory!IsPrefix,
       DirectoryProofs!First, Directory!First

\* What the host does with its directory are steps of ServiceDirectory.
LEMMA SameInit == Directory!Init => DirectoryProofs!Init
BY DEF DirectoryProofs!Init, Directory!Init, DirectoryProofs!Urls, Directory!Urls,
       DirectoryProofs!Names, Directory!Names

\* Registering a service begins as any registration does.
LEMMA BeginIsStep ==
  ASSUME NEW k \in Services, Directory!BeginRegister(k, Registration(k))
  PROVE  DirectoryProofs!Next
<1>1. DirectoryProofs!BeginRegister(k, Registration(k))
  BY DEF Directory!BeginRegister, DirectoryProofs!BeginRegister
<1> QED
  BY <1>1 DEF DirectoryProofs!Next

\* Its document is fetched as any other is.
LEMMA FetchIsStep ==
  ASSUME NEW k \in Services, Directory!Fetch(k)
  PROVE  DirectoryProofs!Next
<1>1. DirectoryProofs!Fetch(k)
  BY DEF Directory!Fetch, DirectoryProofs!Fetch
<1> QED
  BY <1>1 DEF DirectoryProofs!Next

\* It is accepted on the terms of the directory.
LEMMA AcceptIsStep ==
  ASSUME NEW k \in Services, Directory!Accept(k)
  PROVE  DirectoryProofs!Next
<1>1. DirectoryProofs!Accept(k)
  BY SameInserted, SameFits DEF Directory!Accept, DirectoryProofs!Accept,
                                Directory!Entry, DirectoryProofs!Entry
<1> QED
  BY <1>1 DEF DirectoryProofs!Next

\* It is rejected on the terms of the directory.
LEMMA RejectIsStep ==
  ASSUME NEW k \in Services, Directory!Reject(k)
  PROVE  DirectoryProofs!Next
<1>1. DirectoryProofs!Reject(k)
  BY SameFits DEF Directory!Reject, DirectoryProofs!Reject
<1> QED
  BY <1>1 DEF DirectoryProofs!Next

\* Main binds the service that asks for its own contract.
LEMMA BindIsStep ==
  ASSUME NEW k \in Services, Directory!Bind(k, k)
  PROVE  DirectoryProofs!Next
<1>1. DirectoryProofs!Bind(k, k)
  BY SameResolve DEF Directory!Bind, DirectoryProofs!Bind
<1>2. Services = DOMAIN [backend |-> NotificationBackendRest, api |-> NotificationApiRest]
  BY DEF Services
<1> QED
  BY <1>1, <1>2 DEF DirectoryProofs!Next

\* A service publishes another document under the host's eyes.
LEMMA DeployIsStep ==
  ASSUME NEW k \in Services, Directory!Deploy(k)
  PROVE  DirectoryProofs!Next
<1>1. DirectoryProofs!Deploy(k)
  BY DEF Directory!Deploy, DirectoryProofs!Deploy
<1>2. Services = DirectoryProofs!Urls
  BY HostAssumption DEF DirectoryProofs!Urls
<1> QED
  BY <1>1, <1>2 DEF DirectoryProofs!Next

\* Every step of the host is a step of ServiceDirectory or leaves the
\* directory alone.
LEMMA HostStep ==
  ASSUME [Next]_vars
  PROVE  [DirectoryProofs!Next]_DirectoryProofs!vars
<1>1. directoryVars' = directoryVars => UNCHANGED DirectoryProofs!vars
  BY DEF directoryVars, DirectoryProofs!vars
<1>2. ASSUME NEW k \in Services, NoUrl(k) \/ Register(k) \/ Redeploy(k)
      PROVE  [DirectoryProofs!Next]_DirectoryProofs!vars
  BY <1>1, <1>2, BeginIsStep, FetchIsStep, AcceptIsStep, RejectIsStep, DeployIsStep
     DEF NoUrl, Register, Redeploy
<1>3. CASE BindBackend \/ BindApi
  BY <1>1, <1>3, BindIsStep DEF BindBackend, BindApi, LeaveFor, Services
<1>4. CASE Call \/ Stall \/ UNCHANGED vars
  BY <1>1, <1>4 DEF Call, Stall, vars
<1> QED
  BY <1>2, <1>3, <1>4 DEF Next, Main

-----------------------------------------------------------------------------
(* IInv is inductive.                                                      *)

\* What main binds is vouched for and has the id of its service.
LEMMA BindWires ==
  ASSUME IInv, NEW k \in Services, Directory!Bind(k, k)
  PROVE  Wired(k)'
<1> DEFINE e == DirectoryProofs!resolve(PrefixOf[k])
<1>1. Directory!resolve(PrefixOf[k]) = e
  BY SameResolve
<1>2. /\ bound' = [bound EXCEPT ![k] = [contract |-> k, entry |-> e]] /\ e # Nothing
      /\ UNCHANGED <<published, entries, registering>>
  BY <1>1 DEF Directory!Bind, PrefixOf
<1>3. PrefixOf[k] \in Seq(Segments)
  BY SegmentFacts
<1>4. DirectoryProofs!Vouched(e) /\ DirectoryProofs!StartsWith(e.id, PrefixOf[k])
  BY <1>2, <1>3, HostNames, DirectoryProofs!Resolved DEF IInv
<1>5. PICK l \in Services : e.id = Remote(PrefixOf[l])
  <2> HIDE DEF e
  <2>1. PICK l \in Services, doc \in DirectoryProofs!Names :
          e = DirectoryProofs!Entry(Registration(l), doc)
    BY <1>4 DEF DirectoryProofs!Vouched
  <2>2. e.id = Registration(l).id
    BY <2>1 DEF DirectoryProofs!Entry
  <2> QED
    BY <2>2, RegistrationFacts
<1>6. l = k
  BY <1>4, <1>5, PrefixFacts DEF DirectoryProofs!StartsWith
<1>7. DOMAIN bound = Services
  BY DEF IInv, DirectoryProofs!IInv, DirectoryProofs!TypeOK
<1>8. Directory!Vouched(e)
  BY <1>4, SameVouched
<1> HIDE DEF e
<1> QED
  BY <1>2, <1>5, <1>6, <1>7, <1>8 DEF Wired, Directory!Vouched

\* An accepted registration of the host is one main can bind.
LEMMA AcceptedResolves ==
  ASSUME IInv, NEW k \in Services, Validated(k)
  PROVE  Directory!resolve(PrefixOf[k]) # Nothing
<1>1. registering[k].reg = Registration(k) /\ registering[k].reg.contract = k
  BY RegistrationFacts DEF IInv, Reached, Validated
<1>2. DirectoryProofs!AcceptedIsFound
  BY HostNames, DirectoryProofs!InvFinds DEF IInv
<1>3. DirectoryProofs!resolve(PrefixOf[registering[k].reg.contract]) # Nothing
  BY <1>2 DEF DirectoryProofs!AcceptedIsFound, Validated, PrefixOf
<1> QED
  BY <1>1, <1>3, SameResolve

\* Being vouched for does not depend on the state.
LEMMA VouchedStays ==
  ASSUME NEW e
  PROVE  Directory!Vouched(e)' <=> Directory!Vouched(e)
BY DEF Directory!Vouched, Directory!Entry, Directory!Fits, Directory!Fitting

\* The stages of main.
LEMMA StageFacts ==
  /\ DOMAIN Follows = {"backend", "api", "bind", "demo", "local", "bind_api", "remote"}
  /\ DOMAIN CallsOf = {"demo", "local", "remote"}
  /\ Len(CallsOf["demo"]) = 3 /\ Len(CallsOf["local"]) = 4 /\ Len(CallsOf["remote"]) = 4
  /\ Follows["backend"] = "api" /\ Follows["api"] = "bind" /\ Follows["bind"] = "demo"
  /\ Follows["demo"] = "local" /\ Follows["local"] = "bind_api"
  /\ Follows["bind_api"] = "remote" /\ Follows["remote"] = "done"
BY DEF Follows, CallsOf, DemoCalls, ConsumerCalls

\* Every stage has at least one call.
LEMMA LastFacts ==
  ASSUME NEW part
  PROVE  /\ LastCall(part) \in Nat /\ LastCall(part) >= 1
         /\ part \in DOMAIN CallsOf => LastCall(part) = Len(CallsOf[part])
         /\ part \notin DOMAIN CallsOf => LastCall(part) = 1
BY StageFacts DEF LastCall

\* The first call of the next part, when this one has no more calls.
LEMMA NextPart ==
  ASSUME IInv, UNCHANGED <<environ, stuck>>, stage' \in DOMAIN Follows \cup Stopped, call' = 1
  PROVE  HostTypes'
<1>1. 1 \in 1..LastCall(stage')
  BY LastFacts
<1> QED
  BY <1>1 DEF IInv, HostTypes, LastCall

\* A host that starts has reached nothing yet.
LEMMA InitInv == Init => IInv
<1> SUFFICES ASSUME Init PROVE IInv
  OBVIOUS
<1>1. DirectoryProofs!IInv
  BY HostNames, SameInit, DirectoryProofs!InitInv DEF Init
<1>2. HostTypes
  <2>1. stage = "backend" /\ call = 1 /\ stuck = FALSE
    BY DEF Init
  <2>2. stage \in DOMAIN Follows
    BY <2>1, StageFacts
  <2>3. call \in 1..LastCall(stage)
    BY <2>1, LastFacts
  <2>4. environ \in [mode : {"compile", "rest", "other"}, urls : SUBSET Services]
    BY DEF Init
  <2> QED
    BY <2>1, <2>2, <2>3, <2>4 DEF HostTypes
<1>3. Reached
  BY DEF Init, Directory!Init, Reached
<1> QED
  BY <1>1, <1>2, <1>3 DEF IInv

\* A service without a URL is passed over.
LEMMA NoUrlInv ==
  ASSUME IInv, NEW k \in Services, NoUrl(k)
  PROVE  HostTypes' /\ Reached'
<1>1. stage \in {"backend", "api"} /\ stage' = Follows[stage]
      /\ UNCHANGED <<directoryVars, environ, call, stuck>>
  BY DEF NoUrl, GoOn, Services
<1>2. call = 1
  BY <1>1, StageFacts, LastFacts DEF IInv, HostTypes
<1>3. HostTypes'
  BY <1>1, <1>2, NextPart, StageFacts
<1> QED
  BY <1>1, <1>3, StageFacts DEF IInv, Reached, directoryVars, Validated

\* The registration main awaits is that of the service it is at.
LEMMA RegisterInv ==
  ASSUME IInv, NEW k \in Services, Register(k)
  PROVE  HostTypes' /\ Reached'
<1>1. stage \in {"backend", "api"} /\ UNCHANGED <<bound, environ, call, stuck>>
      /\ stage' \in {stage, Follows[stage]}
  BY DEF Register, GoOn, Stay, mainVars, Services, Directory!BeginRegister,
         Directory!Fetch, Directory!Accept, Directory!Reject
<1>2. HostTypes'
  <2>1. call = 1
    BY <1>1, StageFacts, LastFacts DEF IInv, HostTypes
  <2> QED
    BY <1>1, <2>1, NextPart, StageFacts
<1>3. ASSUME NEW l \in Services, registering'[l].stage # "idle"
      PROVE  registering'[l].reg = Registration(l)
  <2>1. DOMAIN registering = Services
        /\ \A h \in Services : registering[h] \in
             [stage : DirectoryProofs!Stages,
              reg : {Registration(h2) : h2 \in Services} \cup {Nothing},
              doc : DirectoryProofs!Names \cup {Nothing}]
    BY DEF IInv, DirectoryProofs!IInv, DirectoryProofs!TypeOK
  <2>2. CASE Directory!BeginRegister(k, Registration(k))
    BY <1>3, <2>1, <2>2 DEF Directory!BeginRegister, IInv, Reached
  <2>3. CASE Directory!Fetch(k) \/ Directory!Accept(k) \/ Directory!Reject(k)
    <3>1. registering[k].stage # "idle" /\ DOMAIN registering' = Services
          /\ registering'[k].reg = registering[k].reg
          /\ \A h \in Services : h # k => registering'[h] = registering[h]
      BY <2>1, <2>3 DEF Directory!Fetch, Directory!Accept, Directory!Reject
    <3> QED
      BY <1>3, <3>1 DEF IInv, Reached
  <2> QED
    BY <2>2, <2>3 DEF Register
<1> QED
  BY <1>1, <1>2, <1>3, StageFacts DEF Reached

\* The directory entry main binds the backend to, or the want of one.
LEMMA BindBackendInv ==
  ASSUME IInv, BindBackend
  PROVE  HostTypes' /\ Reached'
<1>1. stage = "bind" /\ stage' \in {"demo", "panicked", "exited"} /\ UNCHANGED registering
      /\ UNCHANGED <<environ, call, stuck>>
  BY StageFacts DEF BindBackend, GoOn, LeaveFor, directoryVars, Directory!Bind
<1>2. HostTypes'
  <2>1. call = 1
    BY <1>1, StageFacts, LastFacts DEF IInv, HostTypes
  <2> QED
    BY <1>1, <2>1, NextPart, StageFacts DEF Stopped
<1>3. environ.mode = "rest" /\ stage' = "demo" => Wired("backend")'
  BY StageFacts, BindWires DEF BindBackend, GoOn, LeaveFor, Services
<1>4. stage' = "panicked" => environ.mode = "rest" /\ ~Validated("backend")
  BY StageFacts, AcceptedResolves DEF BindBackend, GoOn, LeaveFor, Services, PrefixOf
<1> QED
  BY <1>1, <1>2, <1>3, <1>4 DEF IInv, Reached, Validated

\* The same of the API.
LEMMA BindApiInv ==
  ASSUME IInv, BindApi
  PROVE  HostTypes' /\ Reached'
<1>1. stage = "bind_api" /\ stage' \in {"remote", "done"} /\ UNCHANGED registering
      /\ UNCHANGED <<environ, call, stuck>>
  BY StageFacts DEF BindApi, GoOn, LeaveFor, directoryVars, Directory!Bind
<1>2. HostTypes'
  <2>1. call = 1
    BY <1>1, StageFacts, LastFacts DEF IInv, HostTypes
  <2> QED
    BY <1>1, <2>1, NextPart, StageFacts DEF Stopped
<1>3. stage' = "remote" => Wired("api")'
  BY StageFacts, BindWires DEF BindApi, LeaveFor, Services
<1>4. stage' = "remote" /\ Wired("backend") => Wired("backend")'
  <2>1. bound'["backend"] = bound["backend"]
    <3>1. DOMAIN bound = Services
      BY DEF IInv, DirectoryProofs!IInv, DirectoryProofs!TypeOK
    <3> QED
      BY <3>1 DEF BindApi, Directory!Bind, LeaveFor, directoryVars, Services
  <2> QED
    BY <2>1, VouchedStays DEF Wired
<1> QED
  BY <1>1, <1>2, <1>3, <1>4 DEF IInv, Reached, Validated

\* Calls do not touch what was wired.
LEMMA CallInv ==
  ASSUME IInv, Call
  PROVE  HostTypes' /\ Reached'
<1>1. stage \in DOMAIN CallsOf /\ UNCHANGED <<directoryVars, environ, stuck>>
  BY DEF Call
<1>2. PICK next \in {call + 1} \cup
               (IF stage # "demo" /\ call = 1 THEN {call + 2} ELSE {}) :
        IF next > Len(CallsOf[stage])
        THEN stage' = Follows[stage] /\ call' = 1
        ELSE call' = next /\ UNCHANGED stage
  BY DEF Call
<1>3. /\ call \in 1..LastCall(stage) /\ LastCall(stage) \in Nat
      /\ LastCall(stage) = Len(CallsOf[stage])
  BY <1>1, LastFacts DEF IInv, HostTypes
<1>4. next \in Nat /\ next >= 1
  BY <1>2, <1>3
<1>5. HostTypes'
  <2>1. CASE next > LastCall(stage)
    BY <1>1, <1>2, <1>3, <2>1, NextPart, StageFacts DEF Stopped
  <2>2. CASE ~(next > LastCall(stage))
    <3>1. call' \in 1..LastCall(stage) /\ stage' = stage
      BY <1>2, <1>3, <1>4, <2>2
    <3> QED
      BY <1>1, <3>1 DEF IInv, HostTypes, LastCall
  <2> QED
    BY <2>1, <2>2
<1>6. stage' \in {stage, Follows[stage]}
  BY <1>2
<1>7. \A k \in Services : Wired(k) => Wired(k)'
  BY <1>1, VouchedStays DEF Wired, directoryVars
<1> QED
  BY <1>1, <1>5, <1>6, <1>7, StageFacts DEF IInv, Reached, Validated, directoryVars, Services

\* Nor do a stream that does not end, or the services.
LEMMA OtherInv ==
  ASSUME IInv, Stall \/ (\E k \in Services : Redeploy(k)) \/ UNCHANGED vars
  PROVE  HostTypes' /\ Reached'
<1>1. UNCHANGED <<registering, bound, environ, stage, call>> /\ stuck' \in {stuck, TRUE}
  BY DEF Stall, Redeploy, Stay, Directory!Deploy, vars, directoryVars, mainVars
<1>2. HostTypes'
  BY <1>1 DEF IInv, HostTypes, LastCall
<1>3. \A k \in Services : Wired(k) => Wired(k)'
  BY <1>1, VouchedStays DEF Wired
<1> QED
  BY <1>1, <1>2, <1>3 DEF IInv, Reached, Validated, Services

\* The directory keeps its own invariant; the rest is one lemma per action
\* of the host.
LEMMA NextInv == IInv /\ [Next]_vars => IInv'
<1> SUFFICES ASSUME IInv, [Next]_vars PROVE IInv'
  OBVIOUS
<1>1. DirectoryProofs!IInv'
  BY HostStep, HostNames, DirectoryProofs!NextInv DEF IInv
<1>2. HostTypes' /\ Reached'
  BY NoUrlInv, RegisterInv, BindBackendInv, BindApiInv, CallInv, OtherInv DEF Next, Main
<1> QED
  BY <1>1, <1>2 DEF IInv

\* Main only gets as far as what the directory vouches for takes it.
THEOREM Invariance == Spec => []IInv
  BY InitInv, NextInv, PTL DEF Spec

-----------------------------------------------------------------------------
(* The theorems.                                                           *)

\* The host is at one of its stages, at a call that stage has, with a
\* well-formed directory.
THEOREM TypeCorrect == Spec => []TypeOK
<1>1. IInv => TypeOK
  BY SameTypes DEF IInv, DirectoryProofs!IInv, HostTypes, LastCall, TypeOK
<1> QED
  BY <1>1, Invariance, PTL

\* Whatever runs on a remote binding runs on a client of its own contract, for
\* an entry that was validated for that contract.
THEOREM ClientsWiredRight == Spec => []WiredRight
<1>1. IInv => WiredRight
  BY StageFacts DEF IInv, Reached, Wired, WiredRight, PrefixOf
<1> QED
  BY <1>1, Invariance, PTL

\* The host only gives up for want of a backend when none was validated.
THEOREM PanicsExplained == Spec => []PanicExplained
<1>1. IInv => PanicExplained
  BY DEF IInv, Reached, PanicExplained
<1> QED
  BY <1>1, Invariance, PTL
=============================================================================
