----------------------- MODULE ServiceDirectoryProofs -----------------------
(***************************************************************************)
(* Theorems about ServiceDirectory, for every set of contracts, documents, *)
(* registrations, hosts and clients.                                       *)
(***************************************************************************)
EXTENDS ServiceDirectory, FiniteSetTheorems, FunctionTheorems, TLAPS

-----------------------------------------------------------------------------
(* What validation guarantees of a contract, for every trait and document. *)

\* The traits the generator is meant for: methods of POST, with a path each.
Regular(trait) == PostOnly(trait) /\ OnePerPath(trait)

\* The last of a single index is that index.
LEMMA FinalOfOne == \A i \in Nat : Final({i}) = i
  BY DEF Final

\* The document of a regular trait describes each method at its own path.
LEMMA Described ==
  ASSUME NEW trait, DOMAIN trait \subseteq Nat, Regular(trait), NEW i \in DOMAIN trait
  PROVE  LET p == extract_endpoint_path(trait[i])
         IN  /\ p \in DOMAIN openapi_spec(trait)
             /\ DOMAIN openapi_spec(trait)[p] = {"post"}
             /\ openapi_spec(trait)[p]["post"] = Operation(trait[i])
  <1> DEFINE p == extract_endpoint_path(trait[i])
             same == {j \in DOMAIN trait : extract_endpoint_path(trait[j]) = p}
             m == trait[Final(same)]
  <1>1. same = {i}
    BY DEF Regular, OnePerPath
  <1>2. m = trait[i]
    BY <1>1, FinalOfOne
  <1>3. p \in Endpoints(trait)
    BY DEF Endpoints
  <1>4. openapi_spec(trait)[p] = [v \in {extract_http_method(m)} |-> Operation(m)]
    BY <1>3 DEF openapi_spec
  <1>5. extract_http_method(m) = "post"
    BY <1>2 DEF Regular, PostOnly
  <1>6. DOMAIN openapi_spec(trait) = Endpoints(trait)
    BY DEF openapi_spec
  <1> QED
    BY <1>2, <1>3, <1>4, <1>5, <1>6

\* A document that passes for a regular contract has the endpoint of every
\* request the generated client sends: compatibility is known at wiring time.
THEOREM ValidatedServes ==
  ASSUME NEW trait, DOMAIN trait \subseteq Nat, Regular(trait), NEW remote,
         Passes(openapi_spec(trait), remote)
  PROVE  ClientRequests(trait) \subseteq Routes(remote)
  <1> SUFFICES ASSUME NEW i \in DOMAIN trait, ~trait[i].optional
               PROVE  [verb |-> "post", path |-> extract_endpoint_path(trait[i])]
                        \in Routes(remote)
    BY DEF ClientRequests
  <1> DEFINE p == extract_endpoint_path(trait[i])
             spec == openapi_spec(trait)
  <1>1. /\ p \in DOMAIN spec
        /\ DOMAIN spec[p] = {"post"}
        /\ spec[p]["post"] = Operation(trait[i])
    BY Described
  <1>2. ~IsOptional(spec[p])
    BY <1>1 DEF IsOptional, Operation
  <1> HIDE DEF spec, p
  <1>3. p \in DOMAIN remote
    BY <1>1, <1>2 DEF Passes, Missing, spec
  <1>4. "post" \in DOMAIN remote[p]
    <2>1. WrongMethods(spec, remote) = {}
      BY DEF Passes, spec
    <2> QED
      BY <1>1, <1>3, <2>1 DEF WrongMethods
  <1> QED
    BY <1>3, <1>4 DEF Routes, p

\* A service that publishes the document generated from the same trait passes:
\* validation refuses no service built from the contract itself.
THEOREM SelfCompatible ==
  ASSUME NEW trait, openapi_spec(trait) # NoPaths
  PROVE  Passes(openapi_spec(trait), openapi_spec(trait))
  BY DEF Passes, Missing, WrongMethods, WrongContents, ContentFits

\* Rule 5: endpoints a service has beyond those of the contract, of paths the
\* contract does not name, never make a document fail.
THEOREM ExtraEndpointsAllowed ==
  ASSUME NEW expected, NEW remote, NEW more, Passes(expected, remote),
         more # NoPaths,
         DOMAIN remote \subseteq DOMAIN more,
         \A p \in DOMAIN remote : more[p] = remote[p],
         DOMAIN expected \cap DOMAIN more \subseteq DOMAIN remote
  PROVE  Passes(expected, more)
  <1>1. Missing(expected, more) = {}
    BY DEF Passes, Missing
  <1>2. WrongMethods(expected, more) = {}
    BY DEF Passes, WrongMethods
  <1>3. WrongContents(expected, more) = {}
    BY DEF Passes, WrongContents
  <1> QED
    BY <1>1, <1>2, <1>3 DEF Passes

-----------------------------------------------------------------------------
(* Sequences of entries.                                                   *)

\* A non-empty set of indices has a first one.
LEMMA FirstIsIn ==
  ASSUME NEW S, S \subseteq Nat, S # {}
  PROVE  First(S) \in S
  <1> DEFINE R == {ss \in Nat \X Nat : ss[1] < ss[2]}
  <1>1. R = OpToRel(<, Nat)
    BY Zenon DEF OpToRel
  <1>2. IsWellFoundedOn(R, Nat)
    BY <1>1, NatLessThanWellFounded, Zenon
  <1>3. PICK x \in S : \A y \in S : ~ (<<y, x>> \in R)
    <2> HIDE DEF R
    <2> QED
      BY <1>2, WFMin, Zenon
  <1>4. \A a, b \in Nat : a < b => <<a, b>> \in R
    OBVIOUS
  <1> HIDE DEF R
  <1>5. ASSUME NEW y \in S PROVE x <= y
    <2>1. x \in Nat /\ y \in Nat
      OBVIOUS
    <2>2. ~ (y < x)
      BY <1>3, <1>4, <2>1, Zenon
    <2> QED
      BY <2>1, <2>2
  <1> QED
    BY <1>5 DEF First

\* The elements of a sequence are finitely many.
LEMMA ListedIsFinite ==
  ASSUME NEW T, NEW s \in Seq(T)
  PROVE  IsFiniteSet(ToSet(s))
  <1>1. IsFiniteSet(1..Len(s))
    BY FS_Interval
  <1>2. s \in Surjection(1..Len(s), ToSet(s))
    BY Fun_IsSurj DEF ToSet
  <1> QED
    BY <1>1, <1>2, FS_Surjection

\* The reordering of a finite set is a sequence without repetition.
LEMMA Reordered ==
  ASSUME NEW S, IsFiniteSet(S), NEW f \in SetToSeqs(S)
  PROVE  /\ f \in Seq(S)
         /\ \A i, j \in DOMAIN f : f[i] = f[j] => i = j
         /\ ToSet(f) = S
  <1>1. Cardinality(S) \in Nat
    BY FS_CardinalityType
  <1>2. f \in [1..Cardinality(S) -> S]
    BY DEF SetToSeqs
  <1>3. \A i, j \in 1..Cardinality(S) : i # j => f[i] # f[j]
    BY DEF SetToSeqs
  <1>4. f \in Injection(1..Cardinality(S), S)
    BY <1>2, <1>3, Fun_IsInj
  <1>5. /\ IsFiniteSet(1..Cardinality(S))
        /\ Cardinality(1..Cardinality(S)) = Cardinality(S)
    BY <1>1, FS_Interval
  <1>6. f \in Surjection(1..Cardinality(S), S)
    BY <1>4, <1>5, FS_Injection
  <1>7. \A x \in S : \E i \in 1..Cardinality(S) : f[i] = x
    BY <1>6 DEF Surjection
  <1>8. ToSet(f) = S
    BY <1>2, <1>7 DEF ToSet
  <1> QED
    BY <1>1, <1>2, <1>3, <1>8

\* An insertion keeps entries entries, with one for each id, and brings in
\* nothing but the new one.
LEMMA InsertedFacts ==
  ASSUME NEW old \in Seq(AllEntries), OneEach(old), NEW e \in AllEntries,
         NEW new \in Inserted(old, e)
  PROVE  /\ new \in Seq(AllEntries)
         /\ OneEach(new)
         /\ ToSet(new) \subseteq ToSet(old) \cup {e}
         /\ \E i \in DOMAIN new : new[i].id = e.id
         /\ \A i \in DOMAIN old : \E j \in DOMAIN new : new[j].id = old[i].id
  <1>1. CASE \E i \in DOMAIN old : old[i].id = e.id
    <2>1. new = [i \in DOMAIN old |-> IF old[i].id = e.id THEN e ELSE old[i]]
      BY <1>1 DEF Inserted
    <2>2. new \in Seq(AllEntries) /\ DOMAIN new = DOMAIN old
      BY <2>1
    <2>3. \A i \in DOMAIN new : new[i].id = old[i].id
      BY <2>1, <2>2
    <2>4. OneEach(new)
      BY <2>2, <2>3 DEF OneEach
    <2>5. \A i \in DOMAIN new : new[i] = e \/ new[i] = old[i]
      BY <2>1, <2>2
    <2>6. /\ \E i \in DOMAIN new : new[i].id = e.id
          /\ \A i \in DOMAIN old : \E j \in DOMAIN new : new[j].id = old[i].id
      BY <1>1, <2>2, <2>3
    <2> QED
      BY <2>2, <2>4, <2>5, <2>6 DEF ToSet
  <1>2. CASE ~ \E i \in DOMAIN old : old[i].id = e.id
    <2> DEFINE S == ToSet(old) \cup {e}
    <2>1. new \in SetToSeqs(S)
      BY <1>2 DEF Inserted
    <2>2. IsFiniteSet(S)
      BY ListedIsFinite, FS_AddElement
    <2>3. S \subseteq AllEntries
      BY DEF ToSet
    <2>4. \A x, y \in S : x.id = y.id => x = y
      BY <1>2 DEF ToSet, OneEach
    <2> HIDE DEF S
    <2>5. /\ new \in Seq(S)
          /\ \A i, j \in DOMAIN new : new[i] = new[j] => i = j
          /\ ToSet(new) = S
      BY <2>1, <2>2, Reordered
    <2>6. \A i \in DOMAIN new : new[i] \in S
      BY <2>5
    <2>7. new \in Seq(AllEntries)
      BY <2>5, <2>3
    <2>8. OneEach(new)
      BY <2>4, <2>5, <2>6 DEF OneEach
    <2>9. /\ \E i \in DOMAIN new : new[i] = e
          /\ \A i \in DOMAIN old : \E j \in DOMAIN new : new[j] = old[i]
      BY <2>5 DEF ToSet, S
    <2> QED
      BY <2>5, <2>7, <2>8, <2>9 DEF S
  <1> QED
    BY <1>1, <1>2

\* A prefix of a sequence may be compared with any other prefix of it.
LEMMA PrefixesCompare ==
  ASSUME NEW T, NEW s \in Seq(T), NEW t \in Seq(T), NEW u \in Seq(T),
         IsPrefix(s, u), IsPrefix(t, u)
  PROVE  IsPrefix(s, t) \/ IsPrefix(t, s)
  <1>1. /\ Len(s) <= Len(u) /\ \A i \in 1..Len(s) : s[i] = u[i]
        /\ Len(t) <= Len(u) /\ \A i \in 1..Len(t) : t[i] = u[i]
    BY DEF IsPrefix
  <1>2. CASE Len(s) <= Len(t)
    BY <1>1, <1>2 DEF IsPrefix
  <1>3. CASE Len(t) <= Len(s)
    BY <1>1, <1>3 DEF IsPrefix
  <1> QED
    BY <1>2, <1>3

-----------------------------------------------------------------------------
(* The invariant.                                                          *)

\* Where entries, registrations in hand and bindings come from.
Provenance ==
  /\ \A i \in DOMAIN entries : Vouched(entries[i])
  /\ \A h \in Hosts : registering[h].stage \in {"fetching", "fetched"} =>
       registering[h].reg \in Registrations \ Manual
  /\ \A h \in Hosts : registering[h].stage = "fetched" => registering[h].doc \in Names
  /\ \A h \in Hosts : registering[h].stage = "accepted" =>
       /\ registering[h].reg \in Registrations
       /\ \E i \in DOMAIN entries : entries[i].id = registering[h].reg.id
  /\ \A c \in Clients : bound[c] # Nothing =>
       /\ Vouched(bound[c].entry)
       /\ StartsWith(bound[c].entry.id, Prefix[bound[c].contract])

IInv == TypeOK /\ Provenance

\* An entry the directory vouches for is an entry.
LEMMA VouchedIsEntry == \A e : Vouched(e) => e \in AllEntries
  BY NamesAssumption DEF Vouched, AllEntries

\* An insertion of a vouched entry keeps what IInv says of the entries.
LEMMA InsertedKeeps ==
  ASSUME IInv, NEW e, Vouched(e), entries' \in Inserted(entries, e)
  PROVE  /\ entries' \in Seq(AllEntries)
         /\ OneEach(entries')
         /\ \A i \in DOMAIN entries' : Vouched(entries'[i])
         /\ \E i \in DOMAIN entries' : entries'[i].id = e.id
         /\ \A i \in DOMAIN entries : \E j \in DOMAIN entries' : entries'[j].id = entries[i].id
  <1>1. e \in AllEntries /\ entries \in Seq(AllEntries) /\ OneEach(entries)
    BY VouchedIsEntry DEF IInv, TypeOK
  <1>2. ToSet(entries') \subseteq ToSet(entries) \cup {e}
    BY <1>1, InsertedFacts
  <1>3. \A i \in DOMAIN entries' : Vouched(entries'[i])
    BY <1>2 DEF ToSet, IInv, Provenance
  <1> QED
    BY <1>1, <1>3, InsertedFacts

\* Every sequence is a prefix of itself.
LEMMA PrefixOfItself == \A T : \A s \in Seq(T) : IsPrefix(s, s)
  BY DEF IsPrefix

\* What a resolution gives is an entry whose id starts with what was asked.
LEMMA Resolved ==
  ASSUME IInv, NEW T, NEW asked \in Seq(T), resolve(asked) # Nothing
  PROVE  /\ Vouched(resolve(asked))
         /\ StartsWith(resolve(asked).id, asked)
  <1> DEFINE exact == {i \in DOMAIN entries : entries[i].id = asked}
             some  == {i \in DOMAIN entries : StartsWith(entries[i].id, asked)}
  <1>1. exact \subseteq Nat /\ some \subseteq Nat
    BY DEF IInv, TypeOK
  <1>2. CASE exact # {}
    <2>1. First(exact) \in exact
      BY <1>1, <1>2, FirstIsIn
    <2>2. resolve(asked) = entries[First(exact)]
      BY <1>2 DEF resolve
    <2> QED
      BY <2>1, <2>2, PrefixOfItself DEF StartsWith, IInv, Provenance
  <1>3. CASE exact = {} /\ some # {}
    <2>1. First(some) \in some
      BY <1>1, <1>3, FirstIsIn
    <2>2. resolve(asked) = entries[First(some)]
      BY <1>3 DEF resolve
    <2> QED
      BY <2>1, <2>2 DEF IInv, Provenance
  <1>4. CASE exact = {} /\ some = {}
    BY <1>4 DEF resolve
  <1> QED
    BY <1>2, <1>3, <1>4

-----------------------------------------------------------------------------
(* IInv is inductive, one lemma for each action.                           *)

\* No document is named like a state of a service or like nothing.
LEMMA NamesFacts ==
  /\ Nothing \notin Names /\ Down \notin Names /\ Silent \notin Names
  /\ \A url \in Urls : Deployed[url] \subseteq Names
  /\ \A reg \in Registrations : reg.url \in Urls
  BY DeployedAssumption DEF Names, Urls

\* The directory starts empty and every host and client without anything.
LEMMA InitInv == Init => IInv
  <1> SUFFICES ASSUME Init PROVE IInv
    OBVIOUS
  <1>1. TypeOK
    BY DEF Init, TypeOK, OneEach, Stages
  <1>2. Provenance
    BY DEF Init, Provenance
  <1> QED
    BY <1>1, <1>2 DEF IInv

\* An entry made by hand is vouched for.
LEMMA RegisterInv ==
  ASSUME IInv, NEW reg, Register(reg)
  PROVE  IInv'
  <1>1. Vouched(Entry(reg, Nothing))
    BY DEF Register, Vouched
  <1>2. entries' \in Inserted(entries, Entry(reg, Nothing))
    BY DEF Register
  <1>3. TypeOK'
    BY <1>1, <1>2, InsertedKeeps DEF Register, IInv, TypeOK
  <1>4. Provenance'
    <2>1. UNCHANGED <<registering, bound>>
      BY DEF Register
    <2> QED
      BY <1>1, <1>2, <2>1, InsertedKeeps DEF IInv, Provenance, Vouched
  <1> QED
    BY <1>3, <1>4 DEF IInv

\* A call takes up a registration that is to be validated.
LEMMA BeginInv ==
  ASSUME IInv, NEW h \in Hosts, NEW reg \in Registrations \ Manual, BeginRegister(h, reg)
  PROVE  IInv'
  <1>1. TypeOK'
    BY DEF BeginRegister, IInv, TypeOK, Stages
  <1>2. Provenance'
    BY DEF BeginRegister, IInv, TypeOK, Provenance, Vouched
  <1> QED
    BY <1>1, <1>2 DEF IInv

\* What was fetched is a document, or the call is over.
LEMMA FetchInv ==
  ASSUME IInv, NEW h \in Hosts, Fetch(h)
  PROVE  IInv'
  <1> DEFINE answer == published[registering[h].reg.url]
  <1>1. registering[h].reg \in Registrations \ Manual
    BY DEF Fetch, IInv, Provenance
  <1>2. answer \in Names \cup {Down}
    BY <1>1, NamesFacts DEF Fetch, IInv, TypeOK
  <1> HIDE DEF answer
  <1>3. registering' = [registering EXCEPT
           ![h].doc = IF answer = Down THEN Nothing ELSE answer,
           ![h].stage = IF answer = Down THEN "rejected" ELSE "fetched"]
    BY DEF Fetch, answer
  <1>4. TypeOK'
    BY <1>2, <1>3 DEF Fetch, IInv, TypeOK, Stages
  <1>5. Provenance'
    BY <1>1, <1>2, <1>3 DEF Fetch, IInv, TypeOK, Provenance, Vouched
  <1> QED
    BY <1>4, <1>5 DEF IInv

\* What is accepted passed on the document that was fetched.
LEMMA AcceptInv ==
  ASSUME IInv, NEW h \in Hosts, Accept(h)
  PROVE  IInv'
  <1> DEFINE e == Entry(registering[h].reg, registering[h].doc)
  <1>1. /\ registering[h].reg \in Registrations \ Manual
        /\ registering[h].doc \in Names
    BY DEF Accept, IInv, Provenance
  <1>2. Vouched(e)
    BY <1>1 DEF Accept, Vouched
  <1>3. entries' \in Inserted(entries, e)
    BY DEF Accept
  <1>4. e.id = registering[h].reg.id
    BY DEF Entry
  <1> HIDE DEF e
  <1>5. registering' = [registering EXCEPT ![h].stage = "accepted"]
    BY DEF Accept
  <1>6. TypeOK'
    BY <1>2, <1>3, <1>5, InsertedKeeps DEF Accept, IInv, TypeOK, Stages
  <1>7. Provenance'
    <2>1. \A i \in DOMAIN entries' : Vouched(entries'[i])
      BY <1>2, <1>3, InsertedKeeps
    <2>2. ASSUME NEW g \in Hosts, registering'[g].stage = "accepted"
          PROVE  /\ registering'[g].reg \in Registrations
                 /\ \E i \in DOMAIN entries' : entries'[i].id = registering'[g].reg.id
      <3>1. registering'[g].reg = registering[g].reg
        BY <1>5 DEF IInv, TypeOK
      <3>2. CASE g = h
        BY <1>1, <1>2, <1>3, <1>4, <3>1, <3>2, InsertedKeeps
      <3>3. CASE g # h
        <4>1. registering[g].stage = "accepted"
          BY <1>5, <2>2, <3>3 DEF IInv, TypeOK
        <4> QED
          BY <1>2, <1>3, <3>1, <4>1, InsertedKeeps DEF IInv, Provenance
      <3> QED
        BY <3>2, <3>3
    <2>3. \A c \in Clients : bound'[c] # Nothing =>
            /\ Vouched(bound'[c].entry)
            /\ StartsWith(bound'[c].entry.id, Prefix[bound'[c].contract])
      BY DEF Accept, IInv, Provenance
    <2>4. \A g \in Hosts : registering'[g].stage \in {"fetching", "fetched"} =>
            /\ g # h /\ registering'[g] = registering[g]
      BY <1>5 DEF IInv, TypeOK
    <2>5. /\ \A g \in Hosts : registering'[g].stage \in {"fetching", "fetched"} =>
               registering'[g].reg \in Registrations \ Manual
          /\ \A g \in Hosts : registering'[g].stage = "fetched" =>
               registering'[g].doc \in Names
      BY <2>4 DEF IInv, Provenance
    <2> QED
      BY <2>1, <2>2, <2>3, <2>5 DEF Provenance, Vouched
  <1> QED
    BY <1>6, <1>7 DEF IInv

\* A rejection changes nothing but the call.
LEMMA RejectInv ==
  ASSUME IInv, NEW h \in Hosts, Reject(h)
  PROVE  IInv'
  <1>1. TypeOK'
    BY DEF Reject, IInv, TypeOK, Stages
  <1>2. Provenance'
    BY DEF Reject, IInv, TypeOK, Provenance, Vouched
  <1> QED
    BY <1>1, <1>2 DEF IInv

\* A client is bound to an entry under the prefix of its contract.
LEMMA BindInv ==
  ASSUME IInv, NEW c \in Clients, NEW k \in DOMAIN Contracts, Bind(c, k)
  PROVE  IInv'
  <1> DEFINE e == resolve(Prefix[k])
  <1>1. Prefix[k] \in Seq(Segments)
    BY NamesAssumption
  <1>2. Vouched(e) /\ StartsWith(e.id, Prefix[k])
    BY <1>1, Resolved DEF Bind
  <1>3. e \in AllEntries
    BY <1>2, VouchedIsEntry
  <1>4. bound' = [bound EXCEPT ![c] = [contract |-> k, entry |-> e]]
    BY DEF Bind
  <1>5. UNCHANGED <<published, entries, registering>>
    BY DEF Bind
  <1> HIDE DEF e
  <1>6. TypeOK'
    BY <1>3, <1>4, <1>5 DEF IInv, TypeOK
  <1>7. Provenance'
    BY <1>2, <1>4, <1>5 DEF IInv, TypeOK, Provenance, Vouched
  <1> QED
    BY <1>6, <1>7 DEF IInv

\* Services come and go without the directory.
LEMMA DeployInv ==
  ASSUME IInv, NEW url \in Urls, Deploy(url)
  PROVE  IInv'
  <1>1. TypeOK'
    BY NamesFacts DEF Deploy, IInv, TypeOK
  <1>2. Provenance'
    BY DEF Deploy, IInv, Provenance, Vouched
  <1> QED
    BY <1>1, <1>2 DEF IInv

\* Every step keeps IInv.
LEMMA NextInv == IInv /\ [Next]_vars => IInv'
  <1> SUFFICES ASSUME IInv, [Next]_vars PROVE IInv'
    OBVIOUS
  <1>1. CASE Next
    BY <1>1, RegisterInv, BeginInv, FetchInv, AcceptInv, RejectInv, BindInv, DeployInv
       DEF Next
  <1>2. CASE UNCHANGED vars
    BY <1>2 DEF vars, IInv, TypeOK, Provenance, Vouched
  <1> QED
    BY <1>1, <1>2

\* The invariant every theorem below rests on: entries, registrations in hand
\* and bindings are what validation made them.
THEOREM Invariance == Spec => []IInv
  BY InitInv, NextInv, PTL DEF Spec

-----------------------------------------------------------------------------
(* The theorems.                                                           *)

\* The state of the directory is well formed, with one entry for each id.
THEOREM TypeCorrect == Spec => []TypeOK
  <1>1. IInv => TypeOK
    BY DEF IInv
  <1> QED
    BY <1>1, Invariance, PTL

\* Every entry not made by hand passed validation on a fetched document.
THEOREM OnlyPassed == Spec => []EntriesPassed
  <1>1. IInv => EntriesPassed
    BY DEF IInv, Provenance, EntriesPassed, Listed, ToSet
  <1> QED
    BY <1>1, Invariance, PTL

\* What IInv says of accepted registrations is enough to resolve them.
LEMMA InvFinds == IInv => AcceptedIsFound
  <1> SUFFICES ASSUME IInv, NEW h \in Hosts, registering[h].stage = "accepted"
               PROVE  LET reg == registering[h].reg
                      IN  /\ resolve(reg.id) # Nothing /\ resolve(reg.id).id = reg.id
                          /\ resolve(Prefix[reg.contract]) # Nothing
    BY DEF AcceptedIsFound
  <1> DEFINE reg == registering[h].reg
  <1>1. reg \in Registrations
    BY DEF IInv, Provenance
  <1>2. PICK i \in DOMAIN entries : entries[i].id = reg.id
    BY DEF IInv, Provenance
  <1>3. \A j \in DOMAIN entries : entries[j] # Nothing
    BY NothingAssumption DEF IInv, TypeOK
  <1>4. DOMAIN entries \subseteq Nat
    BY DEF IInv, TypeOK
  <1>5. resolve(reg.id) # Nothing /\ resolve(reg.id).id = reg.id
    <2> DEFINE exact == {j \in DOMAIN entries : entries[j].id = reg.id}
    <2>1. exact # {} /\ exact \subseteq Nat
      BY <1>2, <1>4
    <2>2. First(exact) \in exact
      BY <2>1, FirstIsIn
    <2>3. resolve(reg.id) = entries[First(exact)]
      BY <2>1 DEF resolve
    <2> QED
      BY <1>3, <2>2, <2>3
  <1>6. resolve(Prefix[reg.contract]) # Nothing
    <2> DEFINE asked == Prefix[reg.contract]
               exact == {j \in DOMAIN entries : entries[j].id = asked}
               some  == {j \in DOMAIN entries : StartsWith(entries[j].id, asked)}
    <2>1. i \in some
      BY <1>1, <1>2, NamesAssumption DEF StartsWith
    <2>2. some \subseteq Nat /\ exact \subseteq Nat
      BY <1>4
    <2>3. CASE exact # {}
      <3>1. First(exact) \in exact
        BY <2>2, <2>3, FirstIsIn
      <3>2. resolve(asked) = entries[First(exact)]
        BY <2>3 DEF resolve
      <3> QED
        BY <1>3, <3>1, <3>2
    <2>4. CASE exact = {}
      <3>1. First(some) \in some
        BY <2>1, <2>2, FirstIsIn
      <3>2. resolve(asked) = entries[First(some)]
        BY <2>1, <2>4 DEF resolve
      <3> QED
        BY <1>3, <3>1, <3>2
    <2> QED
      BY <2>3, <2>4
  <1> QED
    BY <1>5, <1>6

\* A registration that was accepted is found by its id and by the prefix of
\* its contract.
THEOREM Found == Spec => []AcceptedIsFound
  BY InvFinds, Invariance, PTL

\* Compatibility at wiring time: as long as a service publishes the document
\* it was validated on, it has every endpoint that a client bound to it by the
\* prefix of a contract of POST methods asks for.
THEOREM WiringServes == Spec => []CallsServed
  <1>1. IInv => CallsServed
    <2> SUFFICES ASSUME IInv, NEW c \in Clients, bound[c] # Nothing,
                        PostOnly(Contracts[bound[c].contract]),
                        OnePerPath(Contracts[bound[c].contract]),
                        bound[c].entry.seen # Nothing
                 PROVE  <<bound[c].contract, bound[c].entry.seen>> \in Serving
      BY DEF CallsServed, Served
    <2> DEFINE k == bound[c].contract
               e == bound[c].entry
    <2>1. /\ k \in DOMAIN Contracts
          /\ Vouched(e) /\ IsPrefix(Prefix[k], e.id)
      BY DEF IInv, TypeOK, Provenance, StartsWith
    <2>2. PICK reg \in Registrations \ Manual, doc \in Names :
            e = Entry(reg, doc) /\ Fits(reg, doc)
      <3>1. \A reg : Entry(reg, Nothing).seen = Nothing
        BY DEF Entry
      <3>2. e.seen # Nothing
        OBVIOUS
      <3> HIDE DEF e
      <3> QED
        BY <2>1, <3>1, <3>2 DEF Vouched
    <2>3. /\ e.id = reg.id /\ e.seen = doc
          /\ reg.contract \in DOMAIN Contracts
          /\ IsPrefix(Prefix[reg.contract], reg.id)
      BY <2>2, NamesAssumption DEF Entry
    <2>4. reg.contract = k
      <3>1. /\ Prefix[k] \in Seq(Segments) /\ reg.id \in Seq(Segments)
            /\ Prefix[reg.contract] \in Seq(Segments)
        BY <2>1, <2>3, NamesAssumption
      <3>2. IsPrefix(Prefix[k], Prefix[reg.contract])
              \/ IsPrefix(Prefix[reg.contract], Prefix[k])
        BY <2>1, <2>3, <3>1, PrefixesCompare
      <3> QED
        BY <2>1, <2>3, <3>2, NamesAssumption
    <2>5. Passes(openapi_spec(Contracts[k]), Documents[doc])
      BY <2>1, <2>2, <2>4 DEF Fits, Fitting, Expected
    <2>6. ClientRequests(Contracts[k]) \subseteq Routes(Documents[doc])
      <3>1. DOMAIN Contracts[k] \subseteq Nat
        BY <2>1, NamesAssumption
      <3>2. Regular(Contracts[k])
        BY DEF Regular
      <3> QED
        BY <2>5, <3>1, <3>2, ValidatedServes
    <2>7. Documents[doc] # NoPaths
      BY <2>5 DEF Passes
    <2> QED
      BY <2>1, <2>3, <2>6, <2>7 DEF Serving
  <1> QED
    BY <1>1, Invariance, PTL
=============================================================================
