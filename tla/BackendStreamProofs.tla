------------------------- MODULE BackendStreamProofs -------------------------
(* Theorems about BackendStream, whatever the consumer, the connection and *)
(* the congestion do.  What is known of the parser is not proved again:    *)
(* ParserProofs are the theorems about SseParser, instantiated with the    *)
(* wire and the blocks of RestStream.                                      *)
EXTENDS BackendStream, Integers, SequenceTheorems, TLAPS

ParserProofs == INSTANCE SseParserProofs WITH Blocks <- Rest!Kinds, MaxBlocks <- 5

-----------------------------------------------------------------------------
(* The events of a plan.                                                   *)

\* The first n of them.
First(events, n) == SubSeq(events, 1, n)

\* The next one more.
LEMMA FirstNext ==
  ASSUME NEW T, NEW p \in Seq(T), NEW n \in 0..(Len(p) - 1)
  PROVE  /\ First(p, n) \in Seq(T) /\ Len(First(p, n)) = n
         /\ Append(First(p, n), p[n + 1]) = First(p, n + 1)
BY DEF First

\* All of them, and none.
LEMMA FirstAll ==
  ASSUME NEW T, NEW p \in Seq(T)
  PROVE  /\ First(p, Len(p)) = p /\ First(p, 0) = << >>
         /\ \A n \in 0..Len(p) : First(p, n) \in Seq(T) /\ Len(First(p, n)) = n
BY DEF First

\* The events from m to n, as a queue.
LEMMA QueueFacts ==
  ASSUME NEW T, NEW p \in Seq(T), NEW n \in 0..Len(p), NEW m \in 0..n,
         NEW q, q = SubSeq(p, m + 1, n)
  PROVE  /\ q \in Seq(T) /\ Len(q) = n - m
         /\ q # << >> => /\ m < n /\ Head(q) = p[m + 1]
                         /\ Tail(q) = SubSeq(p, (m + 1) + 1, n)
         /\ n < Len(p) => Append(q, p[n + 1]) = SubSeq(p, m + 1, n + 1)
<1>1. q \in Seq(T) /\ Len(q) = n - m
  OBVIOUS
<1>2. ASSUME q # << >>
      PROVE  /\ m < n /\ Head(q) = p[m + 1]
             /\ Tail(q) = SubSeq(p, (m + 1) + 1, n)
  <2>1. m < n
    BY <1>1, <1>2
  <2>2. Head(q) = p[m + 1]
    BY <2>1
  <2>3. Tail(q) = SubSeq(p, (m + 1) + 1, n)
    BY <2>1
  <2> QED
    BY <2>1, <2>2, <2>3
<1>3. n < Len(p) => Append(q, p[n + 1]) = SubSeq(p, m + 1, n + 1)
  OBVIOUS
<1> QED
  BY <1>1, <1>2, <1>3

-----------------------------------------------------------------------------
(* The inductive invariant.                                                *)

\* With a local provider: the consumer has the first of the events that the
\* task has sent, and as long as it listens, the channel has the others.
EmailInv ==
  /\ recipient \in {"given", "empty"}
  /\ stage \in {"asked", "open", "ended", "dropped", "refused"}
  /\ producer \in 0..Len(Email!Plan)
  /\ stage \in {"asked", "refused"} => producer = 0
  /\ \E m \in 0..producer :
       /\ emitted = First(Email!Plan, m)
       /\ channel = IF stage = "open" THEN SubSeq(Email!Plan, m + 1, producer) ELSE << >>
       /\ stage = "ended" => m = Len(Email!Plan)

\* n events of the plan are on the wire, and one keep-alive at most behind each.
OnWire(n) ==
  /\ ParserProofs!Events(script) = First(Rest!Plan, n)
  /\ IF n = 0 THEN script = << >> /\ ~congested
              ELSE Len(script) <= IF congested THEN 2 * n ELSE 2 * n - 1
  /\ server \in {"none", "refused", "Start"} => n = 0
  /\ server = "Sending" => n = 1
  /\ server = "Delivering" => n = 2
  /\ server = "Done" => n = 3

\* No two keep-alives are on the wire one behind the other.
Spaced ==
  /\ \A i \in 1..Len(script) - 1 : ~(script[i] = "keepalive" /\ script[i + 1] = "keepalive")
  /\ ~congested /\ script # << >> => script[Len(script)] # "keepalive"

RestInv ==
  /\ recipient \in {"given", "empty"}
  /\ stage \in {"asked", "open", "ended", "dropped", "refused", "unknown"}
  /\ server \in {"none", "refused", "Start", "Sending", "Delivering", "Done", "gone"}
  /\ congested \in BOOLEAN
  /\ mode = "ended" <=> stage = "ended"
  /\ ParserProofs!IInv
  /\ \E n \in 0..3 : OnWire(n)
  /\ Spaced

IInv == /\ binding \in {"compile", "rest"}
        /\ binding = "compile" => EmailInv
        /\ binding = "rest" => RestInv

-----------------------------------------------------------------------------
(* The two instances of the parser are the same.                           *)

\* Its text operators.
LEMMA SameText ==
  /\ Rest!Parser!BlockWire = ParserProofs!BlockWire
  /\ Rest!Parser!BlockEvents = ParserProofs!BlockEvents
  /\ \A t : /\ Rest!Parser!Separators(t) = ParserProofs!Separators(t)
            /\ Rest!Parser!Data(t) = ParserProofs!Data(t)
            /\ Rest!Parser!Lossy(t) = ParserProofs!Lossy(t)
            /\ Rest!Parser!IsBlank(t) = ParserProofs!IsBlank(t)
            /\ Rest!Parser!IsEvent(t) = ParserProofs!IsEvent(t)
<1>1. Rest!Parser!BlockWire = ParserProofs!BlockWire
  BY Zenon DEF Rest!Parser!BlockWire, ParserProofs!BlockWire
<1>2. Rest!Parser!BlockEvents = ParserProofs!BlockEvents
  BY Zenon DEF Rest!Parser!BlockEvents, ParserProofs!BlockEvents
<1>3. ASSUME NEW t
      PROVE  /\ Rest!Parser!Separators(t) = ParserProofs!Separators(t)
             /\ Rest!Parser!IsBlank(t) = ParserProofs!IsBlank(t)
             /\ Rest!Parser!IsEvent(t) = ParserProofs!IsEvent(t)
  BY DEF Rest!Parser!Separators, ParserProofs!Separators,
         Rest!Parser!IsBlank, ParserProofs!IsBlank, Rest!Parser!IsEvent, ParserProofs!IsEvent,
         Rest!Parser!Contains, ParserProofs!Contains
<1>4. ASSUME NEW t
      PROVE  Rest!Parser!Lossy(t) = ParserProofs!Lossy(t)
  BY Zenon DEF Rest!Parser!Lossy, ParserProofs!Lossy, Rest!Parser!IsWhole, ParserProofs!IsWhole
<1>5. ASSUME NEW t
      PROVE  Rest!Parser!Data(t) = ParserProofs!Data(t)
  BY Zenon DEF Rest!Parser!Data, ParserProofs!Data, Rest!Parser!Take, ParserProofs!Take,
         Rest!Parser!AddLine, ParserProofs!AddLine
<1> QED
  BY <1>1, <1>2, <1>3, <1>4, <1>5

\* Its steps.
LEMMA SameSteps ==
  /\ Rest!Parser!ParserStep = ParserProofs!ParserStep
  /\ Rest!Parser!Disconnect = ParserProofs!Disconnect
  /\ Rest!Parser!Expire = ParserProofs!Expire
  /\ Rest!Parser!Flowing = ParserProofs!Flowing
<1>1. Rest!Parser!ParseBlock = ParserProofs!ParseBlock
  BY SameText DEF Rest!Parser!ParseBlock, ParserProofs!ParseBlock,
       Rest!Parser!After, ParserProofs!After, Rest!Parser!Min, ParserProofs!Min,
       Rest!Parser!NothingParsed, ParserProofs!NothingParsed
<1>2. Rest!Parser!NoBlock = ParserProofs!NoBlock
  BY SameText DEF Rest!Parser!NoBlock, ParserProofs!NoBlock,
       Rest!Parser!NothingParsed, ParserProofs!NothingParsed
<1>3. Rest!Parser!Flowing = ParserProofs!Flowing
  BY DEF Rest!Parser!Flowing, ParserProofs!Flowing
<1>4. Rest!Parser!ReadChunk = ParserProofs!ReadChunk
  BY <1>3, SameText DEF Rest!Parser!ReadChunk, ParserProofs!ReadChunk,
       Rest!Parser!Extend, ParserProofs!Extend
<1>5. Rest!Parser!ReadError = ParserProofs!ReadError
  BY DEF Rest!Parser!ReadError, ParserProofs!ReadError
<1>6. Rest!Parser!ReadEnd = ParserProofs!ReadEnd
  BY SameText DEF Rest!Parser!ReadEnd, ParserProofs!ReadEnd
<1>7. /\ Rest!Parser!Disconnect = ParserProofs!Disconnect
      /\ Rest!Parser!Expire = ParserProofs!Expire
  BY <1>3 DEF Rest!Parser!Disconnect, ParserProofs!Disconnect,
       Rest!Parser!Expire, ParserProofs!Expire,
       Rest!Parser!parserVars, ParserProofs!parserVars
<1> QED
  BY <1>1, <1>2, <1>3, <1>4, <1>5, <1>6, <1>7
  DEF Rest!Parser!ParserStep, ParserProofs!ParserStep

-----------------------------------------------------------------------------
(* The local provider.                                                     *)

\* What the events of the plans are called.
Names == {"started", "resolving", "sending", "queued", "delivered"}

\* The plans are sequences of events.
LEMMA Plans ==
  /\ Email!Plan \in Seq(Seq(Names)) /\ Len(Email!Plan) = 4
  /\ Rest!Plan \in Seq(Seq(Names)) /\ Len(Rest!Plan) = 3
<1> DEFINE T == Seq(Names)
<1>1. /\ <<"started">> \in T /\ <<"resolving">> \in T /\ <<"sending">> \in T
      /\ <<"delivered">> \in T /\ <<"queued">> \in T
  BY DEF Names
<1>2. \A a, b, c, d \in T : <<a, b, c, d>> \in Seq(T) /\ Len(<<a, b, c, d>>) = 4
  OBVIOUS
<1>3. \A a, b, c \in T : <<a, b, c>> \in Seq(T) /\ Len(<<a, b, c>>) = 3
  OBVIOUS
<1> HIDE DEF T
<1>4. Email!Plan \in Seq(T) /\ Len(Email!Plan) = 4
  BY <1>1, <1>2, Zenon DEF Email!Plan
<1>5. Rest!Plan \in Seq(T) /\ Len(Rest!Plan) = 3
  BY <1>1, <1>3, Zenon DEF Rest!Plan
<1> QED
  BY <1>4, <1>5 DEF T

\* The invariant holds before the call.
LEMMA EmailInit == Email!Init => EmailInv
<1> SUFFICES ASSUME Email!Init PROVE EmailInv
  OBVIOUS
<1>1. First(Email!Plan, 0) = << >>
  BY Plans, FirstAll
<1>2. /\ emitted = First(Email!Plan, 0) /\ producer = 0 /\ stage = "asked" /\ channel = << >>
      /\ recipient \in {"given", "empty"}
  BY <1>1 DEF Email!Init
<1>3. 0 \in 0..Len(Email!Plan) /\ 0 \in 0..0
  BY Plans
<1>4. \E m \in 0..producer :
        /\ emitted = First(Email!Plan, m)
        /\ channel = IF stage = "open" THEN SubSeq(Email!Plan, m + 1, producer) ELSE << >>
        /\ stage = "ended" => m = Len(Email!Plan)
  BY <1>2, <1>3
<1> QED
  BY <1>2, <1>3, <1>4 DEF EmailInv

\* While somebody listens there is room in the channel: no send ever waits.
LEMMA RoomLeft ==
  ASSUME EmailInv
  PROVE  Len(channel) < Email!Capacity /\ Len(channel) \in Nat
<1> DEFINE p == Email!Plan
<1>1. p \in Seq(Seq(Names)) /\ Len(p) = 4
  BY Plans
<1>2. producer \in 0..4
  BY <1>1 DEF EmailInv
<1>3. PICK m \in 0..producer :
        channel = IF stage = "open" THEN SubSeq(p, m + 1, producer) ELSE << >>
  BY DEF EmailInv
<1> HIDE DEF p
<1>4. CASE stage = "open"
  <2>1. channel = SubSeq(p, m + 1, producer) /\ producer \in 0..Len(p)
    BY <1>1, <1>2, <1>3, <1>4
  <2>2. Len(channel) = producer - m
    BY <1>1, <1>3, <2>1, QueueFacts
  <2> QED
    BY <1>2, <2>2 DEF Email!Capacity
<1>5. CASE stage # "open"
  BY <1>3, <1>5 DEF Email!Capacity
<1> QED
  BY <1>4, <1>5

\* Each step keeps it, and is a step of the abstract stream.
LEMMA EmailKeeps ==
  ASSUME EmailInv, Email!Next, binding = "compile", UNCHANGED binding
  PROVE  EmailInv' /\ [Stream!Next]_(Stream!vars)
<1> DEFINE p == Email!Plan
           plan == [events |-> Bound, remote |-> binding = "rest"]
<1>1. p \in Seq(Seq(Names)) /\ Len(p) = 4
  BY Plans
<1>2. PICK m \in 0..producer :
        /\ emitted = First(p, m)
        /\ channel = IF stage = "open" THEN SubSeq(p, m + 1, producer) ELSE << >>
        /\ stage = "ended" => m = Len(p)
  BY DEF EmailInv
<1>3. /\ plan.events = p /\ plan.remote = FALSE /\ plan' = plan
  BY DEF Bound
<1>4. /\ recipient \in {"given", "empty"}
      /\ stage \in {"asked", "open", "ended", "dropped", "refused"}
      /\ producer \in 0..Len(p)
      /\ stage \in {"asked", "refused"} => producer = 0
  BY DEF EmailInv
<1> HIDE DEF p, plan
<1> DEFINE At(k) == /\ emitted = First(p, k)
                    /\ channel = IF stage = "open" THEN SubSeq(p, k + 1, producer) ELSE << >>
                    /\ stage = "ended" => k = Len(p)
<1>5. ASSUME NEW k \in 0..producer', At(k)', recipient' \in {"given", "empty"},
             stage' \in {"asked", "open", "ended", "dropped", "refused"},
             producer' \in 0..Len(p), stage' \in {"asked", "refused"} => producer' = 0
      PROVE  EmailInv'
  BY <1>5 DEF EmailInv, p
<1>6. CASE Email!Refuse \/ Email!Spawn
  <2>1. /\ stage = "asked" /\ stage' \in {"refused", "open"}
        /\ UNCHANGED <<recipient, emitted, producer, channel>>
    BY <1>6 DEF Email!Refuse, Email!Spawn
  <2>2. producer = 0 /\ m = 0
    BY <1>2, <1>4, <2>1
  <2>3. SubSeq(p, 1, 0) = << >>
    BY SubSeqEmpty
  <2>4. At(m)'
    BY <1>2, <2>1, <2>2, <2>3
  <2>5. EmailInv'
    BY <1>2, <1>4, <1>5, <2>1, <2>2, <2>4
  <2>6. Stream!Answer
    BY <1>3, <2>1 DEF Stream!Answer, plan
  <2> QED
    BY <2>5, <2>6 DEF Stream!Next
<1>7. CASE Email!Send
  <2>1. /\ stage \notin {"asked", "refused"} /\ producer < Len(p) /\ producer' = producer + 1
        /\ UNCHANGED <<recipient, stage, emitted>>
        /\ channel' = IF stage = "open" THEN Append(channel, p[producer + 1]) ELSE channel
    BY <1>7 DEF Email!Send, Email!Running, Email!Spawned, Email!Listening, p
  <2>2. m \in 0..producer' /\ producer' \in 0..Len(p)
    BY <1>1, <1>2, <1>4, <2>1
  <2>3. channel' = IF stage = "open" THEN SubSeq(p, m + 1, producer') ELSE << >>
    <3>1. CASE stage = "open"
      <4>1. Append(channel, p[producer + 1]) = SubSeq(p, m + 1, producer + 1)
        BY <1>1, <1>2, <1>4, <2>1, <3>1, QueueFacts
      <4> QED
        BY <2>1, <3>1, <4>1
    <3>2. CASE stage # "open"
      BY <1>2, <2>1, <3>2
    <3> QED
      BY <3>1, <3>2
  <2>4. EmailInv'
    BY <1>2, <1>4, <1>5, <2>1, <2>2, <2>3
  <2>5. UNCHANGED <<plan, emitted, stage>>
    BY <1>3, <2>1
  <2> QED
    BY <2>4, <2>5 DEF Stream!vars, plan
<1>8. CASE Email!Poll
  <2>1. /\ stage = "open" /\ channel # << >> /\ emitted' = Append(emitted, Head(channel))
        /\ channel' = Tail(channel) /\ UNCHANGED <<recipient, stage, producer>>
    BY <1>8 DEF Email!Poll, Email!Listening
  <2>2. m < producer /\ Head(channel) = p[m + 1] /\ Tail(channel) = SubSeq(p, (m + 1) + 1, producer)
    BY <1>1, <1>2, <1>4, <2>1, QueueFacts
  <2>3. /\ m \in 0..(Len(p) - 1) /\ m + 1 \in 0..producer
    BY <1>1, <1>2, <1>4, <2>2
  <2>4. Append(emitted, p[m + 1]) = First(p, m + 1) /\ Len(emitted) = m
    BY <1>1, <1>2, <2>3, FirstNext
  <2>5. At(m + 1)'
    BY <2>1, <2>2, <2>4
  <2>6. EmailInv'
    BY <1>4, <1>5, <2>1, <2>3, <2>5
  <2>7. Stream!Yield
    BY <1>1, <1>3, <2>1, <2>2, <2>3, <2>4 DEF Stream!Yield, plan
  <2> QED
    BY <2>6, <2>7 DEF Stream!Next
<1>9. CASE Email!PollEnd
  <2>1. /\ stage = "open" /\ channel = << >> /\ producer = Len(p) /\ stage' = "ended"
        /\ UNCHANGED <<recipient, emitted, producer, channel>>
    BY <1>9 DEF Email!PollEnd, Email!Listening, p
  <2>2. m = Len(p)
    <3>1. Len(channel) = producer - m
      BY <1>1, <1>2, <1>4, <2>1, QueueFacts
    <3>2. Len(channel) = 0
      BY <2>1
    <3>3. m \in Nat /\ producer \in Nat /\ m <= producer
      BY <1>1, <1>2, <1>4
    <3> QED
      BY <2>1, <3>1, <3>2, <3>3
  <2>3. emitted = p
    BY <1>1, <1>2, <2>2, FirstAll
  <2>4. EmailInv'
    BY <1>2, <1>4, <1>5, <2>1, <2>2
  <2>5. Stream!End
    BY <1>3, <2>1, <2>3 DEF Stream!End, plan
  <2> QED
    BY <2>4, <2>5 DEF Stream!Next
<1>10. CASE Email!Drop
  <2>1. /\ stage = "open" /\ stage' = "dropped" /\ channel' = << >>
        /\ UNCHANGED <<recipient, emitted, producer>>
    BY <1>10 DEF Email!Drop, Email!Listening
  <2>2. EmailInv'
    BY <1>2, <1>4, <1>5, <2>1
  <2>3. Stream!Drop
    BY <1>3, <2>1 DEF Stream!Drop, plan
  <2> QED
    BY <2>2, <2>3 DEF Stream!Next
<1> QED
  BY <1>6, <1>7, <1>8, <1>9, <1>10 DEF Email!Next, Email!Call, Email!Consume

-----------------------------------------------------------------------------
(* The remote provider.                                                    *)

\* The parser knows every kind of block the plugin sends.
LEMMA KindsKnown == ParserProofs!BlocksAssumption
BY DEF ParserProofs!BlocksAssumption, ParserProofs!BlockWire, Rest!Kinds

\* The invariant holds before the call.
LEMMA RestInit == Rest!Init => RestInv
<1> SUFFICES ASSUME Rest!Init PROVE RestInv
  OBVIOUS
<1>1. /\ recipient \in {"given", "empty"} /\ stage = "asked" /\ server = "none"
      /\ congested = FALSE /\ script = << >> /\ rest = << >> /\ source = "open"
      /\ buffer = << >> /\ mode = "parse" /\ emitted = << >>
  BY DEF Rest!Init
<1>2. ParserProofs!IInv
  <2>1. script \in ParserProofs!BoundedSeq(Rest!Kinds, 5)
    <3>1. script \in [1..0 -> Rest!Kinds]
      BY <1>1
    <3>2. 0 \in 0..5
      OBVIOUS
    <3> QED
      BY <3>1, <3>2 DEF ParserProofs!BoundedSeq, ParserProofs!SeqOf
  <2>2. ParserProofs!Wire(script) = << >>
    BY <1>1, KindsKnown, ParserProofs!LaidNothing DEF ParserProofs!Wire
  <2>3. ParserProofs!Init
    BY <1>1, <2>1, <2>2 DEF ParserProofs!Init
  <2> QED
    BY <2>3, KindsKnown, ParserProofs!InitIInv
<1>3. OnWire(0)
  <2>1. ParserProofs!Events(script) = << >>
    BY <1>1, KindsKnown, ParserProofs!LaidNothing DEF ParserProofs!Events
  <2>2. First(Rest!Plan, 0) = << >>
    BY Plans, FirstAll
  <2> QED
    BY <1>1, <2>1, <2>2 DEF OnWire
<1>4. Spaced
  BY <1>1 DEF Spaced
<1>5. \E n \in 0..3 : OnWire(n)
  BY <1>3
<1> QED
  BY <1>1, <1>2, <1>4, <1>5 DEF RestInv

\* The parser's invariant stands when nothing it is about changes.
LEMMA ParserStays ==
  ASSUME ParserProofs!IInv, UNCHANGED <<script, rest, source, buffer, mode, emitted>>
  PROVE  ParserProofs!IInv'
<1>1. UNCHANGED ParserProofs!vars
  BY DEF ParserProofs!vars, ParserProofs!parserVars
<1> QED
  BY <1>1, KindsKnown, ParserProofs!NextKeeps

\* The parser's steps keep it.
LEMMA ParserMoves ==
  ASSUME ParserProofs!IInv,
         Rest!Parser!ParserStep \/ Rest!Parser!Disconnect \/ Rest!Parser!Expire
  PROVE  ParserProofs!IInv'
<1>1. ParserProofs!Next
  BY SameSteps DEF ParserProofs!Next
<1> QED
  BY <1>1, KindsKnown, ParserProofs!NextKeeps

\* What is on the wire stays there.
LEMMA WireStays ==
  ASSUME NEW n, OnWire(n), Spaced, UNCHANGED <<script, congested, server>>
  PROVE  OnWire(n)' /\ Spaced'
<1>1. ParserProofs!Events(script)' = ParserProofs!Events(script)
  OBVIOUS
<1> QED
  BY <1>1 DEF OnWire, Spaced

\* The consumer has the first events of the plan.
LEMMA EmittedIsPlan ==
  ASSUME ParserProofs!IInv, NEW n \in 0..3, OnWire(n)
  PROVE  \E j \in 0..n : emitted = First(Rest!Plan, j)
<1> DEFINE p == Rest!Plan
           E == ParserProofs!Events(script)
           j == Len(emitted)
<1>1. p \in Seq(Seq(Names)) /\ Len(p) = 3
  BY Plans
<1>2. E = First(p, n)
  BY DEF OnWire
<1>3. /\ emitted \in Seq(Seq(ParserProofs!Texts)) /\ Len(emitted) <= Len(E)
      /\ \A e \in 1..Len(emitted) : ParserProofs!Reads(emitted[e], E[e])
  BY KindsKnown, ParserProofs!EventsOfAll
<1> HIDE DEF p, E
<1>4. Len(E) = n /\ \A e \in 1..n : E[e] = p[e]
  <2>1. n \in 0..Len(p)
    BY <1>1
  <2>2. Len(First(p, n)) = n
    BY <1>1, <2>1, FirstAll
  <2>3. \A e \in 1..n : First(p, n)[e] = p[e]
    BY <1>1, <2>1 DEF First
  <2> QED
    BY <1>2, <2>2, <2>3
<1>5. j \in Nat /\ j <= n
  BY <1>3, <1>4
<1>6. ASSUME NEW e \in 1..j
      PROVE  emitted[e] = p[e]
  <2> DEFINE text == emitted[e]
             written == p[e]
  <2>1. e \in 1..n /\ e \in 1..Len(p)
    BY <1>1, <1>5
  <2>2. ParserProofs!Reads(text, written)
    BY <1>3, <1>4, <2>1
  <2>3. text \in Seq(ParserProofs!Texts) /\ written \in Seq(Names)
    <3>1. text \in Seq(ParserProofs!Texts)
      BY <1>3
    <3>2. written \in Seq(Names)
      BY <1>1, <2>1
    <3> QED
      BY <3>1, <3>2
  <2> HIDE DEF text, written
  <2>4. Len(text) = Len(written) /\ DOMAIN written = 1..Len(written)
        /\ \A i \in 1..Len(written) : written[i] \in Names
    BY <2>2, <2>3 DEF ParserProofs!Reads
  <2>5. \A i \in 1..Len(written) : text[i] = written[i]
    BY <2>2, <2>4 DEF ParserProofs!Reads, Names
  <2> QED
    BY <2>3, <2>4, <2>5, SeqEqual DEF text, written
<1>7. emitted = First(p, j)
  <2>1. j \in 0..Len(p)
    <3>1. Len(p) = 3
      BY <1>1
    <3> HIDE DEF j
    <3> QED
      BY <1>5, <3>1
  <2>2. First(p, j) \in Seq(Seq(Names)) /\ Len(First(p, j)) = j
    BY <1>1, <2>1, FirstAll
  <2>3. \A e \in 1..j : First(p, j)[e] = p[e]
    BY <1>1, <2>1 DEF First
  <2> DEFINE f == First(p, j)
  <2>4. Len(emitted) = Len(f) /\ \A e \in 1..Len(emitted) : emitted[e] = f[e]
    BY <1>6, <2>2, <2>3
  <2> HIDE DEF f, j
  <2> QED
    BY <1>3, <2>2, <2>4, SeqEqual DEF f
<1> QED
  BY <1>5, <1>7 DEF p

\* One block more is written.
LEMMA WriteStep ==
  ASSUME ParserProofs!IInv, Spaced, NEW kind \in Rest!Kinds, Rest!Write(kind), Len(script) < 5,
         UNCHANGED <<source, buffer, mode, emitted>>,
         IF kind = "keepalive" THEN ~congested /\ congested' ELSE ~congested'
  PROVE  /\ ParserProofs!IInv' /\ Spaced'
         /\ Len(script) \in Nat /\ Len(script') = Len(script) + 1
         /\ ParserProofs!Events(script)'
              = ParserProofs!Events(script) \o ParserProofs!BlockEvents[kind]
<1> DEFINE N == Len(script)
<1>1. ParserProofs!Written(kind)
  BY SameText DEF ParserProofs!Written, Rest!Write
<1>2. ParserProofs!IInv'
  BY <1>1, KindsKnown, ParserProofs!WriteKeeps
<1>3. ParserProofs!Types /\ script \in Seq(Rest!Kinds)
  BY DEF ParserProofs!IInv, ParserProofs!Types
<1>4. script' = Append(script, kind)
  BY DEF Rest!Write
<1>5. ParserProofs!Events(script)'
        = ParserProofs!Events(script) \o ParserProofs!BlockEvents[kind]
  BY <1>3, <1>4, KindsKnown, ParserProofs!WrittenFacts
<1>6. /\ N \in Nat /\ Len(script') = N + 1 /\ script'[N + 1] = kind
      /\ \A i \in 1..N : script'[i] = script[i]
      /\ N # 0 => script # << >>
  BY <1>3, <1>4
<1>7. Spaced'
  <2> HIDE DEF N
  <2>1. ASSUME NEW i \in 1..((N + 1) - 1)
        PROVE  ~(script'[i] = "keepalive" /\ script'[i + 1] = "keepalive")
    <3>1. i \in 1..N /\ (i = N \/ (i \in 1..(N - 1) /\ i + 1 \in 1..N))
      BY <1>6
    <3>2. CASE i = N
      BY <1>6, <3>1, <3>2 DEF Spaced, N
    <3>3. CASE i # N
      BY <1>6, <3>1, <3>3 DEF Spaced, N
    <3> QED
      BY <3>2, <3>3
  <2>2. ~congested' => script'[N + 1] # "keepalive"
    BY <1>6
  <2> QED
    BY <1>6, <2>1, <2>2 DEF Spaced
<1> QED
  BY <1>2, <1>5, <1>6, <1>7

\* A step of the parser yields the next event, if any, and none as it ends.
LEMMA ParserYields ==
  ASSUME Rest!Parser!ParserStep
  PROVE  /\ mode # "ended" /\ UNCHANGED script
         /\ \/ UNCHANGED emitted
            \/ mode' # "ended" /\ \E event : emitted' = Append(emitted, event)
<1>1. ParserProofs!ParserStep
  BY SameSteps
<1>2. CASE ParserProofs!ParseBlock
  BY <1>2 DEF ParserProofs!ParseBlock
<1>3. CASE ParserProofs!NoBlock
  BY <1>3 DEF ParserProofs!NoBlock
<1>4. CASE ParserProofs!ReadChunk
  BY <1>4 DEF ParserProofs!ReadChunk
<1>5. CASE ParserProofs!ReadError
  BY <1>5 DEF ParserProofs!ReadError
<1>6. CASE ParserProofs!ReadEnd
  BY <1>6 DEF ParserProofs!ReadEnd
<1> QED
  BY <1>1, <1>2, <1>3, <1>4, <1>5, <1>6 DEF ParserProofs!ParserStep

\* The plugin writes the next event of its plan.
LEMMA ProduceKeeps ==
  ASSUME RestInv, Rest!Produce
  PROVE  RestInv' /\ UNCHANGED <<emitted, stage>>
<1>1. PICK n \in 0..3 : OnWire(n)
  BY DEF RestInv
<1> DEFINE kind == Rest!Yields[server]
           p == Rest!Plan
<1>2. /\ server \in {"Start", "Sending", "Delivering"} /\ Rest!Write(kind)
      /\ server' = Rest!SmsState[server] /\ congested' = FALSE
      /\ UNCHANGED <<recipient, stage, source, buffer, mode, emitted>>
  BY DEF Rest!Produce, Rest!Streaming, Rest!SmsState, Rest!parserVars
<1>3. /\ n \in 0..2
      /\ server = "Start" => n = 0 /\ kind = "started" /\ server' = "Sending"
      /\ server = "Sending" => n = 1 /\ kind = "queued" /\ server' = "Delivering"
      /\ server = "Delivering" => n = 2 /\ kind = "delivered" /\ server' = "Done"
  BY <1>1, <1>2 DEF OnWire, Rest!Yields, Rest!SmsState
<1>4. /\ kind \in Rest!Kinds /\ kind # "keepalive"
      /\ ParserProofs!BlockEvents[kind] = <<p[n + 1]>>
  <2>1. /\ ParserProofs!BlockEvents["started"] = <<<<"started">>>>
        /\ ParserProofs!BlockEvents["queued"] = <<<<"queued">>>>
        /\ ParserProofs!BlockEvents["delivered"] = <<<<"delivered">>>>
    BY DEF ParserProofs!BlockEvents
  <2>2. p[1] = <<"started">> /\ p[2] = <<"queued">> /\ p[3] = <<"delivered">>
    BY DEF Rest!Plan
  <2>3. kind \in Rest!Kinds /\ kind # "keepalive"
    BY <1>2, <1>3 DEF Rest!Kinds
  <2> HIDE DEF kind, p
  <2>4. /\ server = "Start" => ParserProofs!BlockEvents[kind] = <<p[1]>> /\ n + 1 = 1
        /\ server = "Sending" => ParserProofs!BlockEvents[kind] = <<p[2]>> /\ n + 1 = 2
        /\ server = "Delivering" => ParserProofs!BlockEvents[kind] = <<p[3]>> /\ n + 1 = 3
    BY <1>3, <2>1, <2>2
  <2> QED
    BY <1>2, <2>3, <2>4
<1>5. Len(script) < 5 /\ Len(script) \in Nat
  <2>1. script \in Seq(Rest!Kinds)
    BY DEF RestInv, ParserProofs!IInv, ParserProofs!Types
  <2>2. Len(script) \in Nat /\ (script = << >> => Len(script) = 0)
    BY <2>1
  <2> QED
    BY <1>1, <1>3, <2>2 DEF OnWire
<1> HIDE DEF kind, p
<1>6. /\ ParserProofs!IInv' /\ Spaced' /\ Len(script') = Len(script) + 1
      /\ ParserProofs!Events(script)'
           = ParserProofs!Events(script) \o ParserProofs!BlockEvents[kind]
  BY <1>2, <1>4, <1>5, WriteStep DEF RestInv
<1>7. ParserProofs!Events(script)' = First(p, n + 1)
  <2>1. p \in Seq(Seq(Names)) /\ Len(p) = 3
    BY Plans DEF p
  <2>2. /\ First(p, n) \in Seq(Seq(Names)) /\ Append(First(p, n), p[n + 1]) = First(p, n + 1)
        /\ p[n + 1] \in Seq(Names)
    <3>1. n \in 0..(Len(p) - 1)
      BY <1>3, <2>1
    <3>2. \A i \in 1..Len(p) : p[i] \in Seq(Names)
      <4> DEFINE T == Seq(Names)
      <4>1. p \in Seq(T)
        BY <2>1
      <4> HIDE DEF T
      <4>2. \A i \in 1..Len(p) : p[i] \in T
        BY <4>1
      <4> QED
        BY <4>2 DEF T
    <3>3. n + 1 \in 1..Len(p)
      BY <2>1, <3>1
    <3> QED
      BY <2>1, <3>1, <3>2, <3>3, FirstNext
  <2>3. Append(First(p, n), p[n + 1]) = First(p, n) \o <<p[n + 1]>>
    BY <2>2, AppendIsConcat
  <2> QED
    BY <1>1, <1>4, <1>6, <2>2, <2>3 DEF OnWire, p
<1>8. OnWire(n + 1)'
  <2>1. n + 1 # 0 /\ Len(script') <= 2 * (n + 1) - 1
    <3>1. IF n = 0 THEN Len(script) = 0 ELSE Len(script) <= 2 * n
      <4>1. script = << >> => Len(script) = 0
        OBVIOUS
      <4> QED
        BY <1>1, <1>3, <1>5, <4>1 DEF OnWire
    <3> QED
      BY <1>3, <1>5, <1>6, <3>1
  <2>2. /\ server' = "Sending" => n + 1 = 1
        /\ server' = "Delivering" => n + 1 = 2
        /\ server' = "Done" => n + 1 = 3
        /\ server' \in {"Sending", "Delivering", "Done"}
    BY <1>2, <1>3
  <2> QED
    BY <1>2, <1>7, <2>1, <2>2 DEF OnWire, p
<1>9. n + 1 \in 0..3
  BY <1>3
<1> QED
  BY <1>2, <1>3, <1>6, <1>8, <1>9 DEF RestInv

\* A keep-alive is written.
LEMMA KeepAliveKeeps ==
  ASSUME RestInv, Rest!KeepAlive
  PROVE  RestInv' /\ UNCHANGED <<emitted, stage>>
<1>1. PICK n \in 0..3 : OnWire(n)
  BY DEF RestInv
<1>2. /\ server \in {"Sending", "Delivering"} /\ ~congested /\ congested' = TRUE
      /\ Rest!Write("keepalive")
      /\ UNCHANGED <<recipient, stage, server, source, buffer, mode, emitted>>
  BY DEF Rest!KeepAlive, Rest!parserVars
<1>3. n \in 1..2
  BY <1>1, <1>2 DEF OnWire
<1>4. Len(script) \in Nat /\ Len(script) <= 2 * n - 1
  <2>1. script \in Seq(Rest!Kinds)
    BY DEF RestInv, ParserProofs!IInv, ParserProofs!Types
  <2>2. Len(script) \in Nat
    BY <2>1
  <2> QED
    BY <1>1, <1>2, <1>3, <2>2 DEF OnWire
<1>5. Len(script) < 5 /\ "keepalive" \in Rest!Kinds
  BY <1>3, <1>4 DEF Rest!Kinds
<1>6. /\ ParserProofs!IInv' /\ Spaced' /\ Len(script') = Len(script) + 1
      /\ ParserProofs!Events(script)'
           = ParserProofs!Events(script) \o ParserProofs!BlockEvents["keepalive"]
  <2> DEFINE kind == "keepalive"
  <2>1. /\ Rest!Write(kind) /\ kind \in Rest!Kinds
        /\ IF kind = "keepalive" THEN ~congested /\ congested' ELSE ~congested'
    BY <1>2, <1>5
  <2>2. ParserProofs!IInv /\ Spaced
    BY DEF RestInv
  <2> HIDE DEF kind
  <2>3. /\ ParserProofs!IInv' /\ Spaced' /\ Len(script') = Len(script) + 1
        /\ ParserProofs!Events(script)'
             = ParserProofs!Events(script) \o ParserProofs!BlockEvents[kind]
    BY <1>2, <1>5, <2>1, <2>2, WriteStep
  <2> QED
    BY <2>3 DEF kind
<1>7. ParserProofs!Events(script)' = ParserProofs!Events(script)
  <2>1. ParserProofs!BlockEvents["keepalive"] = << >>
    BY DEF ParserProofs!BlockEvents
  <2>2. ParserProofs!Events(script) \in Seq(Seq(ParserProofs!Pieces))
    BY KindsKnown, ParserProofs!EventsOfAll DEF RestInv
  <2> QED
    BY <1>6, <2>1, <2>2, ConcatEmptySeq
<1>8. OnWire(n)'
  <2>1. n # 0 /\ Len(script') <= 2 * n
    BY <1>3, <1>4, <1>6
  <2> QED
    BY <1>1, <1>2, <1>7, <2>1 DEF OnWire
<1> QED
  BY <1>2, <1>6, <1>8 DEF RestInv

\* So it has, whatever is on the wire.
OnPlan == \E j \in 0..3 : emitted = First(Rest!Plan, j)

LEMMA RestOnPlan == RestInv => OnPlan
<1> SUFFICES ASSUME RestInv PROVE \E j \in 0..3 : emitted = First(Rest!Plan, j)
  BY DEF OnPlan
<1>1. PICK n \in 0..3 : OnWire(n)
  BY DEF RestInv
<1>2. PICK j \in 0..n : emitted = First(Rest!Plan, j)
  BY <1>1, EmittedIsPlan DEF RestInv
<1> QED
  BY <1>2

\* What the parser gets out of the body is the next event of the plan.
LEMMA NextOfPlan ==
  ASSUME RestInv, RestInv', \E event : emitted' = Append(emitted, event)
  PROVE  /\ Len(emitted) < Len(Rest!Plan)
         /\ emitted' = Append(emitted, Rest!Plan[Len(emitted) + 1])
<1> DEFINE p == Rest!Plan
<1>1. p \in Seq(Seq(Names)) /\ Len(p) = 3
  BY Plans
<1>2. PICK j \in 0..3 : emitted = First(p, j)
  BY RestOnPlan DEF OnPlan
<1>3. OnPlan'
  BY RestOnPlan, PTL
<1>4. PICK i \in 0..3 : emitted' = First(p, i)
  BY <1>3 DEF OnPlan
<1>5. PICK event : emitted' = Append(emitted, event)
  OBVIOUS
<1> HIDE DEF p
<1>6. j \in 0..Len(p) /\ i \in 0..Len(p)
  BY <1>1
<1>7. /\ emitted \in Seq(Seq(Names)) /\ Len(emitted) = j
      /\ emitted' \in Seq(Seq(Names)) /\ Len(emitted') = i
  BY <1>1, <1>2, <1>4, <1>6, FirstAll
<1>8. i = j + 1
  BY <1>5, <1>6, <1>7
<1>9. j \in 0..(Len(p) - 1)
  BY <1>1, <1>6, <1>8
<1>10. Append(First(p, j), p[j + 1]) = First(p, j + 1)
  BY <1>1, <1>9, FirstNext
<1> QED
  BY <1>1, <1>2, <1>4, <1>7, <1>8, <1>9, <1>10 DEF p

\* The invariant stays as it is when neither the wire nor the parser moves.
LEMMA RestStays ==
  ASSUME RestInv, UNCHANGED <<recipient, congested, script, rest, source, buffer, mode, emitted>>,
         stage' \in {"asked", "open", "ended", "dropped", "refused", "unknown"},
         stage' = "ended" <=> stage = "ended",
         \/ UNCHANGED server
         \/ server = "none" /\ server' \in {"refused", "Start"}
         \/ server' = "gone"
  PROVE  RestInv'
<1>1. PICK n \in 0..3 : OnWire(n)
  BY DEF RestInv
<1>2. ParserProofs!IInv'
  BY ParserStays DEF RestInv
<1>3. OnWire(n)'
  <2>1. ParserProofs!Events(script)' = ParserProofs!Events(script)
    OBVIOUS
  <2>2. server \in {"none", "refused", "Start"} => n = 0
    BY <1>1 DEF OnWire
  <2> QED
    BY <1>1, <2>1, <2>2 DEF OnWire
<1>4. Spaced'
  BY DEF RestInv, Spaced
<1> QED
  BY <1>2, <1>3, <1>4 DEF RestInv

\* The invariant stays when the parser or the connection moves.
LEMMA RestParses ==
  ASSUME RestInv, UNCHANGED <<recipient, server, congested>>,
         Rest!Parser!ParserStep \/ Rest!Parser!Disconnect \/ Rest!Parser!Expire,
         stage' \in {"asked", "open", "ended", "dropped", "refused", "unknown"},
         mode' = "ended" <=> stage' = "ended"
  PROVE  RestInv'
<1>1. PICK n \in 0..3 : OnWire(n)
  BY DEF RestInv
<1>2. ParserProofs!IInv'
  BY ParserMoves DEF RestInv
<1>3. UNCHANGED script
  <2>1. CASE Rest!Parser!ParserStep
    BY <2>1, ParserYields
  <2>2. CASE Rest!Parser!Disconnect \/ Rest!Parser!Expire
    BY <2>2 DEF Rest!Parser!Disconnect, Rest!Parser!Expire
  <2> QED
    BY <2>1, <2>2
<1>4. OnWire(n)' /\ Spaced'
  BY <1>1, <1>3, WireStays DEF RestInv
<1> QED
  BY <1>2, <1>4 DEF RestInv

\* Each step keeps the invariant, and is a step of the abstract stream.
LEMMA RestKeeps ==
  ASSUME RestInv, Rest!Next, binding = "rest", UNCHANGED binding
  PROVE  RestInv' /\ [Stream!Next]_(Stream!vars)
<1> DEFINE plan == [events |-> Bound, remote |-> binding = "rest"]
<1>1. plan.events = Rest!Plan /\ plan.remote = TRUE /\ plan' = plan
  BY DEF Bound
<1>2. /\ recipient \in {"given", "empty"}
      /\ stage \in {"asked", "open", "ended", "dropped", "refused", "unknown"}
      /\ mode = "ended" <=> stage = "ended"
  BY DEF RestInv
<1> HIDE DEF plan
<1>3. UNCHANGED <<plan, emitted, stage>> => [Stream!Next]_(Stream!vars)
  BY DEF Stream!vars, plan
<1>4. CASE Rest!Arrive
  <2>1. /\ server = "none" /\ server' \in {"refused", "Start"}
        /\ UNCHANGED <<recipient, stage, congested, script, rest, source, buffer, mode, emitted>>
    BY <1>4 DEF Rest!Arrive, Rest!wireVars, Rest!parserVars
  <2>2. RestInv'
    BY <1>2, <2>1, RestStays
  <2> QED
    BY <1>1, <1>3, <2>1, <2>2
<1>5. CASE Rest!Produce
  BY <1>1, <1>3, <1>5, ProduceKeeps
<1>6. CASE Rest!KeepAlive
  BY <1>1, <1>3, <1>6, KeepAliveKeeps
<1>7. CASE Rest!HandlerDropped
  <2>1. /\ server' = "gone"
        /\ UNCHANGED <<recipient, stage, congested, script, rest, source, buffer, mode, emitted>>
    BY <1>7 DEF Rest!HandlerDropped, Rest!wireVars, Rest!parserVars
  <2>2. RestInv'
    BY <1>2, <2>1, RestStays
  <2> QED
    BY <1>1, <1>3, <2>1, <2>2
<1>8. CASE Rest!Close
  <2>1. /\ Rest!Parser!Flowing /\ source' = "closed"
        /\ UNCHANGED <<recipient, stage, server, congested, script, rest, buffer, mode, emitted>>
    BY <1>8 DEF Rest!Close, Rest!serverVars, Rest!wireVars
  <2>2. Rest!Parser!Disconnect
    BY <2>1 DEF Rest!Parser!Disconnect, Rest!Parser!parserVars
  <2>3. RestInv'
    BY <1>2, <2>1, <2>2, RestParses
  <2> QED
    BY <1>1, <1>3, <2>1, <2>3
<1>9. CASE Rest!Open \/ Rest!OpenFails
  <2>1. /\ stage = "asked" /\ stage' \in {"refused", "open", "unknown"}
        /\ UNCHANGED <<recipient, server, congested, script, rest, source, buffer, mode, emitted>>
    BY <1>9 DEF Rest!Open, Rest!OpenFails, Rest!serverVars, Rest!wireVars, Rest!parserVars
  <2>2. RestInv'
    BY <2>1, RestStays
  <2>3. Stream!Answer
    BY <1>1, <2>1 DEF Stream!Answer, plan
  <2> QED
    BY <2>2, <2>3 DEF Stream!Next
<1>10. CASE Rest!OpenForeign
  <2>1. /\ stage = "asked" /\ stage' = "open" /\ Rest!Parser!Disconnect
        /\ UNCHANGED <<recipient, server, congested, mode, emitted>>
    BY <1>10 DEF Rest!OpenForeign, Rest!serverVars, Rest!Parser!Disconnect, Rest!Parser!parserVars
  <2>2. RestInv'
    BY <1>2, <2>1, RestParses
  <2>3. Stream!Answer
    BY <1>1, <2>1 DEF Stream!Answer, plan
  <2> QED
    BY <2>2, <2>3 DEF Stream!Next
<1>11. CASE Rest!Parse
  <2>1. /\ stage = "open" /\ Rest!Parser!ParserStep
        /\ stage' = IF mode' = "ended" THEN "ended" ELSE stage
        /\ UNCHANGED <<recipient, server, congested>>
    BY <1>11 DEF Rest!Parse, Rest!serverVars
  <2>2. RestInv'
    BY <2>1, RestParses
  <2>3. \/ UNCHANGED emitted
        \/ mode' # "ended" /\ \E event : emitted' = Append(emitted, event)
    BY <2>1, ParserYields
  <2>4. CASE UNCHANGED emitted /\ mode' # "ended"
    BY <1>1, <1>3, <2>1, <2>2, <2>4
  <2>5. CASE UNCHANGED emitted /\ mode' = "ended"
    <3>1. Stream!End
      BY <1>1, <2>1, <2>5 DEF Stream!End, plan
    <3> QED
      BY <2>2, <3>1 DEF Stream!Next
  <2>6. CASE mode' # "ended" /\ \E event : emitted' = Append(emitted, event)
    <3>1. /\ Len(emitted) < Len(Rest!Plan)
          /\ emitted' = Append(emitted, Rest!Plan[Len(emitted) + 1])
      BY <2>2, <2>6, NextOfPlan
    <3>2. Stream!Yield
      BY <1>1, <2>1, <2>6, <3>1 DEF Stream!Yield, plan
    <3> QED
      BY <2>2, <3>2 DEF Stream!Next
  <2> QED
    BY <2>3, <2>4, <2>5, <2>6
<1>12. CASE Rest!Drop
  <2>1. /\ stage \in {"asked", "open"} /\ stage' = "dropped"
        /\ UNCHANGED <<recipient, server, congested, script, rest, source, buffer, mode, emitted>>
    BY <1>12 DEF Rest!Drop, Rest!serverVars, Rest!wireVars, Rest!parserVars
  <2>2. RestInv'
    BY <2>1, RestStays
  <2>3. Stream!Drop
    BY <1>1, <2>1 DEF Stream!Drop, plan
  <2> QED
    BY <2>2, <2>3 DEF Stream!Next
<1>13. CASE Rest!Cut
  <2>1. /\ Rest!Parser!Disconnect \/ Rest!Parser!Expire
        /\ UNCHANGED <<recipient, stage, server, congested, buffer, mode, emitted>>
    BY <1>13 DEF Rest!Cut, Rest!serverVars, Rest!Parser!Disconnect, Rest!Parser!Expire,
                 Rest!Parser!parserVars
  <2>2. RestInv'
    BY <1>2, <2>1, RestParses
  <2> QED
    BY <1>1, <1>3, <2>1, <2>2
<1> QED
  BY <1>4, <1>5, <1>6, <1>7, <1>8, <1>9, <1>10, <1>11, <1>12, <1>13
  DEF Rest!Next, Rest!Serve, Rest!Consume

-----------------------------------------------------------------------------
(* Both providers.                                                         *)

\* The invariant holds at the beginning.
LEMMA InitIInv == Init => IInv
BY EmailInit, RestInit DEF Init, IInv

\* Every step keeps it, and is a step of the abstract stream.
LEMMA NextKeeps == IInv /\ [Next]_vars => IInv' /\ [Stream!Next]_(Stream!vars)
<1> SUFFICES ASSUME IInv, [Next]_vars PROVE IInv' /\ [Stream!Next]_(Stream!vars)
  OBVIOUS
<1>1. CASE Local(Email!Next)
  <2>1. binding = "compile" /\ UNCHANGED binding /\ Email!Next
    BY <1>1 DEF Local
  <2>2. EmailInv' /\ [Stream!Next]_(Stream!vars)
    BY <2>1, EmailKeeps DEF IInv
  <2> QED
    BY <2>1, <2>2 DEF IInv
<1>2. CASE Remote(Rest!Next)
  <2>1. binding = "rest" /\ UNCHANGED binding /\ Rest!Next
    BY <1>2 DEF Remote
  <2>2. RestInv' /\ [Stream!Next]_(Stream!vars)
    BY <2>1, RestKeeps DEF IInv
  <2> QED
    BY <2>1, <2>2 DEF IInv
<1>3. CASE UNCHANGED vars
  <2>1. UNCHANGED <<binding, recipient, stage, emitted, producer, channel,
                    server, congested, script, rest, source, buffer, mode>>
    BY <1>3 DEF vars, emailVars, restVars
  <2>2. EmailInv => EmailInv'
    BY <2>1 DEF EmailInv
  <2>3. RestInv => RestInv'
    <3>1. ASSUME RestInv
          PROVE  RestInv'
      <4>1. stage' = "ended" <=> stage = "ended"
        BY <2>1
      <4>2. stage' \in {"asked", "open", "ended", "dropped", "refused", "unknown"}
        BY <2>1, <3>1 DEF RestInv
      <4> QED
        BY <2>1, <3>1, <4>1, <4>2, RestStays
    <3> QED
      BY <3>1
  <2>4. UNCHANGED Stream!vars
    BY <2>1 DEF Stream!vars, Bound
  <2> QED
    BY <2>1, <2>2, <2>3, <2>4 DEF IInv
<1> QED
  BY <1>1, <1>2, <1>3 DEF Next

\* It holds throughout.
LEMMA Invariant == Spec => []IInv
BY InitIInv, NextKeeps, PTL DEF Spec

-----------------------------------------------------------------------------
(* Theorems.                                                               *)

\* The state is well-typed: the channel of the local provider is never beyond
\* its capacity, and what the client has not read is the end of the wire.
THEOREM TypeCorrect == Spec => []TypeOK
<1>1. IInv => TypeOK
  <2> SUFFICES ASSUME IInv PROVE TypeOK
    OBVIOUS
  <2>1. ASSUME EmailInv
        PROVE  Email!TypeOK
    <3>1. Len(channel) <= Email!Capacity
      BY <2>1, RoomLeft DEF Email!Capacity
    <3>2. \E n \in 0..Len(Email!Plan) : emitted = SubSeq(Email!Plan, 1, n)
      <4>1. PICK m \in 0..producer : emitted = First(Email!Plan, m)
        BY <2>1 DEF EmailInv
      <4>2. m \in 0..Len(Email!Plan)
        BY <2>1, Plans DEF EmailInv
      <4> QED
        BY <4>1, <4>2 DEF First
    <3> QED
      BY <2>1, <3>1, <3>2 DEF EmailInv, Email!TypeOK
  <2>2. ASSUME RestInv
        PROVE  Rest!TypeOK
    <3>1. ParserProofs!TypeOK
      BY <2>2, KindsKnown, ParserProofs!TypesHold DEF RestInv
    <3>2. Rest!Parser!BoundedSeq(Rest!Kinds, 5) = ParserProofs!BoundedSeq(Rest!Kinds, 5)
      BY Zenon DEF Rest!Parser!BoundedSeq, ParserProofs!BoundedSeq,
                   Rest!Parser!SeqOf, ParserProofs!SeqOf
    <3>3. Rest!Parser!Wire(script) = ParserProofs!Wire(script)
      <4>1. Rest!Parser!BlockWire = ParserProofs!BlockWire
        BY SameText
      <4>2. \A s : Rest!Parser!FlattenSeq(s) = ParserProofs!FlattenSeq(s)
        BY Zenon DEF Rest!Parser!FlattenSeq, ParserProofs!FlattenSeq
      <4> QED
        BY <4>1, <4>2, Zenon DEF Rest!Parser!Wire, ParserProofs!Wire,
                                 Rest!Parser!Laid, ParserProofs!Laid
    <3>4. Rest!Parser!IsSuffix(rest, Rest!Parser!Wire(script))
            = ParserProofs!IsSuffix(rest, ParserProofs!Wire(script))
      BY <3>3, Zenon DEF Rest!Parser!IsSuffix, ParserProofs!IsSuffix,
           Rest!Parser!IsPrefix, ParserProofs!IsPrefix, Rest!Parser!Reverse, ParserProofs!Reverse
    <3>5. Rest!Parser!TypeOK
      BY <3>1, <3>2, <3>4 DEF Rest!Parser!TypeOK, ParserProofs!TypeOK
    <3>6. server \in DOMAIN Rest!SmsState \cup {"none", "refused", "Done", "gone"}
      BY <2>2 DEF RestInv, Rest!SmsState
    <3> QED
      BY <2>2, <3>5, <3>6 DEF RestInv, Rest!TypeOK
  <2> QED
    BY <2>1, <2>2 DEF IInv, TypeOK
<1> QED
  BY Invariant, <1>1, PTL

\* A stream that ends after the provider has finished and its bytes were read
\* is complete: no keep-alive and no chunk boundary costs the consumer the
\* event that says how the delivery ended.
THEOREM Complete == Spec => []CompleteUnlessCut
<1>1. IInv => CompleteUnlessCut
  <2> SUFFICES ASSUME IInv, stage = "ended", binding = "rest" => server = "Done" /\ rest = << >>
               PROVE  emitted = Bound
    BY DEF CompleteUnlessCut
  <2>1. CASE binding = "compile"
    <3>1. Email!Plan \in Seq(Seq(Names))
      BY Plans
    <3>2. emitted = First(Email!Plan, Len(Email!Plan))
      BY <2>1 DEF IInv, EmailInv
    <3> QED
      BY <2>1, <3>1, <3>2, FirstAll DEF Bound
  <2>2. CASE binding = "rest"
    <3> DEFINE p == Rest!Plan
    <3>1. /\ RestInv /\ ParserProofs!IInv /\ Spaced /\ mode = "ended"
          /\ server = "Done" /\ rest = << >>
      BY <2>2 DEF IInv, RestInv
    <3>2. PICK n \in 0..3 : OnWire(n)
      BY <3>1 DEF RestInv
    <3>3. p \in Seq(Seq(Names)) /\ Len(p) = 3
      BY Plans
    <3>4. n = 3 /\ ParserProofs!Events(script) = First(p, n)
      BY <3>1, <3>2 DEF OnWire
    <3>5. ParserProofs!Complete = script
      BY <3>1, KindsKnown, ParserProofs!AllRead
    <3>6. ParserProofs!NothingLost
      BY <3>1, KindsKnown, ParserProofs!EndHolds
    <3>7. ParserProofs!AllSeen
      BY <3>1, <3>5, <3>6 DEF ParserProofs!NothingLost, ParserProofs!IsIdle, Spaced
    <3>8. Len(emitted) = Len(ParserProofs!Events(script))
      BY <3>5, <3>7 DEF ParserProofs!AllSeen, ParserProofs!Due
    <3>9. PICK j \in 0..n : emitted = First(p, j)
      BY <3>1, <3>2, EmittedIsPlan
    <3> HIDE DEF p
    <3>10. Len(First(p, n)) = n /\ Len(First(p, j)) = j /\ First(p, 3) = p
      <4>1. n \in 0..Len(p) /\ j \in 0..Len(p)
        BY <3>3
      <4>2. First(p, Len(p)) = p
        BY <3>3, FirstAll
      <4> QED
        BY <3>3, <4>1, <4>2, FirstAll
    <3>11. emitted = p
      BY <3>4, <3>8, <3>9, <3>10
    <3> QED
      BY <2>2, <3>11 DEF p, Bound
  <2> QED
    BY <2>1, <2>2 DEF IInv
<1> QED
  BY Invariant, <1>1, PTL

\* Whichever binding was chosen, the consumer gets the events of the delivery
\* in order, each once, and a local stream ends only when it is complete.
THEOREM Refinement == Spec => ImplementsStream
<1>1. Init => Stream!Init
  BY DEF Init, Email!Init, Rest!Init, Stream!Init, Bound
<1> QED
  BY <1>1, Invariant, NextKeeps, PTL DEF Spec, ImplementsStream, Stream!Spec

=============================================================================
