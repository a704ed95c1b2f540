----------------------------- MODULE SseParser -----------------------------
(***************************************************************************)
(* sse_stream: the client's end of a server-sent event stream.  The server *)
(* writes blocks; the network cuts them into chunks wherever it likes and  *)
(* may cut the stream itself; the parser puts chunks into a text buffer    *)
(* and takes blocks off it while the consumer keeps polling.               *)
(*                                                                         *)
(* The wire is a sequence of pieces: a line end, the prefix "data: ", the  *)
(* colon of a comment, the name of another field, a character of the       *)
(* payload, or one of the two bytes "hi", "lo" of a character outside      *)
(* ASCII.  A payload with the piece "junk" is not the JSON of an event.    *)
(***************************************************************************)
EXTENDS Naturals, Sequences, SequencesExt, FiniteSetsExt

CONSTANTS Blocks,     \* kinds of blocks the server may write
          MaxBlocks   \* bound on the blocks of one stream

-----------------------------------------------------------------------------
(* The server.                                                             *)

BlockWire ==
  [plain     |-> <<"data", "x", "NL", "NL">>,
   field     |-> <<"id", "NL", "data", "y", "NL", "NL">>,
   lines     |-> <<"data", "x", "NL", "data", "y", "NL", "NL">>,
   junk      |-> <<"data", "junk", "NL", "NL">>,
   keepalive |-> <<"colon", "NL", "NL">>,
   accent    |-> <<"data", "hi", "lo", "NL", "NL">>,
   started   |-> <<"id", "NL", "id", "NL", "data", "started", "NL", "NL">>,
   queued    |-> <<"id", "NL", "id", "NL", "data", "queued", "NL", "NL">>,
   delivered |-> <<"id", "NL", "id", "NL", "data", "delivered", "NL", "NL">>]

\* The event each kind of block stands for, if any.
BlockEvents ==
  [plain |-> <<<<"x">>>>, field |-> <<<<"y">>>>, lines |-> <<<<"x", "NL", "y">>>>,
   junk |-> <<>>, keepalive |-> <<>>, accent |-> <<<<"hi", "lo">>>>,
   started |-> <<<<"started">>>>, queued |-> <<<<"queued">>>>,
   delivered |-> <<<<"delivered">>>>]

ASSUME BlocksAssumption == Blocks \subseteq DOMAIN BlockWire /\ MaxBlocks \in Nat

VARIABLES script,   \* the blocks of the stream
          rest,     \* bytes not yet read by the client
          source,   \* the byte stream: "open", "expired", "failed", "closed"
          buffer,   \* text not yet parsed
          mode,     \* "parse", "wait", "last" (the try after the end), "ended"
          emitted   \* events handed to the consumer

parserVars == <<buffer, mode, emitted>>
vars == <<script, rest, source, parserVars>>

\* What the blocks come to, one after the other, if each comes to of[block].
Laid(of, blocks) == FlattenSeq([i \in DOMAIN blocks |-> of[blocks[i]]])

Wire(blocks) == Laid(BlockWire, blocks)

Events(blocks) == Laid(BlockEvents, blocks)

-----------------------------------------------------------------------------
(* Text.                                                                   *)

\* A byte of a character whose other byte is in the chunk too.
IsWhole(chunk, i) ==
  \/ chunk[i] = "hi" /\ i < Len(chunk) /\ chunk[i + 1] = "lo"
  \/ chunk[i] = "lo" /\ i > 1 /\ chunk[i - 1] = "hi"

\* String::from_utf8_lossy of one chunk: half a character becomes U+FFFD.
Lossy(chunk) ==
  [i \in DOMAIN chunk |->
     IF chunk[i] \in {"hi", "lo"} /\ ~IsWhole(chunk, i) THEN "U+FFFD" ELSE chunk[i]]

\* Positions where a blank line begins.
Separators(text) ==
  {i \in 1..Len(text) - 1 : text[i] = "NL" /\ text[i + 1] = "NL"}

\* MUTANT: each data line replaces the one before.
BugAddLine(data, line) ==
  IF line # <<>> /\ Head(line) = "data" THEN Tail(line) ELSE data

\* What a line of a block adds to the data collected so far.
AddLine(data, line) ==
  IF line # <<>> /\ Head(line) = "data"
  THEN data \o (IF data = <<>> THEN <<>> ELSE <<"NL">>) \o Tail(line)
  ELSE data

\* One piece of a block, after what was read of it: the data so far and the
\* line being read.
Take(read, piece) ==
  IF piece = "NL" THEN [data |-> AddLine(read.data, read.line), line |-> <<>>]
                  ELSE [read EXCEPT !.line = Append(@, piece)]

Data(block) ==
  LET read[n \in 0..Len(block)] ==
        IF n = 0 THEN [data |-> <<>>, line |-> <<>>] ELSE Take(read[n - 1], block[n])
  IN  Take(read[Len(block)], "NL").data

IsEvent(data) == ~Contains(data, "junk")

IsBlank(text) == \A i \in DOMAIN text : text[i] = "NL"

-----------------------------------------------------------------------------
TypeOK ==
  /\ script \in BoundedSeq(Blocks, MaxBlocks)
  /\ IsSuffix(rest, Wire(script))
  /\ source \in {"open", "expired", "failed", "closed"}
  /\ mode \in {"parse", "wait", "last", "ended"}
  /\ mode = "last" => source = "closed"

Init == /\ script \in BoundedSeq(Blocks, MaxBlocks)
        /\ rest = Wire(script)
        /\ source = "open"
        /\ buffer = <<>>
        /\ mode = "parse"
        /\ emitted = <<>>

-----------------------------------------------------------------------------
(* next_event and try_parse_event.                                         *)

\* No event came of the buffer: read on, or end if the stream has ended.
NothingParsed == mode' = IF mode = "parse" THEN "wait" ELSE "ended"

\* MUTANT: one character too many goes with the separator.
BugAfter(text, pos) == SubSeq(text, pos + 3, Len(text))

\* The buffer behind the separator at pos.
After(text, pos) == SubSeq(text, pos + 2, Len(text))

ParseBlock ==
  /\ mode \in {"parse", "last"}
  /\ Separators(buffer) # {}
  /\ LET pos == Min(Separators(buffer))
         data == Data(SubSeq(buffer, 1, pos - 1))
     IN  /\ buffer' = After(buffer, pos)
         /\ \/ /\ data = <<>>
               /\ NothingParsed
               /\ UNCHANGED emitted
            \/ /\ data # <<>> /\ IsEvent(data)
               /\ emitted' = Append(emitted, data)
               /\ mode' = "parse"
            \/ /\ data # <<>> /\ ~IsEvent(data)
               /\ mode' = "parse"
               /\ UNCHANGED emitted
  /\ UNCHANGED <<script, rest, source>>

NoBlock ==
  /\ mode \in {"parse", "last"}
  /\ Separators(buffer) = {}
  /\ NothingParsed
  /\ UNCHANGED <<script, rest, source, buffer, emitted>>

\* MUTANT: a chunk replaces the buffer.
BugExtend(text, chunk) == Lossy(chunk)

Extend(text, chunk) == text \o Lossy(chunk)

Flowing == source \in {"open", "expired"}

ReadChunk ==
  /\ mode = "wait" /\ Flowing
  /\ \E n \in 1..Len(rest) :
       /\ buffer' = Extend(buffer, SubSeq(rest, 1, n))
       /\ rest' = SubSeq(rest, n + 1, Len(rest))
  /\ mode' = "parse"
  /\ UNCHANGED <<script, source, emitted>>

\* MUTANT: an error is taken for the end of the stream.
BugReadError ==
  /\ mode = "wait" /\ source \in {"failed", "expired"}
  /\ mode' = "last"
  /\ UNCHANGED <<script, rest, source, buffer, emitted>>

\* An error of the byte stream is skipped.  reqwest ends the stream after a
\* broken connection, but repeats the error of a request past its timeout.
ReadError ==
  /\ mode = "wait" /\ source \in {"failed", "expired"}
  /\ source' = IF source = "failed" THEN "closed" ELSE source
  /\ mode' = "parse"
  /\ UNCHANGED <<script, rest, buffer, emitted>>

\* MUTANT: the end of the stream sends the parser round the loop again.
BugReadEnd ==
  /\ mode = "wait" /\ source = "closed"
  /\ mode' = IF IsBlank(buffer) THEN "ended" ELSE "parse"
  /\ UNCHANGED <<script, rest, source, buffer, emitted>>

\* MUTANT: what is left in the buffer at the end is not looked at.
BugReadEndAtOnce ==
  /\ mode = "wait" /\ source = "closed"
  /\ mode' = "ended"
  /\ UNCHANGED <<script, rest, source, buffer, emitted>>

ReadEnd ==
  /\ mode = "wait" /\ source = "closed"
  /\ mode' = IF IsBlank(buffer) THEN "ended" ELSE "last"
  /\ UNCHANGED <<script, rest, source, buffer, emitted>>

-----------------------------------------------------------------------------
(* The connection ends, in order or not, with bytes unread or not.         *)

Disconnect == /\ Flowing
              /\ source' \in {"failed", "closed"}
              /\ UNCHANGED <<script, rest, parserVars>>

\* The timeout of the client covers the body of a response too.
Expire == /\ source = "open"
          /\ source' = "expired"
          /\ UNCHANGED <<script, rest, parserVars>>

ParserStep == ParseBlock \/ NoBlock \/ ReadChunk \/ ReadError \/ ReadEnd

Next == ParserStep \/ Disconnect \/ Expire

Spec == Init /\ [][Next]_vars

\* The consumer polls until the stream ends, and bytes that are sent arrive.
FairSpec == Spec /\ WF_vars(ParserStep)

-----------------------------------------------------------------------------
(* Properties.                                                             *)

Received == Len(Wire(script)) - Len(rest)

\* The blocks that have been read to their last byte.
Complete ==
  LET start(n) == SubSeq(script, 1, n)
  IN  start(Max({n \in 0..Len(script) : Len(Wire(start(n))) <= Received}))

IsIdle(block) == block = "keepalive"

\* text is what was written, but for bytes of characters outside ASCII, each of
\* which may have become a replacement character.
Reads(text, written) ==
  /\ Len(text) = Len(written)
  /\ \A i \in DOMAIN written :
       \/ text[i] = written[i]
       \/ text[i] = "U+FFFD" /\ written[i] \in {"hi", "lo"}

Due == Events(Complete)

\* Events come out as the server wrote them, in order and once, however the
\* bytes were cut, but for characters of several bytes, which may be damaged.
InOrder == /\ Len(emitted) <= Len(Due)
           /\ \A e \in DOMAIN emitted : Reads(emitted[e], Due[e])

\* Every event that is complete has been handed out.
AllSeen == /\ Len(emitted) = Len(Due)
           /\ \A e \in DOMAIN emitted : Reads(emitted[e], Due[e])

\* While the parser waits for bytes, no event that is complete is held back,
\* as long as no keep-alive came.
Prompt ==
  mode = "wait" /\ (\A i \in DOMAIN Complete : ~IsIdle(Complete[i])) => AllSeen

\* A stream whose complete blocks hold no two keep-alives in a row is parsed
\* to its last complete block.
NothingLost ==
  mode = "ended" /\ (\A i \in 1..Len(Complete) - 1 :
                       ~(IsIdle(Complete[i]) /\ IsIdle(Complete[i + 1])))
    => AllSeen

\* Once the connection has ended, so does the stream of events.  (Nothing else
\* ends it: the error of a timeout is skipped as often as it is repeated.)
Ends == source \in {"failed", "closed"} ~> mode = "ended"

\* "Parse a byte stream (from reqwest) into a stream of deserialized SSE
\* events" (modkit-contract-runtime/src/lib.rs:69): all of the events that
\* were received are in the stream.
AllParsed == mode = "ended" => AllSeen
=============================================================================
