----------------------------- MODULE ResponseParser -----------------------------
(***************************************************************************)
(* Http1ResponseParser: pipelined responses arrive in chunks cut anywhere. *)
(* A symbol of the stream is a CR, a LF, a byte of a body, or a whole line *)
(* up to its CR LF, which is only ever parsed when all of it is there; each*)
(* counts as one byte.  An action is one turn of the loop of push().       *)
(*                                                                         *)
(* The streams are written by a server from Messages, so what should come  *)
(* out of the parser is known without parsing.                             *)
(***************************************************************************)
EXTENDS Naturals, Sequences, SequencesExt

CONSTANTS
    MaxHeaderBytes, \* maxHeaderBytes
    MaxMessages     \* bound: messages in a stream

ASSUME ParserAssumption == MaxHeaderBytes \in Nat \ {0} /\ MaxMessages \in Nat

VARIABLES
    written,    \* the messages the server has written
    method,     \* #requestMethod
    unread,     \* symbols that have not arrived
    input,      \* what push() has not consumed, empty when it has returned
    parser,
    reported    \* the statuses onResponse was called with

parserVars == <<written, method, unread, input, parser, reported>>
--------------------------------------------------------------------------------
(* Symbols *)

Sym(kind, n) == [kind |-> kind, n |-> n]

CR == Sym("CR", 0)
LF == Sym("LF", 0)
Byte == Sym("byte", 0)
LineEnd == <<CR, LF>>
HeaderEnd == LineEnd \o LineEnd

Status(n) == Sym("status", n)
Length(n) == Sym("length", n)           \* Content-Length
Chunked == Sym("encoding", 1)           \* Transfer-Encoding whose last token is "chunked"
OtherEncoding == Sym("encoding", 0)
Field == Sym("field", 0)                \* any other header or trailer
Malformed == Sym("malformed", 0)        \* a line, length or size that does not parse
Size(n) == Sym("size", n)               \* chunk size

Line(symbol) == <<symbol>> \o LineEnd

\* Where the pattern begins in s, 0 if it does not occur.
IndexOf(s, pattern) ==
    LET at == {i \in 1 .. Len(s) : i + Len(pattern) - 1 <= Len(s)
                 /\ SubSeq(s, i, i + Len(pattern) - 1) = pattern}
    IN  IF at = {} THEN 0 ELSE CHOOSE i \in at : \A j \in at : i <= j

After(s, n) == SubSeq(s, n + 1, Len(s))
--------------------------------------------------------------------------------
(* The parser *)

State == {"headers", "fixed-body", "chunk-size", "chunk-data", "chunk-data-crlf", "trailers", "failed"}

Parser ==
    [state : State,         \* "failed": push() has thrown
     remaining : Nat,       \* #bodyRemaining or #chunkRemaining
     status : Nat,          \* #statusCode
     trailer : Nat,         \* #trailerBytes
     pending : Seq([kind : STRING, n : Nat])]

\* reset(), and a new parser.
Fresh == [state |-> "headers", remaining |-> 0, status |-> 0, trailer |-> 0, pending |-> <<>>]

Fail ==
    /\ parser' = [parser EXCEPT !.state = "failed"]
    /\ input' = <<>>
    /\ UNCHANGED reported

\* The loop goes on behind the first n symbols.
Continue(p, n) ==
    /\ parser' = p
    /\ input' = After(input, n)
    /\ UNCHANGED reported

\* #complete, and the loop goes on.
Complete(status, n) ==
    /\ parser' = Fresh
    /\ input' = After(input, n)
    /\ reported' = Append(reported, status)

\* #retain: what is incomplete waits for the next chunk.
Retain ==
    IF Len(input) > MaxHeaderBytes THEN Fail
    ELSE Continue([parser EXCEPT !.pending = input], Len(input))

\* parseHeaders: the lines of a header block.
Lines(block) == SelectSeq(block, LAMBDA s : s \notin {CR, LF})

Fields(block, kind) == {s \in ToSet(Lines(block)) : s.kind = kind}

Informational(status) == status < 200
\* Mutant: the answer to a HEAD request is taken to have the body it announces.
BodylessByStatus(status) == Informational(status) \/ status \in {204, 304}
Bodyless(status) == Informational(status) \/ method = "HEAD" \/ status \in {204, 304}

\* The last Transfer-Encoding decides.
IsChunked(block) ==
    LET encodings == SelectSeq(Lines(block), LAMBDA s : s.kind = "encoding")
    IN  encodings # <<>> /\ Last(encodings) = Chunked

\* parseHeaders and parseContentLength do not throw.
WellFormed(block) ==
    /\ Head(block).kind = "status" /\ Head(block).n \in 100 .. 599
    /\ Fields(block, "malformed") = {}
    /\ \A a, b \in Fields(block, "length") : a = b
    /\ Fields(block, "encoding") # {} => IsChunked(block)
    /\ IsChunked(block) => Fields(block, "length") = {}

BodyLength(block) == (CHOOSE s \in Fields(block, "length") : TRUE).n

ParseHeaders ==
    /\ parser.state = "headers" /\ input # <<>>
    /\ LET end == IndexOf(input, HeaderEnd)
           block == SubSeq(input, 1, end - 1)
           status == Head(block).n
           behind == end + Len(HeaderEnd) - 1
       IN  IF end = 0 THEN Retain
           ELSE IF end - 1 > MaxHeaderBytes \/ ~WellFormed(block) \/ status = 101 THEN Fail
           ELSE IF Informational(status)
           THEN Continue([parser EXCEPT !.status = status], behind)
           ELSE IF Bodyless(status) THEN Complete(status, behind)
           ELSE IF IsChunked(block)
           THEN Continue([parser EXCEPT !.status = status, !.state = "chunk-size"], behind)
           ELSE IF Fields(block, "length") = {} THEN Fail
           ELSE IF BodyLength(block) = 0 THEN Complete(status, behind)
           ELSE Continue([parser EXCEPT !.status = status, !.state = "fixed-body",
                                        !.remaining = BodyLength(block)], behind)
    /\ UNCHANGED <<written, method, unread>>

Least(a, b) == IF a < b THEN a ELSE b

FixedBody ==
    /\ parser.state = "fixed-body" /\ input # <<>>
    /\ LET n == Least(parser.remaining, Len(input))
       IN  IF n = parser.remaining THEN Complete(parser.status, n)
           ELSE Continue([parser EXCEPT !.remaining = @ - n], n)
    /\ UNCHANGED <<written, method, unread>>

\* parseChunkSize reads the first symbol of the line; the rest is an extension.
ChunkSize ==
    /\ parser.state = "chunk-size" /\ input # <<>>
    /\ LET end == IndexOf(input, LineEnd)
       IN  IF end = 0 THEN Retain
           ELSE IF input[1].kind # "size" THEN Fail
           ELSE IF input[1].n = 0
           THEN Continue([parser EXCEPT !.state = "trailers", !.trailer = 0], end + 1)
           ELSE Continue([parser EXCEPT !.state = "chunk-data", !.remaining = input[1].n], end + 1)
    /\ UNCHANGED <<written, method, unread>>

ChunkData ==
    /\ parser.state = "chunk-data" /\ input # <<>>
    /\ LET n == Least(parser.remaining, Len(input))
       IN  Continue([parser EXCEPT !.remaining = @ - n,
                        !.state = IF n = parser.remaining THEN "chunk-data-crlf" ELSE @], n)
    /\ UNCHANGED <<written, method, unread>>

\* Mutant: a CR at the end of the chunk is taken for the whole line end.
ChunkDataEndShort ==
    /\ parser.state = "chunk-data-crlf" /\ input # <<>>
    /\ IF input[1] # CR THEN Fail
       ELSE Continue([parser EXCEPT !.state = "chunk-size"], Least(2, Len(input)))
    /\ UNCHANGED <<written, method, unread>>

ChunkDataEnd ==
    /\ parser.state = "chunk-data-crlf" /\ input # <<>>
    /\ IF Len(input) < Len(LineEnd)
       THEN Continue([parser EXCEPT !.pending = input], Len(input))
       ELSE IF SubSeq(input, 1, 2) # LineEnd THEN Fail
       ELSE Continue([parser EXCEPT !.state = "chunk-size"], 2)
    /\ UNCHANGED <<written, method, unread>>

Trailers ==
    /\ parser.state = "trailers" /\ input # <<>>
    /\ LET end == IndexOf(input, LineEnd)
       IN  IF end = 0 THEN Retain
           ELSE IF end = 1 THEN Complete(parser.status, 2)
           ELSE IF parser.trailer + end + 1 > MaxHeaderBytes THEN Fail
           ELSE Continue([parser EXCEPT !.trailer = @ + end + 1], end + 1)
    /\ UNCHANGED <<written, method, unread>>

\* push() with the next n symbols.
PushBlock ==
    /\ input = <<>> /\ parser.state # "failed"
    /\ \E n \in 1 .. Len(unread) :
        /\ input' = parser.pending \o SubSeq(unread, 1, n)
        /\ unread' = After(unread, n)
    /\ parser' = [parser EXCEPT !.pending = <<>>]
    /\ UNCHANGED <<written, method, reported>>
--------------------------------------------------------------------------------
(* The server: a message is what it writes and the statuses that are answers *)

Answer(wire, status) == [wire |-> wire, answers |-> <<status>>, valid |-> TRUE]
Interim(wire) == [wire |-> wire, answers |-> <<>>, valid |-> TRUE]
Invalid(wire) == [wire |-> wire, answers |-> <<>>, valid |-> FALSE]

Block(lines) == FoldLeft(LAMBDA s, line : s \o Line(line), <<>>, lines) \o LineEnd

\* A body may look like the end of a header, and a block be as long as it may.
Message ==
    {Answer(Block(<<Status(200), Length(0), Field, Field>>), 200),
     Answer(Block(<<Status(200), Length(2)>>) \o LineEnd, 200),
     Answer(Block(<<Status(200), Length(0), Length(0)>>), 200),
     Answer(Block(<<Status(204), Length(1)>>), 204),
     Answer(Block(<<Status(500), OtherEncoding, Chunked>>)
        \o Line(Size(1)) \o <<Byte>> \o LineEnd \o Line(Size(0)) \o LineEnd, 500),
     Answer(Block(<<Status(200), Chunked>>)
        \o <<Size(2), Byte>> \o LineEnd \o LineEnd \o LineEnd
        \o Line(Size(0)) \o Line(Field) \o LineEnd, 200),
     Interim(Block(<<Status(100)>>)),
     Invalid(Block(<<Status(101)>>)),
     Invalid(Block(<<Status(200)>>)),
     Invalid(Block(<<Status(200), Length(1), Length(2)>>)),
     Invalid(Block(<<Status(200), Chunked, Length(1)>>)),
     Invalid(Block(<<Status(200), Malformed>>)),
     Invalid(Block(<<Status(200), Length(0), Field, Field, Field>>)),
     Invalid(Block(<<Status(200), Chunked>>) \o Line(Size(0))
        \o Line(Field) \o Line(Field) \o Line(Field) \o Line(Field) \o LineEnd),
     Invalid(Block(<<Status(200), Chunked>>) \o Line(Size(1)) \o <<Byte, Byte>> \o LineEnd)}

\* Answers to HEAD requests announce a body that never comes.
HeadMessage ==
    {Answer(Block(<<Status(200), Length(2)>>), 200),
     Answer(Block(<<Status(200), Chunked>>), 200),
     Interim(Block(<<Status(100)>>))}

Wire(messages) == FlattenSeq([i \in 1 .. Len(messages) |-> messages[i].wire])
Answers(messages) == FlattenSeq([i \in 1 .. Len(messages) |-> messages[i].answers])

ParserInit ==
    /\ \/ method = "GET" /\ \E n \in 1 .. MaxMessages : written \in [1 .. n -> Message]
       \/ method = "HEAD" /\ \E n \in 1 .. MaxMessages : written \in [1 .. n -> HeadMessage]
    /\ \A i \in 1 .. Len(written) - 1 : written[i].valid
    /\ unread = Wire(written)
    /\ input = <<>> /\ parser = Fresh /\ reported = <<>>

ParserNext ==
    \/ PushBlock
    \/ ParseHeaders \/ FixedBody \/ ChunkSize \/ ChunkData \/ ChunkDataEnd \/ Trailers

ParserSpec == ParserInit /\ [][ParserNext]_parserVars
--------------------------------------------------------------------------------
\* The messages that have arrived whole.
Arrived ==
    LET count == CHOOSE n \in 0 .. Len(written) :
            /\ Len(Wire(SubSeq(written, 1, n))) <= Len(Wire(written)) - Len(unread)
            /\ n < Len(written) =>
                Len(Wire(SubSeq(written, 1, n + 1))) > Len(Wire(written)) - Len(unread)
    IN  SubSeq(written, 1, count)

\* However the stream is cut, when push() returns the answers that have arrived
\* whole are reported, in order, and no other: no byte is lost between chunks,
\* counted twice or taken for part of the next response.
AnswersExact ==
    /\ parser \in Parser
    /\ input = <<>> /\ parser.state # "failed" => reported = Answers(Arrived)

\* What has arrived of the next message is more than a header block may have, and
\* ends within the CR LF CR LF behind its block.
CutInHeaderEnd ==
    /\ Len(Arrived) < Len(written)
    /\ LET coming == written[Len(Arrived) + 1].wire
           n == Len(Wire(written)) - Len(unread) - Len(Wire(Arrived))
       IN  MaxHeaderBytes < n /\ n < IndexOf(coming, HeaderEnd) + Len(HeaderEnd) - 1

\* The parser gives up on a stream the server got wrong, after all the answers
\* before, and on a block as long as it may be when a chunk ends within the block's
\* end; on no other, however it is cut, and none that is wrong passes.
FailsIfInvalid ==
    /\ parser.state = "failed" =>
        /\ reported = Answers(Arrived)
        /\ CutInHeaderEnd \/ \E i \in 1 .. Len(written) : ~written[i].valid
    /\ input = <<>> /\ CutInHeaderEnd => parser.state = "failed"
    /\ input = <<>> /\ unread = <<>> /\ parser.state # "failed" =>
        /\ \A i \in 1 .. Len(written) : written[i].valid
        /\ [parser EXCEPT !.status = 0] = Fresh

\* "Maximum response-header block size in bytes." (http1/types.ts:140): a stream whose
\* blocks are no longer than that is parsed.
HeadersWithinLimitPass ==
    (\A i \in 1 .. Len(written) : written[i].valid) => parser.state # "failed"
================================================================================
