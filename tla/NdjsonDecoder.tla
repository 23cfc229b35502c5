------------------------------ MODULE NdjsonDecoder ------------------------------
(***************************************************************************)
(* NdjsonDecoder: the control stream, a JSON value to a line, arrives in   *)
(* chunks cut anywhere, even inside a character.  Of a line it matters     *)
(* whether it is blank, whether it parses and how long it is; a character  *)
(* is one of those below.  "e1" "e2" are the two bytes of "e".             *)
(***************************************************************************)
EXTENDS Naturals, Sequences, SequencesExt

CONSTANTS
    MaxLineBytes,   \* maxLineBytes
    MaxFrames       \* bound: frames in a stream

ASSUME DecoderAssumption == MaxLineBytes \in Nat \ {0} /\ MaxFrames \in Nat

VARIABLES
    frames,     \* the lines written by the peer
    wire,       \* bytes that have not arrived
    buffered,   \* #buffered
    loop,       \* push() is parsing the lines of #buffered
    failed,     \* #failed
    ended,      \* end() has been called
    messages,   \* the lines onMessage was called with
    cuts        \* after which bytes of the stream a chunk ended inside a character

decoderVars == <<frames, wire, buffered, loop, failed, ended, messages, cuts>>
--------------------------------------------------------------------------------
\* A character of a JSON text, a two-byte one, a space, one that no JSON text
\* has, and U+FFFD, which takes the place of bytes that are no character.
Character == {"a", "e", " ", "!", "?"}

Bytes(c) == CASE c = "e" -> 2 [] c = "?" -> 3 [] OTHER -> 1

ByteLength(text) == FoldLeft(LAMBDA n, c : n + Bytes(c), 0, text)

Encode(text) ==
    FlattenSeq([i \in 1 .. Len(text) |-> IF text[i] = "e" THEN <<"e1", "e2">> ELSE <<text[i]>>])

\* chunk.toString(), each chunk by itself.
CharactersOf(chunk) ==
    FoldLeft(LAMBDA text, byte :
        CASE byte = "e2" /\ text # <<>> /\ Last(text) = "e1" -> Append(Front(text), "e")
          [] byte = "e2" -> Append(text, "?")
          [] OTHER -> Append(text, byte), <<>>, chunk)

\* A first byte left alone becomes U+FFFD.
Decode(chunk) ==
    LET text == CharactersOf(chunk)
    IN  [i \in 1 .. Len(text) |-> IF text[i] = "e1" THEN "?" ELSE text[i]]

Blank(line) == \A i \in 1 .. Len(line) : line[i] = " "
Parses(line) == ~Blank(line) /\ \A i \in 1 .. Len(line) : line[i] # "!"

HasLine(text) == \E i \in 1 .. Len(text) : text[i] = "\n"
Newline(text) == CHOOSE i \in 1 .. Len(text) :
    text[i] = "\n" /\ \A j \in 1 .. i - 1 : text[j] # "\n"

TooLong(text) == ByteLength(text) > MaxLineBytes
--------------------------------------------------------------------------------
Written(lines) == FlattenSeq([i \in 1 .. Len(lines) |-> Append(Encode(lines[i]), "\n")])

\* The place in the stream of the n-th byte that has not arrived.
At(n) == Len(Written(frames)) - Len(wire) + n

GiveUp == failed' = TRUE /\ buffered' = <<>> /\ loop' = FALSE /\ UNCHANGED messages

\* push(), up to the loop over the lines.
PushChunk ==
    /\ ~loop /\ ~ended /\ wire # <<>>
    /\ \E n \in 1 .. Len(wire) :
        LET text == buffered \o Decode(SubSeq(wire, 1, n))
        IN  /\ wire' = SubSeq(wire, n + 1, Len(wire))
            /\ cuts' = IF wire[n] = "e1" THEN cuts \cup {At(n)} ELSE cuts
            /\ IF failed THEN UNCHANGED <<buffered, loop, failed, messages>>
               ELSE IF TooLong(text) /\ ~HasLine(text) THEN GiveUp
               ELSE buffered' = text /\ loop' = TRUE /\ UNCHANGED <<failed, messages>>
    /\ UNCHANGED <<frames, ended>>

\* Mutant: only the first line of a chunk is parsed.
ParseOneLine ==
    /\ loop /\ HasLine(buffered)
    /\ buffered' = SubSeq(buffered, Newline(buffered) + 1, Len(buffered))
    /\ loop' = FALSE
    /\ messages' = Append(messages, SubSeq(buffered, 1, Newline(buffered) - 1))
    /\ UNCHANGED <<frames, wire, failed, ended, cuts>>

\* A turn of the loop, with #parseLine.
ParseLine ==
    /\ loop /\ HasLine(buffered)
    /\ LET line == SubSeq(buffered, 1, Newline(buffered) - 1)
       IN  IF TooLong(line) \/ ~(Blank(line) \/ Parses(line)) THEN GiveUp
           ELSE /\ buffered' = SubSeq(buffered, Newline(buffered) + 1, Len(buffered))
                /\ messages' = IF Blank(line) THEN messages ELSE Append(messages, line)
                /\ UNCHANGED <<failed, loop>>
    /\ UNCHANGED <<frames, wire, ended, cuts>>

\* What is left must not be too long for a line.
PushReturns ==
    /\ loop /\ ~HasLine(buffered)
    /\ IF TooLong(buffered) THEN GiveUp
       ELSE loop' = FALSE /\ UNCHANGED <<buffered, failed, messages>>
    /\ UNCHANGED <<frames, wire, ended, cuts>>

\* end(), at the end of the stream or where it breaks off.
End ==
    /\ ~loop /\ ~ended
    /\ ended' = TRUE /\ buffered' = <<>>
    /\ failed' = (failed \/ ~Blank(buffered))
    /\ UNCHANGED <<frames, wire, loop, messages, cuts>>
--------------------------------------------------------------------------------
\* encodeNdjson writes a value and a newline; the others are not from it.
Frame == {<<"a">>, <<"e">>, <<"a", "e">>, <<>>, <<"a", "!">>, <<"a", "a", "a", "a", "a", "a", "a">>}

DecoderInit ==
    /\ \E n \in 1 .. MaxFrames : frames \in [1 .. n -> Frame]
    /\ wire = Written(frames)
    /\ buffered = <<>> /\ messages = <<>>
    /\ loop = FALSE /\ failed = FALSE /\ ended = FALSE /\ cuts = {}

DecoderNext == PushChunk \/ ParseLine \/ PushReturns \/ End

DecoderSpec == DecoderInit /\ [][DecoderNext]_decoderVars
--------------------------------------------------------------------------------
Good(line) == Blank(line) \/ (Parses(line) /\ ~TooLong(line))

\* A frame as it is read: a chunk that ends inside a character leaves a U+FFFD in
\* place of each half.
Received(i) ==
    LET before == Len(Written(SubSeq(frames, 1, i - 1)))
    IN  FlattenSeq([j \in 1 .. Len(frames[i]) |->
            IF /\ frames[i][j] = "e"
               /\ before + Len(Encode(SubSeq(frames[i], 1, j - 1))) + 1 \in cuts
            THEN <<"?", "?">> ELSE <<frames[i][j]>>])

\* How many frames have arrived whole.
Whole == Len(SelectSeq(SubSeq(Written(frames), 1, At(0)), LAMBDA byte : byte = "\n"))

\* Their values, up to the first frame that is none.
Due ==
    LET count == Max({n \in 0 .. Whole : \A i \in 1 .. n : Good(Received(i))})
    IN  SelectSeq([i \in 1 .. count |-> Received(i)], LAMBDA line : ~Blank(line))

BetweenFrames == wire = <<>> \/ At(0) = 0 \/ Written(frames)[At(0)] = "\n"

\* However the stream is cut, when push() returns every value that has arrived is
\* reported, once and in order.  A cut inside a character makes two of it, which may
\* make its frame too long, and changes nothing else.  A frame that does not parse,
\* is too long or breaks off ends the decoding, and nothing behind it is reported.
FramesExact ==
    ~loop =>
        /\ messages = Due
        /\ failed => \/ \E i \in 1 .. Len(frames) : ~Good(Received(i))
                     \/ ended /\ ~BetweenFrames
        /\ ~failed => /\ \A i \in 1 .. Whole : Good(Received(i))
                      /\ ended => BetweenFrames

\* push() "Appends a UTF-8 chunk and synchronously emits every complete frame."
\* (ndjson.ts:43), as the peer has written it.
EveryFrameEmitted ==
    ~loop /\ (\A i \in 1 .. Len(frames) : Good(frames[i])) =>
        messages = SelectSeq(SubSeq(frames, 1, Whole), LAMBDA line : ~Blank(line))
================================================================================
