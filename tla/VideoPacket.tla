---------------------------- MODULE VideoPacket ----------------------------
(***************************************************************************)
(* The wire format of requests and responses (video-packet.go): header     *)
(* lines "Key: Value", an empty line, and for a response as many bytes as  *)
(* its Content-Length says.  What is on a stream is a sequence of tokens:  *)
(* a token is a line that ends, or a unit of data, which may look like     *)
(* one.  A line that has not ended is not a token yet.                     *)
(***************************************************************************)
EXTENDS Integers, SequencesExt

CONSTANT NotANumber  \* a value that Atoi refuses

Header(key, value) == [key |-> key, value |-> value]
Blank == Header("", 0)

\* A line without a colon.
NotAPair == Header("not a key value pair", NotANumber)

RequestKeys == <<"Priority", "Bitrate", "Segment", "Tile", "Timeout">>
ResponseKeys == <<"Priority", "Bitrate", "Segment", "Tile">>

\* A request, and what comes before the data of a response, is a packet: a
\* function from its keys to numbers.
-----------------------------------------------------------------------------
(* Writing                                                                 *)

Headers(keys, packet) == [i \in DOMAIN keys |-> Header(keys[i], packet[keys[i]])]

WriteRequest(packet) == Append(Headers(RequestKeys, packet), Blank)

\* Mutant of WriteResponse: the header is one short.
WriteResponseShort(packet, data) ==
  Headers(ResponseKeys, packet) \o <<Header("Content-Length", Len(data) - 1), Blank>> \o data

WriteResponse(packet, data) ==
  Headers(ResponseKeys, packet) \o <<Header("Content-Length", Len(data)), Blank>> \o data
-----------------------------------------------------------------------------
(* Reading                                                                 *)

\* The packet before its first line: every key has a default of 0.
NoLines(keys) == [key \in ToSet(keys) |-> 0]

\* A line that is an error, where these keys are known.
Malformed(keys, line) ==
  line = NotAPair \/ (line.key \in ToSet(keys) /\ line.value = NotANumber)

\* A packet with one more line.  Unknown keys are skipped.
ReadLine(packet, line) ==
  IF line.key \in DOMAIN packet THEN [packet EXCEPT ![line.key] = line.value] ELSE packet

LengthKeys == Append(ResponseKeys, "Content-Length")

\* The response that begins after the first n tokens; none if more is needed, or
\* on an error, which is what the reader then waits for or returns with.  To make
\* room for a negative length is a panic.
ReadVideoPacketResponse(tokens, n) ==
  LET ends == {i \in n + 1 .. Len(tokens) : tokens[i] = Blank \/ Malformed(LengthKeys, tokens[i])}
      last == Min(ends)
      headers == FoldLeft(ReadLine, NoLines(LengthKeys), SubSeq(tokens, n + 1, last - 1))
      end == last + headers["Content-Length"]
  IN IF \/ ends = {}
        \/ tokens[last] # Blank
        \/ headers["Content-Length"] \notin Nat
        \/ end > Len(tokens)
     THEN {}
     ELSE {[packet |-> Restrict(headers, ToSet(ResponseKeys)),
            data |-> SubSeq(tokens, last + 1, end),
            end |-> end]}

\* The responses one reader reads before it needs more or meets an error.
ReadAll(tokens) ==
  LET From[n \in 0 .. Len(tokens)] ==
        LET read == ReadVideoPacketResponse(tokens, n)
        IN IF read = {} THEN << >>
           ELSE LET r == CHOOSE r \in read : TRUE
                IN <<[packet |-> r.packet, data |-> r.data]>> \o From[r.end]
  IN From[0]
=============================================================================
