---------------------------- MODULE WiredStream ----------------------------
(***************************************************************************)
(* The server's side of a connection with what is on its streams: the      *)
(* client writes requests in the wire format, the listeners read them from *)
(* it, and the worker writes responses that carry the contents of files.   *)
(* Module StreamHandler is what this promises: there a request arrives as  *)
(* one, and a listener ends when no more requests come.                    *)
(*                                                                         *)
(* inbox is a history variable here: the requests that are on the wire.    *)
(* What a listener does depends only on the wire.                          *)
(***************************************************************************)
EXTENDS StreamHandler, VideoPacket

CONSTANTS
  Files,     \* per segment: the contents of its file, empty if unreadable
  Bitrate,   \* the other values of every request
  Tile,
  Timeout

\* Numbers are what Atoi accepts, and what a request holds are numbers.
ASSUME WiredAssumption ==
  NotANumber \notin Nat \cup Levels \cup {Bitrate, Tile, Timeout}

\* What a file holds may look like anything.
ASSUME FilesAssumption ==
  \A n \in 1 .. MaxRequests :
    Files[n] \in Seq([key : STRING, value : Int \cup {NotANumber}])

VARIABLES
  wire,   \* per stream: what the client has written and its listener not read
  packet, \* per stream: the request its listener is in the middle of
  out     \* per stream: what the server has written

wiring == <<wire, packet, out>>
wiredVars == <<vars, wiring>>

PacketOf(r) ==
  [key \in ToSet(RequestKeys) |->
     CASE key = "Priority" -> r.priority
       [] key = "Bitrate"  -> Bitrate
       [] key = "Segment"  -> r.n
       [] key = "Tile"     -> Tile
       [] key = "Timeout"  -> Timeout]

\* The request that a packet is.
Received(s, p) == [stream |-> s, n |-> p["Segment"], priority |-> p["Priority"]]

readFile(r) == Files[r.n]

WiredInit ==
  /\ Init
  /\ wire = [s \in Streams |-> << >>]
  /\ packet = [s \in Streams |-> NoLines(RequestKeys)]
  /\ out = [s \in Streams |-> << >>]
-----------------------------------------------------------------------------
WireRequest(s, l) ==
  /\ SendRequest(s, l)
  /\ wire' = [wire EXCEPT ![s] = @ \o WriteRequest(PacketOf(Last(inbox'[s])))]
  /\ UNCHANGED <<packet, out>>

\* After its last request the client ends the stream: at once, in the middle of
\* a request, after a line that is none, or with a number that is none.
Endings ==
  {<< >>,
   <<Header("Priority", 0), Header("Segment", 1)>>,
   <<Header("an unknown key", NotANumber), NotAPair>>,
   <<Header("Timeout", NotANumber), Blank>>}

WireEnd(s) ==
  /\ EndRequests(s)
  /\ \E ending \in Endings : wire' = [wire EXCEPT ![s] = @ \o ending]
  /\ UNCHANGED <<packet, out>>

\* The loop of ReadVideoPacketRequest: a line of headers.
WireReadLine(s) ==
  /\ listenPc[s] = "read"
  /\ wire[s] # << >>
  /\ LET line == Head(wire[s])
     IN /\ line # Blank
        /\ ~Malformed(RequestKeys, line)
        /\ packet' = [packet EXCEPT ![s] = ReadLine(@, line)]
  /\ wire' = [wire EXCEPT ![s] = Tail(@)]
  /\ UNCHANGED <<vars, out>>

\* Mutant of WireRead: nothing is read once the client has ended the stream.
WireReadWhileOpen(s) ==
  /\ Listen(s, "read", "got")
  /\ ~eof[s]
  /\ wire[s] # << >>
  /\ Head(wire[s]) = Blank
  /\ reading' = [reading EXCEPT ![s] = Received(s, packet[s])]
  /\ packet' = [packet EXCEPT ![s] = NoLines(RequestKeys)]
  /\ wire' = [wire EXCEPT ![s] = Tail(@)]
  /\ inbox' = [inbox EXCEPT ![s] = Tail(@)]
  /\ UNCHANGED <<counting, refused, pool, out>>

\* The empty line: the request is complete.
WireRead(s) ==
  /\ Listen(s, "read", "got")
  /\ wire[s] # << >>
  /\ Head(wire[s]) = Blank
  /\ reading' = [reading EXCEPT ![s] = Received(s, packet[s])]
  /\ packet' = [packet EXCEPT ![s] = NoLines(RequestKeys)]
  /\ wire' = [wire EXCEPT ![s] = Tail(@)]
  /\ inbox' = [inbox EXCEPT ![s] = Tail(@)]
  /\ UNCHANGED <<counting, refused, pool, out>>

\* Mutant of WireReadFails: the end of the stream hides what comes before it.
WireReadFailsEarly(s) ==
  /\ Listen(s, "read", "leave")
  /\ \/ eof[s]
     \/ wire[s] # << >> /\ Malformed(RequestKeys, Head(wire[s]))
     \/ ~connected
  /\ UNCHANGED <<inbox, reading, counting, refused, pool, wiring>>

\* The read fails: at the end of the stream, on what is no request, or because
\* the connection is lost.
WireReadFails(s) ==
  /\ Listen(s, "read", "leave")
  /\ \/ wire[s] = << >> /\ eof[s]
     \/ wire[s] # << >> /\ Malformed(RequestKeys, Head(wire[s]))
     \/ ~connected
  /\ UNCHANGED <<inbox, reading, counting, refused, pool, wiring>>

\* The worker flushes the whole response in Respond.
WiredWorkerStep ==
  /\ WorkerStep
  /\ out' = [s \in Streams |->
               IF replies'[s] = replies[s] THEN out[s]
               ELSE out[s] \o WriteResponse(PacketOf(running), readFile(running))]
  /\ UNCHANGED <<wire, packet>>

WiredListenStep(s) ==
  \/ WireReadLine(s)
  \/ WireRead(s)
  \/ WireReadFails(s)
  \/ ListenBetweenReads(s) /\ UNCHANGED wiring

WiredAcceptor ==
  /\ \/ \E s \in Streams : AcceptStream(s) \/ HandleStream(s)
     \/ StopOnDisconnect
  /\ UNCHANGED wiring

ConnectionEnds ==
  /\ Disconnect \/ EndContext
  /\ UNCHANGED wiring

WiredNext ==
  \/ \E s \in Streams :
       \/ \E l \in Levels : WireRequest(s, l)
       \/ WireEnd(s)
       \/ WiredListenStep(s)
  \/ WiredAcceptor
  \/ ConnectionEnds
  \/ WiredWorkerStep

\* As in StreamHandler.
WiredFairness ==
  /\ \A s \in Streams : WF_wiredVars(WiredListenStep(s))
  /\ WF_wiredVars(WiredAcceptor)
  /\ WF_wiredVars(WiredWorkerStep)
  /\ WF_wiredVars(EndContext /\ UNCHANGED wiring)

WiredSpec == WiredInit /\ [][WiredNext]_wiredVars /\ WiredFairness
-----------------------------------------------------------------------------
\* The listeners find on the wire exactly the requests the client wrote, in
\* order and each once, and end where they end, however the client's stream ends
\* (video-packet.go:42-99): every step is one of module StreamHandler.
ImplementsHandler == Spec

\* The responses a stream holds, as the client is to see them.
Responses(s) ==
  [i \in DOMAIN replies[s] |->
     [packet |-> Restrict(PacketOf(replies[s][i]), ToSet(ResponseKeys)),
      data |-> readFile(replies[s][i])]]

\* One reader reads back from a stream every response written to it, with the
\* headers of its request and the contents of its file, whatever these look like;
\* and from any part of it that has arrived only whole responses, in that order
\* (video-packet.go:102-186, client.go:144-146).
ResponsesAreFramed ==
  \A s \in Streams :
    /\ ReadAll(out[s]) = Responses(s)
    /\ \A k \in 0 .. Len(out[s]) : IsPrefix(ReadAll(SubSeq(out[s], 1, k)), Responses(s))
=============================================================================
