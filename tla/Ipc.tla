-------------------------------- MODULE Ipc --------------------------------
(***************************************************************************)
(* The daemon's request channel: connections accepted and authorized by    *)
(* one loop, each served by a task of its own that reads a frame, has the  *)
(* handler carry the request out and writes one reply; and the clients at  *)
(* the other end, any of which may go away in the middle of a frame.       *)
(*                                                                         *)
(* A frame travels in three pieces, two of the length and one of the body, *)
(* so a connection can end between any two.  A body is a length, whether   *)
(* it decodes, and the call it belongs to.                                 *)
(***************************************************************************)
EXTENDS Integers, Sequences, FiniteSets

CONSTANTS
    Clients,        \* connections made with IpcClient
    Strays,         \* connections made with anything else
    Transports,     \* the listeners to consider: "unix" and "tcp"
    MaxFrame,       \* MAX_FRAME_LEN
    MaxCalls        \* bound: calls of a client, frames of a stray

Peers == Clients \cup Strays

ASSUME PeersAssumption == Clients \cap Strays = {} /\ Transports \subseteq {"unix", "tcp"}
ASSUME BoundsAssumption == MaxFrame \in Nat \ {0} /\ MaxCalls \in Nat \ {0}

\* An empty body does not decode; it is one of the bodies that do not.
Lengths == 1..(MaxFrame + 1)
Frames == [call : 1..MaxCalls, len : Lengths, decodes : BOOLEAN]
NoFrame == [call |-> 0, len |-> 0, decodes |-> FALSE]

VARIABLES
    transport,  \* the listener this daemon was built with
    authorized, \* the peers whose uid (unix) or token (tcp) it accepts
    loop,       \* the accept loop: "accept" or "stopped"
    conn,       \* per peer: "new", "pending", "visiting" (the loop waits for its
                \* handshake), "serving" or "ended"
    outcome,    \* how serve_connection returned
    server,     \* where the task of a connection is
    request,    \* the frame it is working on
    handled,    \* the requests the handler has carried out, in order
    client,     \* where a peer is
    calls,      \* how many calls (or frames) it has started
    sending,    \* the frame it is writing
    sent,       \* the pieces of it that are written
    replied,    \* the pieces of the reply that are written
    up, down,   \* the pieces on their way to the server and back
    got         \* the replies a client has received, in order

channelVars ==
    <<transport, authorized, loop, conn, outcome, server, request, handled, client, calls, sending,
      sent, replied, up, down, got>>
setup == <<transport, authorized>>
serving == <<outcome, server, request, handled, replied>>
writing == <<calls, sending, sent>>
calling == <<client, writing, got>>

---------------------------------------------------------------------------
\* Framing.

TooLarge(len) == len > MaxFrame

\* A frame goes out, and comes in, in this order.
Parts == <<"half", "head", "body">>
Piece(part, frame) == [part |-> part, frame |-> frame]
Hello == Piece("hello", NoFrame)

\* What a reader finds: a whole header, a body, or the end of the stream before it.
HasHeader(pieces) == Len(pieces) >= 2
HasBody(pieces) == Len(pieces) >= 1
Eof(p) == client[p] \in {"gone", "failed"}

---------------------------------------------------------------------------
\* The accept loop.

ChannelInit ==
    /\ transport \in Transports /\ authorized \in SUBSET Peers
    /\ loop = "accept"
    /\ conn = [p \in Peers |-> "new"]
    /\ outcome = [p \in Peers |-> "none"]
    /\ server = [p \in Peers |-> "header"]
    /\ request = [p \in Peers |-> NoFrame]
    /\ handled = [p \in Peers |-> <<>>]
    /\ client = [p \in Peers |-> "idle"]
    /\ calls = [p \in Peers |-> 0]
    /\ sending = [p \in Peers |-> NoFrame]
    /\ sent = [p \in Peers |-> 0]
    /\ replied = [p \in Peers |-> 0]
    /\ up = [p \in Peers |-> <<>>]
    /\ down = [p \in Peers |-> <<>>]
    /\ got = [p \in Peers |-> <<>>]

Connect(p) ==
    /\ conn[p] = "new" /\ loop # "stopped" /\ client[p] = "idle"
    /\ conn' = [conn EXCEPT ![p] = "pending"]
    /\ client' = [client EXCEPT ![p] = IF transport = "tcp" THEN "greeting" ELSE "ready"]
    /\ UNCHANGED <<setup, loop, serving, writing, up, down, got>>

Admit(p) == conn' = [conn EXCEPT ![p] = IF p \in authorized THEN "serving" ELSE "ended"]

\* Fault: a connection is served before the next is accepted.
Accepting_Inline == loop = "accept" /\ \A p \in Peers : conn[p] \notin {"visiting", "serving"}

\* The loop is between two connections.
Accepting == loop = "accept" /\ \A p \in Peers : conn[p] # "visiting"

\* unix: the peer's uid is read at once; if it cannot be read, the stream is dropped.
AcceptUnix(p) ==
    /\ transport = "unix" /\ Accepting /\ conn[p] = "pending"
    /\ Admit(p) \/ conn' = [conn EXCEPT ![p] = "ended"]
    /\ UNCHANGED <<setup, loop, serving, calling, up, down>>

\* tcp: the loop itself waits for the peer's handshake, and acknowledges it.
AcceptTcp(p) ==
    /\ transport = "tcp" /\ Accepting /\ conn[p] = "pending"
    /\ conn' = [conn EXCEPT ![p] = "visiting"]
    /\ UNCHANGED <<setup, loop, serving, calling, up, down>>

Authorize(p) ==
    /\ conn[p] = "visiting"
    /\ \/ /\ HasBody(up[p])
          /\ Admit(p) \/ (Eof(p) /\ conn' = [conn EXCEPT ![p] = "ended"])
          /\ up' = [up EXCEPT ![p] = Tail(@)]
       \/ /\ ~HasBody(up[p]) /\ Eof(p)
          /\ conn' = [conn EXCEPT ![p] = "ended"]
          /\ UNCHANGED up
    /\ UNCHANGED <<setup, loop, serving, calling, down>>

\* The client's side of the handshake: its token, then the acknowledgement.
Greet(p) ==
    /\ \/ /\ client[p] = "greeting" /\ conn[p] # "ended"
          /\ client' = [client EXCEPT ![p] = "greeted"]
          /\ up' = [up EXCEPT ![p] = <<Hello>>]
       \/ /\ client[p] = "greeted" /\ conn[p] = "serving"
          /\ client' = [client EXCEPT ![p] = "ready"]
          /\ UNCHANGED up
       \/ /\ client[p] \in {"greeting", "greeted"} /\ conn[p] = "ended"
          /\ client' = [client EXCEPT ![p] = "failed"]
          /\ UNCHANGED up
    /\ UNCHANGED <<setup, loop, conn, serving, writing, down, got>>

\* accept() fails, or a signal arrives: the process ends with every task in it.
Shutdown ==
    /\ loop # "stopped"
    /\ loop' = "stopped"
    /\ conn' = [p \in Peers |-> "ended"]
    /\ UNCHANGED <<setup, serving, calling, up, down>>

---------------------------------------------------------------------------
\* serve_connection.

Serves(p, at) == conn[p] = "serving" /\ server[p] = at

Ends(p, how) ==
    /\ conn' = [conn EXCEPT ![p] = "ended"]
    /\ outcome' = [outcome EXCEPT ![p] = how]

ReadHeader(p) ==
    /\ Serves(p, "header")
    /\ \/ /\ HasHeader(up[p])
          /\ up' = [up EXCEPT ![p] = Tail(Tail(@))]
          /\ request' = [request EXCEPT ![p] = up[p][1].frame]
          /\ IF TooLarge(up[p][1].frame.len)
             THEN Ends(p, "too_large") /\ UNCHANGED server
             ELSE server' = [server EXCEPT ![p] = "body"] /\ UNCHANGED <<conn, outcome>>
       \/ /\ ~HasHeader(up[p]) /\ Eof(p)
          /\ Ends(p, "closed")
          /\ UNCHANGED <<up, request, server>>
    /\ UNCHANGED <<setup, loop, handled, replied, calling, down>>

ReadBody(p) ==
    /\ Serves(p, "body")
    /\ \/ /\ HasBody(up[p])
          /\ up' = [up EXCEPT ![p] = Tail(@)]
          /\ IF request[p].decodes
             THEN server' = [server EXCEPT ![p] = "handle"] /\ UNCHANGED <<conn, outcome>>
             ELSE Ends(p, "decode") /\ UNCHANGED server
       \/ /\ ~HasBody(up[p]) /\ Eof(p)
          /\ Ends(p, "io")
          /\ UNCHANGED <<up, server>>
    /\ UNCHANGED <<setup, loop, request, handled, replied, calling, down>>

\* The handler runs to its end, whether or not the peer is still there.
Handle(p) ==
    /\ Serves(p, "handle")
    /\ handled' = [handled EXCEPT ![p] = Append(@, request[p].call)]
    /\ server' = [server EXCEPT ![p] = "reply"]
    /\ UNCHANGED <<setup, loop, conn, outcome, request, replied, calling, up, down>>

WriteReplyPiece(p) ==
    /\ down' = [down EXCEPT ![p] = Append(@, Piece(Parts[replied[p] + 1], request[p]))]
    /\ replied' = [replied EXCEPT ![p] = (@ + 1) % 3]
    /\ server' = [server EXCEPT ![p] = IF replied[p] = 2 THEN "header" ELSE "reply"]

\* What a server might do on a reply that does not go through, other than end.
WriteReplyElse(p, else) ==
    /\ Serves(p, "reply")
    /\ WriteReplyPiece(p) \/ else
    /\ UNCHANGED <<setup, loop, conn, outcome, request, handled, calling, up>>

\* Fault: a reply that cannot be written is worked out again.
WriteReply_Retry(p) ==
    WriteReplyElse(p, replied[p] = 0 /\ server' = [server EXCEPT ![p] = "handle"]
                          /\ UNCHANGED <<replied, down>>)
\* Fault: it is written again from its beginning.
WriteReply_Restarts(p) ==
    WriteReplyElse(p, replied[p] > 0 /\ replied' = [replied EXCEPT ![p] = 0]
                          /\ UNCHANGED <<server, down>>)
\* Fault: it is logged and the connection goes on without it.
WriteReply_Skips(p) ==
    WriteReplyElse(p, replied[p] = 0 /\ server' = [server EXCEPT ![p] = "header"]
                          /\ UNCHANGED <<replied, down>>)

\* write_frame: piece by piece; it fails on a reply beyond the limit, before the
\* first, or at any piece on a peer that has gone.
WriteReply(p) ==
    /\ Serves(p, "reply")
    /\ \/ WriteReplyPiece(p) /\ UNCHANGED <<conn, outcome>>
       \/ /\ \/ replied[p] = 0 /\ Ends(p, "too_large")
             \/ Eof(p) /\ Ends(p, "io")
          /\ UNCHANGED <<server, replied, down>>
    /\ UNCHANGED <<setup, loop, request, handled, calling, up>>

---------------------------------------------------------------------------
\* The clients.

Begins(p, frame) ==
    /\ client' = [client EXCEPT ![p] = "writing"]
    /\ sending' = [sending EXCEPT ![p] = frame]
    /\ sent' = [sent EXCEPT ![p] = 0]

\* IpcClient::call, one at a time; a frame beyond the limit is not sent.
Call(c) ==
    /\ c \in Clients /\ client[c] = "ready" /\ calls[c] < MaxCalls
    /\ calls' = [calls EXCEPT ![c] = @ + 1]
    /\ \E len \in Lengths :
          IF len > MaxFrame
          THEN UNCHANGED <<client, sending, sent>>
          ELSE Begins(c, [call |-> calls[c] + 1, len |-> len, decodes |-> TRUE])
    /\ UNCHANGED <<setup, loop, conn, serving, up, down, got>>

\* A stray sends what it likes, without waiting for replies.
Babble(p) ==
    /\ p \in Strays /\ client[p] = "ready" /\ calls[p] < MaxCalls
    /\ calls' = [calls EXCEPT ![p] = @ + 1]
    /\ \E len \in Lengths, decodes \in BOOLEAN :
          /\ len > MaxFrame => decodes      \* such a body is not looked at
          /\ Begins(p, [call |-> calls[p] + 1, len |-> len, decodes |-> decodes])
    /\ UNCHANGED <<setup, loop, conn, serving, up, down, got>>

WritePiece(p) ==
    /\ client[p] = "writing"
    /\ \/ /\ conn[p] # "ended"
          /\ up' = [up EXCEPT ![p] = Append(@, Piece(Parts[sent[p] + 1], sending[p]))]
          /\ sent' = [sent EXCEPT ![p] = @ + 1]
          /\ client' = [client EXCEPT ![p] =
                IF sent[p] < 2 THEN "writing" ELSE IF p \in Clients THEN "waiting" ELSE "ready"]
       \/ /\ conn[p] = "ended"
          /\ client' = [client EXCEPT ![p] = "failed"]
          /\ UNCHANGED <<up, sent>>
    /\ UNCHANGED <<setup, loop, conn, serving, calls, sending, down, got>>

ReadReply(c) ==
    /\ client[c] = "waiting"
    /\ \/ /\ Len(down[c]) >= 3
          /\ down' = [down EXCEPT ![c] = SubSeq(@, 4, Len(@))]
          /\ got' = [got EXCEPT ![c] = Append(@, down[c][1].frame.call)]
          /\ client' = [client EXCEPT ![c] = "ready"]
       \/ /\ Len(down[c]) < 3 /\ conn[c] = "ended"
          /\ client' = [client EXCEPT ![c] = "failed"]
          /\ UNCHANGED <<down, got>>
    /\ UNCHANGED <<setup, loop, conn, serving, writing, up>>

\* The peer's process ends, or drops its connection.
Leave(p) ==
    /\ client[p] \in {"greeting", "greeted", "ready", "writing", "waiting"}
    /\ client' = [client EXCEPT ![p] = "gone"]
    /\ UNCHANGED <<setup, loop, conn, serving, writing, up, down, got>>

---------------------------------------------------------------------------
Listen(p) == AcceptUnix(p) \/ AcceptTcp(p) \/ Authorize(p)
Serve(p) == ReadHeader(p) \/ ReadBody(p) \/ Handle(p) \/ WriteReply(p)
Speak(p) == Connect(p) \/ Greet(p) \/ Call(p) \/ Babble(p) \/ WritePiece(p) \/ ReadReply(p)

ChannelNext ==
    \/ \E p \in Peers : Listen(p) \/ Serve(p) \/ Speak(p) \/ Leave(p)
    \/ Shutdown

ChannelSpec == ChannelInit /\ [][ChannelNext]_channelVars

\* Tasks of the runtime run, and IpcClient goes on once it has begun a call; a
\* stray owes nobody anything.
FairSpec ==
    /\ ChannelSpec
    /\ \A p \in Peers : WF_channelVars(Listen(p)) /\ WF_channelVars(Serve(p))
    /\ \A c \in Clients : WF_channelVars(Greet(c)) /\ WF_channelVars(WritePiece(c)) /\ WF_channelVars(ReadReply(c))

---------------------------------------------------------------------------
\* Properties.

InOrder(s) == \A i, j \in DOMAIN s : i < j => s[i] < s[j]

Pieces == {Hello} \cup {Piece(Parts[i], f) : i \in DOMAIN Parts, f \in Frames}

\* Types; the loop waits for one handshake at a time, and nobody reads a piece of
\* a frame twice.
ChannelTypeOK ==
    /\ transport \in Transports /\ authorized \subseteq Peers
    /\ loop \in {"accept", "stopped"}
    /\ Cardinality({p \in Peers : conn[p] = "visiting"}) <= 1
    /\ \A p \in Peers :
        /\ conn[p] \in {"new", "pending", "visiting", "serving", "ended"}
        /\ outcome[p] \in {"none", "closed", "too_large", "io", "decode"}
        /\ server[p] \in {"header", "body", "handle", "reply"}
        /\ request[p] \in Frames \cup {NoFrame} /\ sending[p] \in Frames \cup {NoFrame}
        /\ client[p] \in {"idle", "greeting", "greeted", "ready", "writing", "waiting", "gone", "failed"}
        /\ calls[p] \in 0..MaxCalls /\ sent[p] \in 0..3 /\ replied[p] \in 0..2
        /\ \A i \in DOMAIN up[p] : up[p][i] \in Pieces
        /\ \A i \in DOMAIN down[p] : down[p][i] \in Pieces \ {Hello}

\* Each request is carried out at most once, in the order its peer sent them,
\* and a reply belongs to a call that was carried out, also when connections
\* break between carrying it out and replying (serve_connection, IpcClient::call).
AtMostOnce ==
    \A p \in Peers :
        /\ InOrder(handled[p]) /\ InOrder(got[p])
        /\ \A i \in DOMAIN got[p] : \E j \in DOMAIN handled[p] : handled[p][j] = got[p][i]

\* A client that is waiting gets the reply to this call, never to an earlier
\* one: what lies between it and the server is one exchange at a time.
ReplyIsToThisCall ==
    \A c \in Clients :
        /\ client[c] = "waiting" => \A i \in DOMAIN down[c] : down[c][i].frame = sending[c]
        /\ client[c] \in {"ready", "writing"} => down[c] = <<>>

\* The handler sees only whole frames that fit and decode, of authorized peers.
OnlyWholeRequests ==
    \A p \in Peers : conn[p] = "serving" /\ server[p] \in {"handle", "reply"} =>
        p \in authorized /\ request[p].decodes /\ request[p].len <= MaxFrame

\* Whatever write_frame agrees to send, read_frame agrees to read: a client's
\* connection never ends over a request that is malformed or too large.
WriterFitsReader ==
    \A c \in Clients : outcome[c] # "decode" /\ ~(outcome[c] = "too_large" /\ server[c] = "header")

\* A call that has begun returns, with its reply or an error, if its process
\* lives on, whatever other connections do (server.rs:83-84).
CallsReturn ==
    \A c \in Clients : client[c] \in {"writing", "waiting"} ~> client[c] \in {"ready", "failed", "gone"}

\* server.rs:84: one misbehaving client cannot deny service to others.
EverybodyServed == \A c \in Clients : conn[c] = "pending" ~> conn[c] # "pending"

\* The same of the Unix socket, whose accept never waits for a peer
\* (UnixSocketListener::accept).
UnixServesEverybody ==
    \A c \in Clients : transport = "unix" /\ conn[c] = "pending" ~> conn[c] # "pending"

\* frame.rs:42: Closed is the end of the stream at a frame boundary.
ClosedIsClean == \A p \in Peers : outcome[p] = "closed" => up[p] = <<>>

=============================================================================
