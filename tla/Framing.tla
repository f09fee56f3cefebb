------------------------------- MODULE Framing -------------------------------
(***************************************************************************)
(* One TCP connection carrying framed messages, src/source/shared.{h,cpp}: *)
(* a frame is a 4-byte big-endian length (convert_int_to_byte_array) and  *)
(* the payload (construct_message, send_clt_message).  The receiving side  *)
(* is the serving loop of server_worker (server.cpp) and of the master's   *)
(* handle_connection: peek one byte, recv_clt_message (secure_recv, which  *)
(* calls read_n twice), dispatch message.ops(0).                          *)
(*                                                                         *)
(* The kernel may hand read_n any nonempty part of the bytes that arrived. *)
(* The peer sends whole frames; it may also die part-way through a frame  *)
(* (the kernel then closes the connection) or stop part-way through one   *)
(* and never send or close again.                                          *)
(***************************************************************************)
EXTENDS Integers, Sequences, SequencesExt

CONSTANTS
  Payloads,     \* serialized client_msg payloads (sequences of byte values)
  MaxMsgs,      \* bound on the frames the peer sends on the connection
  MaxRetries,   \* read_n's max_retries (10000 in the code)
  PeerFaults,   \* which peer failures may happen: subset of {"crash", "stall"}
  NoMsg         \* a client_msg no receive has filled in

-----------------------------------------------------------------------------
(* The length field: a uint32 memcpy'd on a little-endian host, with     *)
(* __builtin_bswap32 around it.  A uint32 is kept as the four bytes of its *)
(* memory image, so bswap reverses them; values are read back only below   *)
(* 2^31, which TLC's integers hold (payloads here are a few bytes, so the  *)
(* size_t-to-uint32 cut of convert_int_to_byte_array never bites).        *)

\* the bytes of an integer below 2^32 in memory on a little-endian host
LEBytes(x) == [i \in 1..4 |-> (x \div 2^(8 * (i - 1))) % 256]

\* the integer that memcpy builds from four bytes on a little-endian host
FromLE(b) == b[1] + 256 * b[2] + 65536 * b[3] + 16777216 * b[4]

\* mutant: the length field copied without the byte swap
EncodeNoSwap(n) == LEBytes(n)

\* convert_int_to_byte_array(dst, sz): tmp = bswap32(sz); memcpy(dst, &tmp, 4)
Encode(n) == Reverse(LEBytes(n))

\* convert_byte_array_to_int(b): memcpy(&res, b, 4); bswap32(res)
Decode(b) == FromLE(Reverse(b))

\* construct_message: length field, then the payload
Frame(p) == Encode(Len(p)) \o p

\* the wire format of spec 4.1: the length in network byte order
BigEndianRef(n) == [i \in 1..4 |-> (n \div 2^(8 * (4 - i))) % 256]

-----------------------------------------------------------------------------
VARIABLES
  wire,        \* bytes sent and not yet read by the receiver
  sent,        \* history: payloads the peer sent as whole frames
  out,         \* history: every byte the peer put on the connection
  sclosed,     \* the peer closed the connection (or its process died)
  stalled,     \* the peer stopped mid-frame and will do nothing more
  rpc,         \* where the receiver is: peek, len, body, done
  buf,         \* the bytes read_n has read into its buffer so far
  need,        \* read_n's n
  retries,     \* read_n's retries
  message,     \* the receiver's client_msg, declared once per connection
  accepted,    \* history: payloads recv_clt_message returned true for
  dispatched,  \* history: messages the loop dispatched
  rcrashed     \* the receiving process died

vars == <<wire, sent, out, sclosed, stalled, rpc, buf, need, retries, message,
          accepted, dispatched, rcrashed>>

peer == <<wire, sent, out, sclosed, stalled>>

receiver == <<rpc, buf, need, retries, message, accepted, dispatched, rcrashed>>

Init ==
  /\ wire = <<>> /\ sent = <<>> /\ out = <<>>
  /\ sclosed = FALSE /\ stalled = FALSE
  /\ rpc = "peek" /\ buf = <<>> /\ need = 0 /\ retries = 0
  /\ message = NoMsg
  /\ accepted = <<>> /\ dispatched = <<>>
  /\ rcrashed = FALSE

-----------------------------------------------------------------------------
(* The peer.                                                               *)

PeerLive == ~sclosed /\ ~stalled

\* send_clt_message: serialize, construct_message, secure_send the whole buffer
SendFrame(p) ==
  /\ PeerLive /\ Len(sent) < MaxMsgs
  /\ wire' = wire \o Frame(p)
  /\ out' = out \o Frame(p)
  /\ sent' = Append(sent, p)
  /\ UNCHANGED <<sclosed, stalled, receiver>>

\* close_socket after the last message
PeerClose ==
  /\ PeerLive
  /\ sclosed' = TRUE
  /\ UNCHANGED <<wire, sent, out, stalled, receiver>>

\* the peer dies after part of a frame reached the kernel
PeerCrash(p, j) ==
  /\ "crash" \in PeerFaults /\ PeerLive
  /\ wire' = wire \o SubSeq(Frame(p), 1, j)
  /\ out' = out \o SubSeq(Frame(p), 1, j)
  /\ sclosed' = TRUE
  /\ UNCHANGED <<sent, stalled, receiver>>

\* the peer sends part of a frame and then neither sends nor closes
PeerStall(p, j) ==
  /\ "stall" \in PeerFaults /\ PeerLive
  /\ wire' = wire \o SubSeq(Frame(p), 1, j)
  /\ out' = out \o SubSeq(Frame(p), 1, j)
  /\ stalled' = TRUE
  /\ UNCHANGED <<sent, sclosed, receiver>>

-----------------------------------------------------------------------------
(* The receiver: the inner while (true) of server_worker.                  *)

Reading == {"len", "body"}

\* one dispatch of message.ops(0); on a message no receive ever filled in,
\* ops(0) indexes an empty repeated field and the process dies
Dispatch(m) ==
  \/ /\ m = NoMsg
     /\ rcrashed' = TRUE
     /\ UNCHANGED <<rpc, dispatched>>
  \/ /\ m # NoMsg
     /\ dispatched' = Append(dispatched, m)
     /\ rpc' = "peek"
     /\ UNCHANGED rcrashed

\* read_n's locals go out of scope
ReadNDone == buf' = <<>> /\ need' = 0 /\ retries' = 0

\* recv(MSG_PEEK) > 0: start secure_recv with read_n(fd, dlen, 4)
PeekData ==
  /\ rpc = "peek" /\ ~rcrashed /\ wire # <<>>
  /\ rpc' = "len" /\ need' = 4 /\ buf' = <<>> /\ retries' = 0
  /\ UNCHANGED <<peer, message, accepted, dispatched, rcrashed>>

\* recv(MSG_PEEK) <= 0: closed, or nothing within the 3 s timeout: break
PeekEnd ==
  /\ rpc = "peek" /\ ~rcrashed /\ wire = <<>>
  /\ rpc' = "done"
  /\ UNCHANGED <<peer, buf, need, retries, message, accepted, dispatched, rcrashed>>

\* read_n: recv returns some of the bytes that arrived; retries = 0
ReadSome ==
  /\ rpc \in Reading /\ ~rcrashed /\ Len(buf) < need /\ wire # <<>>
  /\ \E k \in 1..Min({need - Len(buf), Len(wire)}) :
       /\ buf' = buf \o SubSeq(wire, 1, k)
       /\ wire' = SubSeq(wire, k + 1, Len(wire))
  /\ retries' = 0
  /\ UNCHANGED <<sent, out, sclosed, stalled, rpc, need, message, accepted,
                 dispatched, rcrashed>>

\* mutant: the retry check off by one (retries <= max_retries)
ReadEofOffByOne ==
  /\ rpc \in Reading /\ ~rcrashed /\ Len(buf) < need /\ wire = <<>> /\ sclosed
  /\ retries <= MaxRetries
  /\ retries' = retries + 1
  /\ UNCHANGED <<peer, rpc, buf, need, message, accepted, dispatched, rcrashed>>

\* mutant: a zero-byte recv is retried without counting it
ReadEofSpin ==
  /\ rpc \in Reading /\ ~rcrashed /\ Len(buf) < need /\ wire = <<>> /\ sclosed
  /\ retries < MaxRetries
  /\ UNCHANGED <<peer, rpc, buf, need, retries, message, accepted, dispatched, rcrashed>>

\* read_n: recv returns 0 on a closed connection; ++retries and continue
\* (recv returning -1 on the 3 s timeout changes nothing and loops)
ReadEof ==
  /\ rpc \in Reading /\ ~rcrashed /\ Len(buf) < need /\ wire = <<>> /\ sclosed
  /\ retries < MaxRetries
  /\ retries' = retries + 1
  /\ UNCHANGED <<peer, rpc, buf, need, message, accepted, dispatched, rcrashed>>

\* read_n returns short after max_retries; secure_recv returns {0, nullptr};
\* recv_clt_message returns false, which the loop ignores: it dispatches
\* the message it already had
ReadShort ==
  /\ rpc \in Reading /\ ~rcrashed /\ Len(buf) < need /\ wire = <<>> /\ sclosed
  /\ retries >= MaxRetries
  /\ Dispatch(message)
  /\ ReadNDone
  /\ UNCHANGED <<peer, message, accepted>>

\* the length field is complete: read_n(fd, buf, actual_msg_size)
LenDone ==
  /\ rpc = "len" /\ ~rcrashed /\ Len(buf) = 4
  /\ rpc' = "body" /\ need' = Decode(buf) /\ buf' = <<>> /\ retries' = 0
  /\ UNCHANGED <<peer, message, accepted, dispatched, rcrashed>>

\* a complete zero-length payload: bytecount <= 0, recv_clt_message false
BodyEmpty ==
  /\ rpc = "body" /\ ~rcrashed /\ need = 0
  /\ Dispatch(message)
  /\ ReadNDone
  /\ UNCHANGED <<peer, message, accepted>>

\* mutant: the payload taken as soon as the first recv returned some of it
BodyDoneEarly ==
  /\ rpc = "body" /\ ~rcrashed /\ need > 0 /\ Len(buf) > 0
  /\ message' = buf
  /\ accepted' = Append(accepted, buf)
  /\ Dispatch(buf)
  /\ ReadNDone
  /\ UNCHANGED peer

\* a complete payload: ParseFromString and IsInitialized succeed (the peer
\* here only frames serialized messages, so their exit(1) paths are not taken)
BodyDone ==
  /\ rpc = "body" /\ ~rcrashed /\ need > 0 /\ Len(buf) = need
  /\ message' = buf
  /\ accepted' = Append(accepted, buf)
  /\ Dispatch(buf)
  /\ ReadNDone
  /\ UNCHANGED peer

-----------------------------------------------------------------------------
Receive ==
  \/ PeekData \/ PeekEnd \/ ReadSome \/ ReadEof \/ ReadShort
  \/ LenDone \/ BodyEmpty \/ BodyDone

Next ==
  \/ \E p \in Payloads : \/ SendFrame(p)
                         \/ \E j \in 1..(Len(Frame(p)) - 1) : PeerCrash(p, j)
  \/ PeerClose
  \/ Receive

\* the serving thread always runs; the peer may stop at any moment
Spec == Init /\ [][Next]_vars /\ WF_vars(Receive)

\* the same connection with a peer that may also go silent mid-frame
NextWithStall ==
  \/ Next
  \/ \E p \in Payloads : \E j \in 1..(Len(Frame(p)) - 1) : PeerStall(p, j)

SpecWithStall == Init /\ [][NextWithStall]_vars /\ WF_vars(Receive)

-----------------------------------------------------------------------------
(* Properties.                                                             *)

TypeOK ==
  /\ wire \in Seq(0..255) /\ out \in Seq(0..255)
  /\ sent \in Seq(Payloads) /\ Len(sent) <= MaxMsgs
  /\ sclosed \in BOOLEAN /\ stalled \in BOOLEAN
  /\ rpc \in {"peek", "len", "body", "done"}
  /\ buf \in Seq(0..255) /\ need \in Nat
  /\ retries \in 0..MaxRetries
  /\ message \in Payloads \cup {NoMsg}
  /\ accepted \in Seq(Payloads) /\ dispatched \in Seq(Payloads)
  /\ rcrashed \in BOOLEAN

\* lengths at the edges of each byte of the field, up to the largest int
CodecSamples == {0, 1, 255, 256, 65535, 65536, 16777215, 16777216, 2147483647}

\* Spec 4.1 and 8 (scenario 6): the length field is the payload size in network
\* byte order (65535 frames as 00 00 FF FF), and convert_byte_array_to_int
\* inverts convert_int_to_byte_array, for the edge lengths and for the
\* payloads sent so far.
LengthCodecCorrect ==
  \A n \in CodecSamples \cup {Len(sent[i]) : i \in DOMAIN sent} :
     Encode(n) = BigEndianRef(n) /\ Decode(Encode(n)) = n

FramesLen(ps) == Len(FlattenSeq([i \in 1..Len(ps) |-> Frame(ps[i])]))

NonEmpty(ps) == SelectSeq(ps, LAMBDA p : p # <<>>)

\* Spec 4.1 and 5: recv_framed reads exactly 4 bytes and then exactly length
\* bytes, and within a connection the framed transport preserves order.
\* Whatever pieces recv returns, recv_clt_message accepts exactly the
\* payloads sent, in order, and while every receive has succeeded the
\* serving loop has consumed exactly the frames of those it accepted.  (An
\* empty payload is never accepted, by the bytecount <= 0 test; what the loop
\* does then is DispatchOnlyReceived's concern.)
AcceptedInOrder ==
  /\ IsPrefix(accepted, NonEmpty(sent))
  /\ rpc = "peek" /\ dispatched = accepted => Len(out) - Len(wire) = FramesLen(accepted)

\* Spec 7: a ConnectionClosed ends the stream and the worker closes the
\* socket; so the serving loop of server_worker dispatches only what
\* recv_clt_message has just received, never a message twice.
DispatchOnlyReceived == dispatched = accepted

\* Spec 5 and 7: the 3 s SO_RCVTIMEO makes the worker treat a silent
\* connection as closed (ReadTimeout is end-of-stream): once inside
\* read_n, the serving loop gets back to its peek (or the process ends).
ReceiverReturns == (rpc \in Reading) ~> (rpc \in {"peek", "done"} \/ rcrashed)

=============================================================================
