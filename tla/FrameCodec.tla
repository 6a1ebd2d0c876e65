----------------------------- MODULE FrameCodec -----------------------------
(***************************************************************************)
(* One direction of a transport between FrameEncoder and FrameDecoder      *)
(* (crates/protocol/src/codec.rs).  Both session loops call decode in a    *)
(* select!, so that its future may be dropped at any read and decode be    *)
(* called again; the bytes of a frame arrive in pieces of any size; and    *)
(* the connection may end after any byte.                                  *)
(*                                                                         *)
(* A byte is known by the frame it belongs to and its place there: the     *)
(* first HeaderSize places are the header.                                 *)
(***************************************************************************)
EXTENDS Naturals, Sequences

CONSTANTS HeaderSize,  \* HEADER_SIZE; 16 in the code
          MaxPayload,  \* MAX_FRAME_PAYLOAD
          MaxFrames    \* bound on the frames sent

VARIABLES
  sent,     \* the frames written by the peer
  wire,     \* bytes written and not yet read
  eof,      \* the peer's end is closed
  header,   \* the header bytes read: header[..header_offset]
  pending,  \* the PendingFrame: its header's frame and the payload read
  calling,  \* where the decode future waits, "no" without one
  over,     \* bytes read since the last frame was returned
  out,      \* frames returned
  result    \* how the last call ended, once that ends the session

codecVars == <<sent, wire, eof, header, pending, calling, over, out, result>>

\* A frame is sound, has a header no decoder takes (magic, version, type or
\* flags), announces too long a payload, or has a stream id of the wrong scope.
Kinds == {"ok", "header", "huge", "scope"}
Size(f) == IF f.kind = "huge" THEN MaxPayload + 1 ELSE f.size
Bytes(i, f) == [j \in 1 .. HeaderSize + Size(f) |-> <<i, j>>]
NoFrame == [frame |-> 0, payload |-> <<>>]

CodecInit ==
  /\ sent = <<>> /\ wire = <<>> /\ eof = FALSE /\ out = <<>>
  /\ header = <<>> /\ pending = NoFrame /\ calling = "no" /\ over = 0 /\ result = "none"

-----------------------------------------------------------------------------
(* The peer.  validate_frame lets only sound frames out of an encoder; a   *)
(* peer that is not one of ours may send anything.                         *)

Encode(f) ==
  /\ ~eof /\ Len(sent) < MaxFrames
  /\ sent' = Append(sent, f)
  /\ wire' = wire \o Bytes(Len(sent) + 1, f)
  /\ UNCHANGED <<eof, header, pending, calling, over, out, result>>

\* The connection ends; the last bytes written may never arrive.
Close ==
  /\ ~eof /\ eof' = TRUE
  /\ \E n \in 0 .. Len(wire) : wire' = SubSeq(wire, 1, n)
  /\ UNCHANGED <<sent, header, pending, calling, over, out, result>>

-----------------------------------------------------------------------------
(* The decoder.                                                            *)

\* A decoder that keeps its progress in the future.
MutCall ==
  /\ calling = "no" /\ result = "none"
  /\ calling' = "header" /\ header' = <<>> /\ pending' = NoFrame
  /\ UNCHANGED <<sent, wire, eof, over, out, result>>

\* decode is called: it goes on where the decoder stands.
Call ==
  /\ calling = "no" /\ result = "none"
  /\ calling' = IF pending = NoFrame THEN "header" ELSE "payload"
  /\ UNCHANGED <<sent, wire, eof, header, pending, over, out, result>>

\* Another arm of the select! wins and the future is dropped at its read.
Cancel ==
  /\ calling # "no" /\ calling' = "no"
  /\ UNCHANGED <<sent, wire, eof, header, pending, over, out, result>>

Reset == header' = <<>> /\ pending' = NoFrame

\* A call that ends the session: the decoder is reset and not called again.
Fails(why) ==
  /\ result' = why /\ calling' = "no" /\ Reset
  /\ UNCHANGED <<sent, eof, over, out>>

\* The frame a complete header announces; none if its bytes are not the
\* header of one frame.
Announced(h) ==
  LET i == h[1][1] IN IF h = SubSeq(Bytes(i, sent[i]), 1, HeaderSize) THEN i ELSE 0

\* Frame::new on a complete payload, and the return of decode.
Complete(p) ==
  IF sent[p.frame].kind = "scope"
  THEN Fails("invalid")
  ELSE /\ out' = Append(out, p) /\ over' = 0 /\ Reset /\ calling' = "no"
       /\ UNCHANGED <<sent, eof, result>>

\* reader.read into the rest of the header.  A complete header is checked and
\* becomes the pending frame, which is complete at once without a payload.
ReadHeader(n) ==
  LET h == header \o SubSeq(wire, 1, n)
  IN /\ calling = "header" /\ n <= HeaderSize - Len(header)
     /\ wire' = SubSeq(wire, n + 1, Len(wire))
     /\ IF Len(h) < HeaderSize
        THEN header' = h /\ over' = over + n
             /\ UNCHANGED <<sent, eof, pending, calling, out, result>>
        ELSE LET i == Announced(h)
                 p == [frame |-> i, payload |-> <<>>]
             IN IF i = 0 \/ sent[i].kind \in {"header", "huge"}
                THEN Fails("invalid")
                ELSE IF Size(sent[i]) = 0
                     THEN Complete(p)
                     ELSE /\ header' = <<>> /\ pending' = p /\ calling' = "payload"
                          /\ over' = over + n /\ UNCHANGED <<sent, eof, out, result>>

\* reader.read into the rest of the payload.
ReadPayload(n) ==
  LET p == [pending EXCEPT !.payload = @ \o SubSeq(wire, 1, n)]
  IN /\ calling = "payload" /\ n <= Size(sent[pending.frame]) - Len(pending.payload)
     /\ wire' = SubSeq(wire, n + 1, Len(wire))
     /\ IF Len(p.payload) < Size(sent[p.frame])
        THEN pending' = p /\ over' = over + n
             /\ UNCHANGED <<sent, eof, header, calling, out, result>>
        ELSE Complete(p)

\* A read that returns nothing: a clean end only before the first byte.
ReadEof ==
  /\ calling # "no" /\ eof /\ wire = <<>>
  /\ Fails(CASE calling = "payload" -> "truncated_payload"
             [] calling = "header" /\ header = <<>> -> "end"
             [] OTHER -> "truncated_header")
  /\ UNCHANGED wire

\* A read that fails.
ReadFails == calling # "no" /\ Fails("io") /\ UNCHANGED wire

CodecNext ==
  \/ \E k \in Kinds, n \in 0 .. MaxPayload : Encode([kind |-> k, size |-> n])
  \/ Close \/ Call \/ Cancel \/ ReadEof \/ ReadFails
  \/ \E n \in 1 .. Len(wire) : ReadHeader(n) \/ ReadPayload(n)

CodecSpec == CodecInit /\ [][CodecNext]_codecVars

-----------------------------------------------------------------------------
\* The frame at place i with the payload that was written for it.
Written(i) == [frame   |-> i,
               payload |-> SubSeq(Bytes(i, sent[i]), HeaderSize + 1, HeaderSize + Size(sent[i]))]

(* Whatever the pieces in which bytes arrive and wherever calls are        *)
(* dropped, decode returns the frames that were sent, in order, with their *)
(* own payloads; it fails only at a frame that is not sound; and it tells  *)
(* an end between two frames from one in a header or a payload             *)
(* (FrameDecoder::decode).                                                 *)
DecodeExact ==
  /\ \A i \in DOMAIN out : out[i] = Written(i) /\ sent[i].kind = "ok"
  /\ result = "invalid" => sent[Len(out) + 1].kind # "ok"
  /\ result = "end" => over = 0
  /\ result = "truncated_header" => over \in 1 .. HeaderSize - 1
  /\ result = "truncated_payload" => over >= HeaderSize
=============================================================================
