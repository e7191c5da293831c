----------------------------- MODULE HarborStream -----------------------------
(***************************************************************************)
(* How the harbor service takes messages out of the bytes of a peer        *)
(* (push_socket_data of service_harbor.c): a handshake byte, then for each *)
(* message four bytes of length and its content.  The socket may cut the   *)
(* bytes anywhere.                                                         *)
(*                                                                         *)
(* A byte is a record that says where the peer put it: byte i of part k of *)
(* message m.  Recv starts push_socket_data with a new buffer; the cases   *)
(* of its switch are steps of their own, and nothing else runs until it    *)
(* returns.  Bad data is in module Harbor.                                 *)
(***************************************************************************)
EXTENDS Integers, Sequences, SequencesExt

CONSTANT Lens       \* the lengths of the messages the peer sends, not 0

VARIABLES pos,      \* bytes the socket has delivered
          buffer,   \* the rest of message->buffer, or <<>>
          busy,     \* push_socket_data runs
          status,   \* s->status
          size,     \* s->size, s->read bytes of it while a header is read
          content,  \* s->recv_buffer, s->read bytes of it
          length,   \* s->length
          out       \* the messages given to forward_local_messsage

vars == <<pos, buffer, busy, status, size, content, length, out>>

Part(m, k, n) == [i \in 1 .. n |-> [msg |-> m, part |-> k, at |-> i]]
Hello == Part(0, "id", 1)
Body(m) == Part(m, "content", Lens[m])

(* What the peer sends *)
Stream == Hello \o FlattenSeq([m \in DOMAIN Lens |-> Part(m, "length", 4) \o Body(m)])

(* 'S' leaves the id of the peer to the harbor; for 'A' cslave has read it. *)
Init == /\ \/ status = "HANDSHAKE" /\ pos = 0
           \/ status = "HEADER" /\ pos = 1
        /\ buffer = <<>> /\ busy = FALSE
        /\ size = <<>> /\ content = <<>> /\ length = 0
        /\ out = <<>>

Recv ==
    /\ ~busy
    /\ \E n \in 1 .. Len(Stream) - pos : /\ buffer' = SubSeq(Stream, pos + 1, pos + n)
                                         /\ pos' = pos + n
    /\ busy' = TRUE
    /\ UNCHANGED <<status, size, content, length, out>>

(* case STATUS_HANDSHAKE: the id is checked and the header comes next. *)
CaseHandshake ==
    /\ busy /\ status = "HANDSHAKE"
    /\ status' = "HEADER"
    /\ buffer' = Tail(buffer)
    /\ UNCHANGED <<pos, busy, size, content, length, out>>

Take(n) == SubSeq(buffer, 1, n)
Skip(n) == SubSeq(buffer, n + 1, Len(buffer))

(* The four bytes of a length *)
Decode(bytes) == Lens[bytes[1].msg]

(* case STATUS_HEADER *)
CaseHeader ==
    /\ busy /\ status = "HEADER"
    /\ LET need == 4 - Len(size)
       IN  IF Len(buffer) < need
           THEN /\ size' = size \o buffer
                /\ buffer' = <<>> /\ busy' = FALSE
                /\ UNCHANGED <<status, length>>
           ELSE /\ length' = Decode(size \o Take(need))
                /\ size' = <<>>
                /\ buffer' = Skip(need)
                /\ status' = "CONTENT"
                /\ busy' = (Len(buffer) > need)
    /\ UNCHANGED <<pos, content, out>>

(* case STATUS_CONTENT *)
CaseContent ==
    /\ busy /\ status = "CONTENT"
    /\ LET need == length - Len(content)
       IN  IF Len(buffer) < need
           THEN /\ content' = content \o buffer
                /\ buffer' = <<>> /\ busy' = FALSE
                /\ UNCHANGED <<status, length, out>>
           ELSE /\ out' = Append(out, content \o Take(need))
                /\ content' = <<>> /\ length' = 0
                /\ buffer' = Skip(need)
                /\ status' = "HEADER"
                /\ busy' = (Len(buffer) > need)
    /\ UNCHANGED <<pos, size>>

Next == Recv \/ CaseHandshake \/ CaseHeader \/ CaseContent

Spec == Init /\ [][Next]_vars

-----------------------------------------------------------------------------
(* The last byte of message m in the stream *)
End(m) == Len(FlattenSeq([k \in 1 .. m |-> Part(k, "length", 4) \o Body(k)])) + 1

(***************************************************************************)
(* Wherever the socket cuts the stream, the harbor has forwarded exactly   *)
(* the messages whose last byte has come, byte for byte and in order, when *)
(* push_socket_data has returned.                                          *)
(***************************************************************************)
Reassembled ==
    ~busy => LET done == {m \in DOMAIN Lens : End(m) <= pos}
             IN  /\ Len(out) = Cardinality(done)
                 /\ \A m \in done : out[m] = Body(m)
=============================================================================
