------------------------------- MODULE Framing -------------------------------
(***************************************************************************)
(* One direction of a connection, byte by byte: WriteFrame and ReadFrame   *)
(* of pkg/epp/frame, and their counterparts WriteRRIFrame and ReadRRIFrame *)
(* of pkg/mock/rri.  Both put a length in front of the payload.  An EPP    *)
(* length counts its own four bytes, an RRI length does not, and the       *)
(* readers refuse different lengths.                                       *)
(*                                                                         *)
(* EPPWire and RRIAdapter let frames travel whole and in order, a refused  *)
(* one among them.  This module shows that the bytes carry them so,        *)
(* however the network cuts them up, wherever the connection ends, and     *)
(* when a reader goes on after a refusal.                                  *)
(*                                                                         *)
(* A definition named Bug... is a mistake this code could contain.         *)
(***************************************************************************)
EXTENDS Naturals, SequencesExt

CONSTANTS
  Base,         \* values of a byte (256 in the code)
  MaxPayload,   \* longest payload ReadRRIFrame takes (65536)
  Overclaim,    \* what length_overflow adds to a length (100)
  Payloads,     \* payloads callers write
  Refusal,      \* a call of ReadFrame that fails on the length
  MaxFrames     \* bound: frames written on the connection

HeaderLen == 4

Bytes == 0 .. Base - 1

(* The lengths that a header can hold. *)
Span == Base * Base * Base * Base

ASSUME FramingAssumption ==
  /\ Base \in Nat \ {0, 1}
  /\ MaxPayload \in Nat
  /\ Overclaim \in Nat \ {0}
  /\ Payloads \subseteq Seq(Bytes)
  /\ \A p \in Payloads : Len(p) + HeaderLen + Overclaim < Span
  /\ Refusal \notin Seq(Bytes)
  /\ MaxFrames \in Nat

VARIABLES
  proto,    \* what the two ends speak, "EPP" or "RRI"
  owed,     \* payload whose header is written, at most one
  stream,   \* bytes under way
  line,     \* "open", "closed" by the writer, "lost" with bytes under way
  reader,   \* "header", "body", "refused" a header, "ended"
  need,     \* bytes ReadFull still waits for
  got,      \* bytes it has
  sent,     \* outcomes owed to the reader: payloads, or Refusal
  read      \* outcomes of its calls

vars == <<proto, owed, stream, line, reader, need, got, sent, read>>
writing == <<proto, owed, sent>>

TypeOK ==
  /\ proto \in {"EPP", "RRI"}
  /\ owed \in BoundedSeq(Payloads, 1)
  /\ stream \in Seq(Bytes)
  /\ line \in {"open", "closed", "lost"}
  /\ reader \in {"header", "body", "refused", "ended"}
  /\ need \in 0 .. Span
  /\ got \in Seq(Bytes)
  /\ {sent, read} \subseteq Seq(Payloads \cup {Refusal})

Init ==
  /\ proto \in {"EPP", "RRI"}
  /\ owed = <<>> /\ stream = <<>> /\ line = "open"
  /\ reader = "header" /\ need = HeaderLen /\ got = <<>>
  /\ sent = <<>> /\ read = <<>>

-----------------------------------------------------------------------------
(* Big-endian digits of a length, and the length they stand for. *)
PutUint(v) ==
  <<(v \div (Base * Base * Base)) % Base, (v \div (Base * Base)) % Base, (v \div Base) % Base,
    v % Base>>
Uint(h) == ((h[1] * Base + h[2]) * Base + h[3]) * Base + h[4]

(* What a length counts besides the payload. *)
Counted == IF proto = "EPP" THEN HeaderLen ELSE 0

(* The length of a payload's frame, and the bytes a reader expects after it. *)
Length(p) == Len(p) + Counted
BugBodyLen(v) == v
BodyLen(v) == v - Counted

(* Lengths the reader refuses. *)
BugRefusesEmpty(v) ==
  \/ proto = "EPP" /\ v <= HeaderLen
  \/ proto = "RRI" /\ (v = 0 \/ v > MaxPayload)
Refused(v) ==
  \/ proto = "EPP" /\ v < HeaderLen
  \/ proto = "RRI" /\ (v = 0 \/ v > MaxPayload)

(* Payloads that no reader takes.  The RRI writer sends them all the same. *)
Unfit(p) == proto = "RRI" /\ Len(p) \notin 1 .. MaxPayload

-----------------------------------------------------------------------------
(* The writer. *)
CanWrite == line = "open" /\ owed = <<>> /\ Len(sent) < MaxFrames

(* The first Write of WriteFrame: the header of p.  It is all the
   reader sees of a payload it does not take, and of an empty one.         *)
WriteHeader(p) ==
  /\ CanWrite
  /\ stream' = stream \o PutUint(Length(p))
  /\ sent' = IF Unfit(p) THEN Append(sent, Refusal)
             ELSE IF p = <<>> THEN Append(sent, p) ELSE sent
  /\ owed' = IF p = <<>> THEN <<>> ELSE <<p>>
  /\ UNCHANGED <<proto, line, reader, need, got, read>>

(* Its second Write: the payload. *)
WritePayload ==
  /\ line = "open"
  /\ owed # <<>>
  /\ stream' = stream \o owed[1]
  /\ owed' = <<>>
  /\ sent' = IF Unfit(owed[1]) THEN sent ELSE Append(sent, owed[1])
  /\ UNCHANGED <<proto, line, reader, need, got, read>>

(* MalformedFrameFault: a bare header, 1 in EPP and 0 in RRI. *)
WriteBareHeader ==
  /\ CanWrite
  /\ stream' = stream \o PutUint(IF proto = "EPP" THEN 1 ELSE 0)
  /\ sent' = Append(sent, Refusal)
  /\ UNCHANGED <<proto, owed, line, reader, need, got, read>>

(* length_overflow: a header that claims more than follows, the payload, and
   the end of the connection.                                              *)
WriteOverclaim(p) ==
  /\ CanWrite
  /\ proto = "EPP"
  /\ stream' = stream \o PutUint(Len(p) + HeaderLen + Overclaim) \o p
  /\ line' = "closed"
  /\ UNCHANGED <<writing, reader, need, got, read>>

(* The writer closes, perhaps between the two Writes. *)
CloseLine ==
  /\ line = "open"
  /\ line' = "closed"
  /\ UNCHANGED <<writing, stream, reader, need, got, read>>

(* The connection fails.  What the reader has not taken is lost from some
   byte on.                                                                *)
LoseLine ==
  /\ line # "lost"
  /\ line' = "lost"
  /\ stream' \in Prefixes(stream)
  /\ UNCHANGED <<writing, reader, need, got, read>>

-----------------------------------------------------------------------------
(* The reader. *)
NextHeader ==
  /\ reader' = "header"
  /\ need' = HeaderLen
  /\ got' = <<>>

(* ReadFull returns n bytes more, and the frame is not complete. *)
MoreNeeded(n) ==
  /\ n < need
  /\ need' = need - n
  /\ got' = got \o SubSeq(stream, 1, n)
  /\ UNCHANGED <<reader, read>>

(* The header is complete: refuse it, or go on to the body.  ReadFull of an
   empty body returns at once.                                             *)
HeaderDone(n) ==
  LET v == Uint(got \o SubSeq(stream, 1, n))
  IN /\ n = need /\ reader = "header"
     /\ \/ /\ Refused(v)
           /\ read' = Append(read, Refusal)
           /\ reader' = "refused" /\ need' = 0 /\ got' = <<>>
        \/ /\ ~Refused(v) /\ BodyLen(v) = 0
           /\ read' = Append(read, <<>>)
           /\ NextHeader
        \/ /\ ~Refused(v) /\ BodyLen(v) # 0
           /\ reader' = "body" /\ need' = BodyLen(v) /\ got' = <<>>
           /\ UNCHANGED read

BodyDone(n) ==
  /\ n = need /\ reader = "body"
  /\ read' = Append(read, got \o SubSeq(stream, 1, n))
  /\ NextHeader

(* The reader takes what one Read returns for the rest of the body. *)
BugArriveShort(n) ==
  /\ reader \in {"header", "body"}
  /\ n <= need
  /\ stream' = SubSeq(stream, n + 1, Len(stream))
  /\ \/ reader = "header" /\ (MoreNeeded(n) \/ HeaderDone(n))
     \/ /\ reader = "body"
        /\ read' = Append(read, got \o SubSeq(stream, 1, n))
        /\ NextHeader
  /\ UNCHANGED <<writing, line>>

(* One Read below ReadFull returns some of what has arrived. *)
Arrive(n) ==
  /\ reader \in {"header", "body"}
  /\ n <= need
  /\ stream' = SubSeq(stream, n + 1, Len(stream))
  /\ MoreNeeded(n) \/ HeaderDone(n) \/ BodyDone(n)
  /\ UNCHANGED <<writing, line>>

(* io.EOF between frames, io.ErrUnexpectedEOF or a reset inside one. *)
BugReadEndsBetween ==
  /\ reader \in {"header", "body"}
  /\ line # "open"
  /\ stream = <<>>
  /\ got = <<>>
  /\ reader' = "ended"
  /\ UNCHANGED <<writing, stream, line, need, got, read>>
ReadEnds ==
  /\ reader \in {"header", "body"}
  /\ line # "open"
  /\ stream = <<>>
  /\ reader' = "ended"
  /\ UNCHANGED <<writing, stream, line, need, got, read>>

(* Logout keeps the connection when its answer is refused, and the next
   call reads on.  Every reader of RRI frames gives up.                    *)
BugReadOnAlways ==
  /\ reader = "refused"
  /\ NextHeader
  /\ UNCHANGED <<writing, stream, line, read>>
ReadOn ==
  /\ reader = "refused"
  /\ proto = "EPP"
  /\ NextHeader
  /\ UNCHANGED <<writing, stream, line, read>>

-----------------------------------------------------------------------------
Next ==
  \/ \E p \in Payloads : WriteHeader(p) \/ WriteOverclaim(p)
  \/ WritePayload \/ WriteBareHeader \/ CloseLine \/ LoseLine
  \/ \E n \in 1 .. Len(stream) : Arrive(n)
  \/ ReadEnds \/ ReadOn

(* A reader that waits is served: bytes that have arrived are handed to it,
   and so is the end of the connection.                                    *)
FairSpec ==
  /\ Init
  /\ [][Next]_vars
  /\ WF_vars(\E n \in 1 .. Len(stream) : Arrive(n))
  /\ WF_vars(ReadEnds)

-----------------------------------------------------------------------------
(* The calls of ReadFrame return what was written, each payload whole, in
   order, once, and refuse exactly the headers that deserve it: however the
   bytes are cut, whatever bytes a payload holds, wherever the connection
   ends, and when a reader goes on after a refusal.                        *)
FramesIntact == IsPrefix(read, sent)

(* A frame that is written is read, if the connection is not lost and no
   frame before it is refused.  A writer that closes loses nothing.        *)
FramesArrive ==
  \A n \in 1 .. MaxFrames :
    (Len(sent) >= n) ~> (Len(read) >= n \/ line = "lost" \/ reader = "refused")

(* No reader waits for ever on a connection that has ended, not even inside
   a frame that claimed more than was sent.                                *)
ReadsEnd == (line # "open") ~> (reader \in {"refused", "ended"})
=============================================================================
