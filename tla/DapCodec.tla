------------------------------ MODULE DapCodec ------------------------------
(***************************************************************************)
(* The incremental decoder between an adapter's stdout and the reader      *)
(* task.  Bytes arrive in pieces of any size; decode is tried after each   *)
(* piece on what has accumulated, and must give the same messages however  *)
(* the stream was cut.                                                     *)
(*                                                                         *)
(* A symbol stands for a header line, for the "\r\n" that ends one, or for *)
(* a byte of the body; sizes count symbols.                                *)
(***************************************************************************)
EXTENDS Naturals, Sequences, SequencesExt

CONSTANTS
  HeaderLimit,    \* 4096: a buffer longer than this must hold a header's end
  MaxFrameSize,   \* DapCodec.max_frame_size
  Frames,         \* frames an adapter may send
  MaxFrames       \* bound: frames in one stream

VARIABLES
  codecFrames,   \* the frames of the stream
  codecInput,    \* what has not arrived yet
  codecBuffer,   \* FramedRead's buffer
  codecOutput,   \* the bodies decoded so far
  codecStatus    \* "read" more, "decode" what is there, or the stream's end

codecVars == <<codecFrames, codecInput, codecBuffer, codecOutput, codecStatus>>

\* A header line, or a byte: good bytes make valid JSON.
ContentLength(n) == <<"length", n>>
Other == <<"other", 0>>
Eol   == <<"eol", 0>>
Byte(valid) == <<IF valid THEN "good" ELSE "bad", 0>>

\* serde_json::from_slice and the message's type tag.
IsMessage(body) == body # <<>> /\ \A i \in DOMAIN body : body[i] = Byte(TRUE)

Lines(header) == FlattenSeq([i \in DOMAIN header |-> <<header[i], Eol>>])
Wire(frame) == Lines(frame.header) \o <<Eol>> \o frame.body

\* encode_json: one header line, then the body.
encode_json(body) == [header |-> <<ContentLength(Len(body))>>, body |-> body]

Failure == [result |-> "error", used |-> 0, body |-> <<>>]
Nothing == [result |-> "none", used |-> 0, body |-> <<>>]

\* Positions where "\r\n\r\n" begins, and the header in front of the first of them.
Terminators(buf) == {i \in 1..(Len(buf) - 1) : buf[i] = Eol /\ buf[i + 1] = Eol}
HeaderOf(buf) == SubSeq(buf, 1, Min(Terminators(buf)) - 1)

\* The header lines that read as a Content-Length; the first of them counts.
LengthLines(header) == {i \in DOMAIN header : header[i][1] = "length"}
DeclaredLength(header) == header[Min(LengthLines(header))][2]

\* Mutant: a complete message is left in the buffer.
DecodeBody_Keeps(buf, start, length) ==
  LET body == SubSeq(buf, start + 1, start + length) IN
  CASE length > MaxFrameSize                                     -> Failure
    [] length <= MaxFrameSize /\ Len(buf) < start + length       -> Nothing
    [] length <= MaxFrameSize /\ Len(buf) >= start + length      ->
         IF IsMessage(body) THEN [result |-> "message", used |-> 0, body |-> body]
                            ELSE Failure

\* The rest of decode once a header and its length are known.
DecodeBody(buf, start, length) ==
  LET body == SubSeq(buf, start + 1, start + length) IN
  CASE length > MaxFrameSize                                     -> Failure
    [] length <= MaxFrameSize /\ Len(buf) < start + length       -> Nothing
    [] length <= MaxFrameSize /\ Len(buf) >= start + length      ->
         IF IsMessage(body) THEN [result |-> "message", used |-> start + length, body |-> body]
                            ELSE Failure

DecodeHeader(buf, terminator) ==
  LET header == HeaderOf(buf) IN
  IF LengthLines(header) = {}
    THEN Failure
    ELSE DecodeBody(buf, Len(header) + terminator, DeclaredLength(header))

\* Mutant: the body is taken to start one symbol before the header's end.
decode_OffByOne(buf) ==
  CASE Terminators(buf) # {}                              -> DecodeHeader(buf, 1)
    [] Terminators(buf) = {} /\ Len(buf) > HeaderLimit    -> Failure
    [] Terminators(buf) = {} /\ Len(buf) <= HeaderLimit   -> Nothing

\* What one call of decode makes of the buffer, and how much of it is used up.
decode(buf) ==
  CASE Terminators(buf) # {}                              -> DecodeHeader(buf, 2)
    [] Terminators(buf) = {} /\ Len(buf) > HeaderLimit    -> Failure
    [] Terminators(buf) = {} /\ Len(buf) <= HeaderLimit   -> Nothing

-----------------------------------------------------------------------------
\* An adapter writes some frames and may die in the middle of the last.
Init ==
  /\ codecFrames \in SeqOf(Frames, MaxFrames)
  /\ LET stream == FlattenSeq([i \in DOMAIN codecFrames |-> Wire(codecFrames[i])]) IN
       codecInput \in {SubSeq(stream, 1, n) : n \in 0..Len(stream)}
  /\ codecBuffer = <<>> /\ codecOutput = <<>> /\ codecStatus = "read"

\* Some more of the stream arrives.
Arrive ==
  /\ codecStatus = "read" /\ codecInput # <<>>
  /\ \E n \in 1..Len(codecInput) :
       /\ codecBuffer' = codecBuffer \o SubSeq(codecInput, 1, n)
       /\ codecInput' = SubSeq(codecInput, n + 1, Len(codecInput))
  /\ codecStatus' = "decode"
  /\ UNCHANGED <<codecFrames, codecOutput>>

Decode ==
  LET d == decode(codecBuffer) IN
  /\ codecStatus = "decode"
  /\ codecStatus' = CASE d.result = "error"   -> "failed"
                      [] d.result = "none"    -> "read"
                      [] d.result = "message" -> "decode"
  /\ codecBuffer' = SubSeq(codecBuffer, d.used + 1, Len(codecBuffer))
  /\ codecOutput' = IF d.result = "message" THEN Append(codecOutput, d.body) ELSE codecOutput
  /\ UNCHANGED <<codecFrames, codecInput>>

\* The end of the stream: bytes left over are an error.
EndOfStream ==
  /\ codecStatus = "read" /\ codecInput = <<>>
  /\ codecStatus' = IF codecBuffer = <<>> THEN "ended" ELSE "failed"
  /\ UNCHANGED <<codecFrames, codecInput, codecBuffer, codecOutput>>

Next == Arrive \/ Decode \/ EndOfStream

-----------------------------------------------------------------------------
\* A frame that decode ought to accept, and one whose header may outgrow the limit
\* before its end has arrived: the pieces it comes in then decide.
WellFormed(f) ==
  /\ LengthLines(f.header) # {} /\ DeclaredLength(f.header) <= MaxFrameSize
  /\ IsMessage(f.body)
TooLong(f) == Len(Lines(f.header)) > HeaderLimit

\* The buffer, the output and the status keep to what the decoder can hold.
TypeOK ==
  /\ codecStatus \in {"read", "decode", "failed", "ended"}
  /\ codecOutput \in Seq({f.body : f \in Frames})
  /\ Len(codecOutput) <= Len(codecFrames)

\* lib.rs: the codec handles partial reads and multiple frames in one buffer.  However
\* the stream was cut, it yields the bodies sent, in order, and stops before the end
\* only at a frame that is malformed, too long or incomplete.
DecodesTheStream ==
  LET k == Len(codecOutput)
      sent == SubSeq(codecFrames, 1, k)
      used == Len(FlattenSeq([i \in 1..(k + 1) |-> Wire(codecFrames[i])]))
      arrived == Len(codecBuffer) + Len(codecInput)
                 + Len(FlattenSeq([i \in 1..k |-> Wire(codecFrames[i])]))
  IN /\ codecOutput = [i \in 1..k |-> sent[i].body]
     /\ codecStatus \in {"failed", "ended"} /\ k < Len(codecFrames) =>
          \/ ~WellFormed(codecFrames[k + 1])
          \/ TooLong(codecFrames[k + 1])
          \/ arrived < used

=============================================================================
