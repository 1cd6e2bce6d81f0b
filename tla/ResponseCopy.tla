---------------------------- MODULE ResponseCopy ----------------------------
(***************************************************************************)
(* The answer of a backend on its way to the client and into the record:   *)
(* streamCopy and streamCopySSE (proxy.go), the LimitedBuffer that keeps   *)
(* the first bytes, and what ParseResponseMeta finds in them               *)
(* (internal/meta/meta.go).                                                *)
(*                                                                         *)
(* A byte is the pair of its line and its place in that line; the place    *)
(* after a line's last one is that of its newline.  What a line says is    *)
(* attached to it and counts when the whole line has been kept: a part of  *)
(* a JSON object is not one.  An action is one turn of the copying loop.   *)
(***************************************************************************)
EXTENDS Integers, Sequences, FiniteSets, FiniteSetsExt, SequencesExt

CONSTANTS
  Responses,  \* what backends may answer: records of type, lines and text
  Limits,     \* values of max_capture_bytes; not positive: no limit
  ReadSize,   \* bytes of one read in streamCopy (32 KiB)
  TokenSize,  \* bytes of a line that bufio.Scanner no longer takes (64 KiB)
  Marker      \* bytes of "data: "

(* A "data:" line with a payload; one with [DONE]; a JSON answer, which counts as
   one line; anything else. *)
Kinds  == {"data", "done", "json", "other"}
Fields == {"prompt", "completion", "cached", "total"}

(* says: the values a payload has for a field, first choice first. *)
Line == [kind : Kinds, size : Nat, says : [Fields -> Seq(Nat)]]

Byte == Nat \X Nat

Earlier(a, b) == a[1] < b[1] \/ (a[1] = b[1] /\ a[2] < b[2])

(* The bytes of the lines in order; the last newline may be missing. *)
IsTextOf(text, lines) ==
  /\ text \in Seq(Byte)
  /\ \A j \in DOMAIN text :
       text[j][1] \in DOMAIN lines /\ text[j][2] \in 1 .. lines[text[j][1]].size + 1
  /\ \A j, k \in DOMAIN text : j < k => Earlier(text[j], text[k])
  /\ \A i \in DOMAIN lines : \A k \in 1 .. lines[i].size + 1 :
       \/ \E j \in DOMAIN text : text[j] = <<i, k>>
       \/ i = Len(lines) /\ k = lines[i].size + 1

ASSUME ResponsesAssumption ==
  \A r \in Responses :
    /\ r.type \in {"json", "sse"}
    /\ r.lines \in Seq(Line)
    /\ r.type = "json" => Len(r.lines) = 1
    /\ \A i \in DOMAIN r.lines :
         /\ r.lines[i].kind = "json" <=> r.type = "json"
         /\ r.lines[i].kind \in {"data", "done"} => r.lines[i].size > Marker
    /\ IsTextOf(r.text, r.lines)
ASSUME LimitsAssumption ==
  Limits \subseteq Int /\ ReadSize \in Nat \ {0} /\ TokenSize \in Nat /\ Marker \in Nat

VARIABLES
  resp,       \* the answer
  streaming,  \* the request asks for a stream, or the answer is one
  max,        \* lb.max
  pos,        \* bytes read from the backend
  sent,       \* bytes the client's connection has taken; copied is its length
  captured,   \* lb.buf
  chunks,     \* the count of data lines
  outcome,    \* of the copying: "none" yet, "eof", "readError", "writeError"
  rec         \* what FinishRequest stores, or Nothing

vars == <<resp, streaming, max, pos, sent, captured, chunks, outcome, rec>>

Zero    == [f \in Fields |-> 0]
Nothing == [f \in Fields |-> -1]

Init ==
  /\ resp \in Responses
  /\ streaming \in {TRUE, resp.type = "sse"}
  /\ max \in Limits
  /\ pos = 0 /\ sent = <<>> /\ captured = <<>> /\ chunks = 0
  /\ outcome = "none"
  /\ rec = Nothing

-----------------------------------------------------------------------------
(* Copying. *)

Text == resp.text
IsNewline(b) == b[2] = resp.lines[b[1]].size + 1

OffByOneBug(buf, p) ==
  IF max <= 0 THEN buf \o p
  ELSE IF Len(buf) > max THEN buf
  ELSE buf \o p

(* LimitedBuffer.Write. *)
LimitedWrite(buf, p) ==
  LET remaining == max - Len(buf) IN
  IF max <= 0 \/ Len(p) <= remaining THEN buf \o p
  ELSE IF remaining <= 0 THEN buf
  ELSE buf \o SubSeq(p, 1, remaining)

(* What a read may bring: n bytes and an error. *)
ReadChunk(n, rerr) ==
  LET rest == Len(Text) - pos IN
  /\ n <= ReadSize
  /\ \/ rerr = "none" /\ n > 0
     \/ rerr = "eof" /\ n = rest
     \/ rerr = "readError"

(* ReadBytes: a line with its newline, or what there is before an error. *)
ReadLine(n, rerr) ==
  LET inside == \A j \in (pos + 1)..(pos + n - 1) : ~ IsNewline(Text[j])
      full   == n > 0 /\ IsNewline(Text[pos + n]) IN
  /\ inside
  /\ \/ rerr = "none" /\ full
     \/ rerr = "eof" /\ ~ full /\ pos + n = Len(Text)
     \/ rerr = "readError" /\ ~ full

Read(n, rerr) == IF streaming THEN ReadLine(n, rerr) ELSE ReadChunk(n, rerr)

CountDoneBug(n) ==
  streaming /\ n > Marker /\ resp.lines[Text[pos + 1][1]].kind \in {"data", "done"}

(* streamCopySSE counts the line it has read, or its part: a part of [DONE] is
   not [DONE]. *)
Counts(n) ==
  /\ streaming
  /\ n > Marker
  /\ LET line == resp.lines[Text[pos + 1][1]] IN
     line.kind = "data" \/ (line.kind = "done" /\ n < line.size)

Bytes(n) == SubSeq(Text, pos + 1, pos + n)

DropTailBug(n, rerr, wn, werr) ==
  IF n = 0 \/ rerr # "none" THEN wn = 0 /\ ~ werr ELSE wn < n => werr

(* wn of the n bytes are written; nothing is, when nothing has been read. *)
Write(n, rerr, wn, werr) ==
  IF n = 0 THEN wn = 0 /\ ~ werr ELSE wn < n => werr

CaptureReadBug(n, wn) == LimitedWrite(captured, Bytes(n))

Capture(n, wn) == LimitedWrite(captured, Bytes(wn))

(* A turn of the loop. *)
Copy ==
  /\ outcome = "none"
  /\ \E n \in 0..(Len(Text) - pos), rerr \in {"none", "eof", "readError"} :
       /\ Read(n, rerr)
       /\ pos' = pos + n
       /\ chunks' = IF Counts(n) THEN chunks + 1 ELSE chunks
       /\ \E wn \in 0..n, werr \in BOOLEAN :
            /\ Write(n, rerr, wn, werr)
            /\ sent' = sent \o Bytes(wn)
            /\ captured' = Capture(n, wn)
            /\ outcome' = IF werr THEN "writeError" ELSE rerr
  /\ UNCHANGED <<resp, streaming, max, rec>>

-----------------------------------------------------------------------------
(* What the record says. *)

FirstPositive(values) ==
  LET found == {i \in DOMAIN values : values[i] > 0} IN
  IF found = {} THEN 0 ELSE values[Min(found)]

AddTotal(meta) ==
  IF meta["total"] # 0 THEN meta
  ELSE [meta EXCEPT !["total"] = meta["prompt"] + meta["completion"]]

(* parseJSONResponseMeta, of an object that is whole. *)
ParseJSON(line) == AddTotal([f \in Fields |-> FirstPositive(line.says[f])])

OverwriteBug(dst, src) == src

(* mergeResponseMeta. *)
Merge(dst, src) == [f \in Fields |-> IF src[f] > 0 THEN src[f] ELSE dst[f]]

(* What has been kept of a line, but for its newline. *)
Kept(text, i)  == Cardinality({k \in 1..resp.lines[i].size : <<i, k>> \in Range(text)})
Whole(text, i) == Kept(text, i) = resp.lines[i].size

(* The scanner stops for good at a line that is too long. *)
Scanned(text) == {i \in DOMAIN resp.lines : \A j \in 1..i : Kept(text, j) < TokenSize}

Payload(text, i) == resp.lines[i].kind = "data" /\ i \in Scanned(text) /\ Whole(text, i)

(* parseSSEResponseMeta, a line after the other. *)
ParseSSE(text) ==
  LET merged[n \in 0 .. Len(resp.lines)] ==
        IF n = 0 THEN Zero
        ELSE IF Payload(text, n) THEN Merge(merged[n - 1], ParseJSON(resp.lines[n]))
        ELSE merged[n - 1]
  IN  AddTotal(merged[Len(resp.lines)])

ParseResponseMeta(text) ==
  IF resp.type = "sse" THEN ParseSSE(text)
  ELSE IF Whole(text, 1) THEN ParseJSON(resp.lines[1]) ELSE Zero

(* The copying is over, well or not: the record is finished. *)
Record ==
  /\ outcome # "none"
  /\ rec = Nothing
  /\ rec' = ParseResponseMeta(captured)
  /\ UNCHANGED <<resp, streaming, max, pos, sent, captured, chunks, outcome>>

Next == Copy \/ Record

Spec == Init /\ [][Next]_vars

-----------------------------------------------------------------------------
CopyType ==
  /\ resp \in Responses
  /\ streaming \in BOOLEAN
  /\ max \in Limits
  /\ pos \in 0..Len(Text)
  /\ sent \in Seq(Byte) /\ captured \in Seq(Byte)
  /\ outcome \in {"none", "eof", "readError", "writeError"}

(* Types; no more is kept or counted than there may be. *)
TypeOK ==
  /\ CopyType
  /\ max > 0 => Len(captured) <= max
  /\ chunks \in 0..Len(resp.lines)
  /\ rec \in [Fields -> Int]

(* The client gets the beginning of the answer in order, and all of it when
   neither side fails. *)
Relayed ==
  /\ Len(sent) <= pos
  /\ sent = SubSeq(Text, 1, Len(sent))
  /\ outcome = "none" => Len(sent) = pos
  /\ outcome = "eof" => sent = Text

Limited(q) == SubSeq(q, 1, IF max > 0 /\ max < Len(q) THEN max ELSE Len(q))

(* The recorded answer is the beginning of what the client got, as long as
   max_capture_bytes allows. *)
Captured == captured = Limited(sent)

(* The data lines among the first n bytes of the answer, but [DONE]. *)
DataLines(n) ==
  {i \in DOMAIN resp.lines : /\ resp.lines[i].kind = "data"
                             /\ \E j \in 1..n : Text[j] = <<i, resp.lines[i].size>>}

(* chunks_count is the number of data lines the client got; a copy that broke
   off may count the line it broke off in. *)
ChunksCounted ==
  streaming =>
    /\ chunks - Cardinality(DataLines(Len(sent))) \in {0, 1}
    /\ outcome \in {"none", "eof"} => chunks = Cardinality(DataLines(Len(sent)))

(* For each field, the last of the first n lines that says something of it. *)
LastSaid(n) ==
  LET said(f) == {i \in 1..n : /\ resp.lines[i].kind \in {"data", "json"}
                               /\ ParseJSON(resp.lines[i])[f] > 0}
  IN [f \in Fields |-> IF said(f) = {} THEN 0 ELSE ParseJSON(resp.lines[Max(said(f))])[f]]

(* However the copying ended and whatever was cut off, the record says what the
   answer said up to one of its lines; and what the whole of it said when all
   of it was kept and no line was too long for the scanner. *)
UsageRecorded ==
  rec # Nothing =>
    /\ \E n \in 0..Len(resp.lines) : rec = LastSaid(n)
    /\ captured = Text /\ (\A i \in DOMAIN resp.lines : resp.lines[i].size < TokenSize)
         => rec = LastSaid(Len(resp.lines))

(* What the row says of an answer fits what the client got of it. *)
RecordFits == ChunksCounted /\ UsageRecorded

(* The inductive invariant of the copying. *)
IInv == CopyType /\ Relayed /\ Captured
=============================================================================
