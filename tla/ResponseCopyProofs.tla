------------------------- MODULE ResponseCopyProofs -------------------------
(***************************************************************************)
(* Proofs about ResponseCopy, for any answers, any limit and any failures: *)
(* what the client gets is the beginning of the answer, and what is        *)
(* recorded is the beginning of that.                                      *)
(***************************************************************************)
EXTENDS ResponseCopy, DataFacts

(* Beginnings of sequences. *)

LEMMA BeginType ==
  ASSUME NEW S, NEW q \in Seq(S), NEW n \in 0..Len(q)
  PROVE  /\ SubSeq(q, 1, n) \in Seq(S)
         /\ Len(SubSeq(q, 1, n)) = n
         /\ \A i \in 1..n : SubSeq(q, 1, n)[i] = q[i]
<1>1. \A i \in 1..n : q[i] \in S
  BY ElementOfSeq
<1> QED
  BY <1>1, SubSeqProperties

LEMMA PieceType ==
  ASSUME NEW S, NEW q \in Seq(S), NEW m \in 0..Len(q), NEW n \in 0..(Len(q) - m)
  PROVE  /\ SubSeq(q, m + 1, m + n) \in Seq(S)
         /\ Len(SubSeq(q, m + 1, m + n)) = n
         /\ \A i \in 1..n : SubSeq(q, m + 1, m + n)[i] = q[m + i]
<1>1. \A i \in (m + 1)..(m + n) : q[i] \in S
  BY ElementOfSeq
<1> QED
  BY <1>1, SubSeqProperties

LEMMA BeginAll ==
  ASSUME NEW S, NEW q \in Seq(S)
  PROVE  SubSeq(q, 1, Len(q)) = q
<1>1. Len(q) \in 0..Len(q)
  OBVIOUS
<1>2. /\ SubSeq(q, 1, Len(q)) \in Seq(S) /\ Len(SubSeq(q, 1, Len(q))) = Len(q)
      /\ \A i \in 1..Len(q) : SubSeq(q, 1, Len(q))[i] = q[i]
  BY <1>1, BeginType
<1> QED
  BY <1>2, SeqEqual

LEMMA BeginPiece ==
  ASSUME NEW S, NEW q \in Seq(S), NEW m \in 0..Len(q), NEW n \in 0..(Len(q) - m)
  PROVE  SubSeq(q, 1, m) \o SubSeq(q, m + 1, m + n) = SubSeq(q, 1, m + n)
<1>1. 1 \in 1..(Len(q) + 1) /\ m \in (1 - 1)..Len(q) /\ m + n \in m..Len(q)
  OBVIOUS
<1> QED
  BY <1>1, ConcatAdjacentSubSeq

(* The beginning of a sequence that is long enough is that of a longer one. *)
LEMMA BeginConcat ==
  ASSUME NEW S, NEW q \in Seq(S), NEW p \in Seq(S), NEW n \in 0..Len(q)
  PROVE  SubSeq(q \o p, 1, n) = SubSeq(q, 1, n)
<1> DEFINE w == q \o p
<1>1. w \in Seq(S) /\ Len(w) = Len(q) + Len(p) /\ \A i \in 1..Len(q) : w[i] = q[i]
  OBVIOUS
<1> HIDE DEF w
<1>2. n \in 0..Len(w)
  BY <1>1
<1>3. SubSeq(w, 1, n) \in Seq(S) /\ Len(SubSeq(w, 1, n)) = n
      /\ \A i \in 1..n : SubSeq(w, 1, n)[i] = w[i]
  BY <1>1, <1>2, BeginType
<1>4. SubSeq(q, 1, n) \in Seq(S) /\ Len(SubSeq(q, 1, n)) = n
      /\ \A i \in 1..n : SubSeq(q, 1, n)[i] = q[i]
  BY BeginType
<1>5. \A i \in 1..n : SubSeq(w, 1, n)[i] = SubSeq(q, 1, n)[i]
  BY <1>1, <1>3, <1>4
<1> QED
  BY <1>3, <1>4, <1>5, SeqEqual DEF w

LEMMA ConcatBegin ==
  ASSUME NEW S, NEW q \in Seq(S), NEW p \in Seq(S), NEW n \in 0..Len(p)
  PROVE  SubSeq(q \o p, 1, Len(q) + n) = q \o SubSeq(p, 1, n)
<1> DEFINE w == q \o p
           b == SubSeq(p, 1, n)
           l == SubSeq(w, 1, Len(q) + n)
<1>1. /\ w \in Seq(S) /\ Len(w) = Len(q) + Len(p)
      /\ \A i \in 1..Len(q) : w[i] = q[i]
      /\ \A i \in 1..Len(p) : w[Len(q) + i] = p[i]
  OBVIOUS
<1>2. b \in Seq(S) /\ Len(b) = n /\ \A i \in 1..n : b[i] = p[i]
  BY BeginType
<1>3. l \in Seq(S) /\ Len(l) = Len(q) + n /\ \A i \in 1..(Len(q) + n) : l[i] = w[i]
  <2> HIDE DEF w
  <2>1. Len(q) + n \in 0..Len(w)
    BY <1>1
  <2> QED
    BY <1>1, <2>1, BeginType
<1>0. Len(q) \in Nat /\ n \in Nat
  OBVIOUS
<1> HIDE DEF w, b, l
<1>4. /\ q \o b \in Seq(S) /\ Len(q \o b) = Len(q) + n
      /\ \A i \in 1..Len(q) : (q \o b)[i] = q[i]
      /\ \A i \in (Len(q) + 1)..(Len(q) + n) : (q \o b)[i] = b[i - Len(q)]
  BY <1>2
<1>5. ASSUME NEW i \in 1..(Len(q) + n)
      PROVE  l[i] = (q \o b)[i]
  <2>0. i \in 1..Len(q) \/ i \in (Len(q) + 1)..(Len(q) + n)
    BY <1>0
  <2>1. CASE i \in 1..Len(q)
    BY <1>1, <1>3, <1>4, <2>1
  <2>2. CASE i \in (Len(q) + 1)..(Len(q) + n)
    <3>1. i - Len(q) \in 1..n /\ i - Len(q) \in 1..Len(p) /\ Len(q) + (i - Len(q)) = i
      BY <2>2
    <3>2. w[Len(q) + (i - Len(q))] = p[i - Len(q)] /\ b[i - Len(q)] = p[i - Len(q)]
      BY <1>1, <1>2, <3>1
    <3> QED
      BY <1>3, <1>4, <2>2, <3>1, <3>2
  <2> QED
    BY <2>0, <2>1, <2>2
<1>6. l = q \o b
  BY <1>3, <1>4, <1>5, SeqEqual
<1> QED
  BY <1>6 DEF w, b, l

-----------------------------------------------------------------------------
(* LimitedBuffer.Write keeps the buffer the beginning of all that was written. *)

LEMMA LimitedType ==
  ASSUME NEW S, NEW q \in Seq(S), max \in Int
  PROVE  /\ Limited(q) \in Seq(S)
         /\ Len(Limited(q)) = IF max > 0 /\ max < Len(q) THEN max ELSE Len(q)
<1> DEFINE n == IF max > 0 /\ max < Len(q) THEN max ELSE Len(q)
<1>1. n \in 0..Len(q)
  OBVIOUS
<1> HIDE DEF n
<1>2. SubSeq(q, 1, n) \in Seq(S) /\ Len(SubSeq(q, 1, n)) = n
  BY <1>1, BeginType
<1> QED
  BY <1>2 DEF n, Limited

LEMMA LimitedWriteLimits ==
  ASSUME NEW S, NEW q \in Seq(S), NEW p \in Seq(S), max \in Int
  PROVE  LimitedWrite(Limited(q), p) = Limited(q \o p)
<1>1. q \o p \in Seq(S) /\ Len(q \o p) = Len(q) + Len(p) /\ Len(q) \in Nat /\ Len(p) \in Nat
  OBVIOUS
<1>2. Limited(q) \in Seq(S)
      /\ Len(Limited(q)) = IF max > 0 /\ max < Len(q) THEN max ELSE Len(q)
  BY LimitedType
<1>3. CASE max <= 0 \/ Len(q) + Len(p) <= max
  <2>1. Limited(q) = q /\ Limited(q \o p) = q \o p
    BY <1>1, <1>3, BeginAll DEF Limited
  <2>2. max <= 0 \/ Len(p) <= max - Len(q)
    BY <1>1, <1>3
  <2> QED
    BY <2>1, <2>2 DEF LimitedWrite
<1>4. CASE max > 0 /\ max < Len(q) + Len(p) /\ Len(q) < max
  <2>1. Limited(q) = q
    BY <1>1, <1>4, BeginAll DEF Limited
  <2>2. Limited(q \o p) = SubSeq(q \o p, 1, max)
    BY <1>1, <1>4 DEF Limited
  <2>3. max - Len(q) \in 0..Len(p) /\ Len(q) + (max - Len(q)) = max
    BY <1>1, <1>4
  <2>4. SubSeq(q \o p, 1, max) = q \o SubSeq(p, 1, max - Len(q))
    BY <2>3, ConcatBegin
  <2>5. ~ max <= 0 /\ ~ Len(p) <= max - Len(q) /\ ~ max - Len(q) <= 0
    BY <1>1, <1>4
  <2> QED
    BY <2>1, <2>2, <2>4, <2>5 DEF LimitedWrite
<1>5. CASE max > 0 /\ max < Len(q) + Len(p) /\ max <= Len(q)
  <2>1. Len(Limited(q)) = max /\ max \in 0..Len(q)
    BY <1>1, <1>2, <1>5
  <2>2. Limited(q) = SubSeq(q, 1, max)
    BY <1>1, <1>5 DEF Limited
  <2>3. Limited(q \o p) = SubSeq(q \o p, 1, max)
    BY <1>1, <1>5 DEF Limited
  <2>4. SubSeq(q \o p, 1, max) = SubSeq(q, 1, max)
    BY <2>1, BeginConcat
  <2>5. LimitedWrite(Limited(q), p) = Limited(q)
    <3>1. CASE p = <<>>
      BY <1>2, <3>1 DEF LimitedWrite
    <3>2. CASE p # <<>>
      <4>1. Len(p) > 0
        BY <3>2, EmptySeq
      <4> QED
        BY <1>1, <1>5, <2>1, <4>1 DEF LimitedWrite
    <3> QED
      BY <3>1, <3>2
  <2> QED
    BY <2>2, <2>3, <2>4, <2>5
<1> QED
  BY <1>1, <1>3, <1>4, <1>5

-----------------------------------------------------------------------------
(* The copying. *)

LEMMA CopyInit == Init => IInv
<1> SUFFICES ASSUME Init
             PROVE  IInv
  OBVIOUS
<1>1. Text \in Seq(Byte) /\ Len(Text) \in Nat
  BY ResponsesAssumption DEF Init, Text, IsTextOf
<1>2. sent = <<>> /\ Len(sent) = 0 /\ sent \in Seq(Byte) /\ captured = <<>> /\ pos = 0
  BY DEF Init
<1>3. CopyType
  <2>1. streaming \in BOOLEAN
    BY Zenon DEF Init
  <2>2. pos \in 0..Len(Text) /\ captured \in Seq(Byte)
    BY <1>1, <1>2
  <2> QED
    BY <1>2, <2>1, <2>2 DEF Init, CopyType
<1>4. Relayed
  <2>1. SubSeq(Text, 1, 0) = <<>>
    <3>1. 0 \in 0..Len(Text)
      BY <1>1
    <3>2. SubSeq(Text, 1, 0) \in Seq(Byte) /\ Len(SubSeq(Text, 1, 0)) = 0
      BY <1>1, <3>1, BeginType
    <3> QED
      BY <3>2, EmptySeq
  <2> QED
    BY <1>1, <1>2, <2>1 DEF Relayed, Init
<1>5. Captured
  <2>1. max \in Int
    BY LimitsAssumption DEF Init
  <2>2. Limited(sent) \in Seq(Byte)
        /\ Len(Limited(sent)) = IF max > 0 /\ max < Len(sent) THEN max ELSE Len(sent)
    BY <1>2, <2>1, LimitedType
  <2>3. ~ (max > 0 /\ max < Len(sent))
    BY <1>2, <2>1
  <2> QED
    BY <1>2, <2>2, <2>3, EmptySeq DEF Captured
<1> QED
  BY <1>3, <1>4, <1>5 DEF IInv

LEMMA CopyStep == IInv /\ [Next]_vars => IInv'
<1> SUFFICES ASSUME IInv, [Next]_vars
             PROVE  IInv'
  OBVIOUS
<1>0. Text \in Seq(Byte) /\ Len(Text) \in Nat /\ max \in Int /\ pos \in 0..Len(Text)
      /\ sent \in Seq(Byte) /\ captured \in Seq(Byte)
  BY ResponsesAssumption, LimitsAssumption DEF IInv, CopyType, Text, IsTextOf
<1>1. CASE Copy
  <2>1. PICK n \in 0..(Len(Text) - pos), rerr \in {"none", "eof", "readError"} :
          /\ Read(n, rerr)
          /\ pos' = pos + n
          /\ \E wn \in 0..n, werr \in BOOLEAN :
               /\ Write(n, rerr, wn, werr)
               /\ sent' = sent \o Bytes(wn)
               /\ captured' = Capture(n, wn)
               /\ outcome' = IF werr THEN "writeError" ELSE rerr
    BY <1>1 DEF Copy
  <2>2. PICK wn \in 0..n, werr \in BOOLEAN :
               /\ Write(n, rerr, wn, werr)
               /\ sent' = sent \o Bytes(wn)
               /\ captured' = Capture(n, wn)
               /\ outcome' = IF werr THEN "writeError" ELSE rerr
    BY <2>1
  <2>3. UNCHANGED <<resp, streaming, max, rec>> /\ outcome = "none" /\ Text' = Text
    BY <1>1 DEF Copy, Text
  <2>4. pos = Len(sent) /\ sent = SubSeq(Text, 1, pos)
    BY <1>0, <2>3 DEF IInv, Relayed
  <2>5. wn \in 0..(Len(Text) - pos) /\ pos + n \in 0..Len(Text) /\ pos + wn \in 0..Len(Text)
    BY <1>0
  <2>6. Bytes(wn) \in Seq(Byte)
    BY <1>0, <2>5, PieceType DEF Bytes
  <2>7. sent' = SubSeq(Text, 1, pos + wn)
    BY <1>0, <2>2, <2>4, <2>5, BeginPiece DEF Bytes
  <2>8. sent' \in Seq(Byte) /\ Len(sent') = pos + wn
    BY <1>0, <2>5, <2>7, BeginType
  <2>9. ~ werr => wn = n
    BY <2>2 DEF Write
  <2>10. rerr = "eof" => pos + n = Len(Text)
    BY <1>0, <2>1 DEF Read, ReadLine, ReadChunk
  <2>11. Relayed'
    <3>1. Len(sent') <= pos'
      BY <1>0, <2>1, <2>8
    <3>2. outcome' = "none" => Len(sent') = pos'
      BY <2>1, <2>2, <2>8, <2>9
    <3>3. outcome' = "eof" => sent' = Text
      <4>1. outcome' = "eof" => pos + wn = Len(Text)
        BY <2>2, <2>9, <2>10
      <4> QED
        BY <1>0, <2>7, <4>1, BeginAll
    <3> QED
      BY <2>3, <2>7, <2>8, <3>1, <3>2, <3>3 DEF Relayed
  <2>12. captured' = Limited(sent')
    <3>1. captured = Limited(sent)
      BY DEF IInv, Captured
    <3>2. LimitedWrite(Limited(sent), Bytes(wn)) = Limited(sent \o Bytes(wn))
      BY <1>0, <2>6, LimitedWriteLimits
    <3> QED
      BY <2>2, <3>1, <3>2 DEF Capture
  <2>13. Captured'
    BY <2>3, <2>12 DEF Captured, Limited
  <2>14. captured' \in Seq(Byte)
    BY <1>0, <2>8, <2>12, LimitedType
  <2>15. outcome' \in {"none", "eof", "readError", "writeError"}
    BY <2>2
  <2>16. CopyType'
    BY <2>1, <2>3, <2>5, <2>8, <2>14, <2>15 DEF IInv, CopyType
  <2> QED
    BY <2>11, <2>13, <2>16 DEF IInv
<1>2. CASE Record \/ UNCHANGED vars
  <2>1. UNCHANGED <<resp, streaming, max, pos, sent, captured, outcome>>
    BY <1>2 DEF Record, vars
  <2> QED
    BY <2>1 DEF IInv, CopyType, Relayed, Captured, Limited, Text
<1> QED
  BY <1>1, <1>2 DEF Next

(* The inductive invariant of the copying. *)
THEOREM Invariance == Spec => []IInv
BY CopyInit, CopyStep, PTL DEF Spec

(* The client gets the beginning of the answer in order, and all of it when
   neither side fails, whichever loop copies. *)
THEOREM AnswerIsRelayed == Spec => []Relayed
<1>1. IInv => Relayed
  BY DEF IInv
<1> QED
  BY <1>1, Invariance, PTL

(* What is recorded is the beginning of what the client got, as long as the
   limit allows, for any limit and any sizes of the pieces written. *)
THEOREM RecordIsBeginning == Spec => []Captured
<1>1. IInv => Captured
  BY DEF IInv
<1> QED
  BY <1>1, Invariance, PTL

-----------------------------------------------------------------------------
(* The lines of the answer and the places of their bytes. *)

Size(i) == resp.lines[i].size

LEMMA LinesAre ==
  ASSUME resp \in Responses
  PROVE  /\ Len(resp.lines) \in Nat /\ DOMAIN resp.lines = 1 .. Len(resp.lines)
         /\ Marker \in Nat
         /\ \A i \in DOMAIN resp.lines :
              /\ resp.lines[i] \in Line /\ Size(i) \in Nat
              /\ resp.lines[i].kind \in {"data", "done"} => Size(i) > Marker
<1>1. resp.lines \in Seq(Line) /\ Marker \in Nat
  BY ResponsesAssumption, LimitsAssumption
<1>2. Len(resp.lines) \in Nat /\ DOMAIN resp.lines = 1 .. Len(resp.lines)
  BY <1>1
<1>3. \A i \in DOMAIN resp.lines : resp.lines[i] \in Line
  BY <1>1
<1>4. \A l \in Line : l.size \in Nat
  BY DEF Line
<1> QED
  BY <1>1, <1>2, <1>3, <1>4, ResponsesAssumption DEF Size

LEMMA TextIs ==
  ASSUME resp \in Responses
  PROVE  /\ Text \in Seq(Byte) /\ Len(Text) \in Nat /\ DOMAIN Text = 1 .. Len(Text)
         /\ \A j \in 1 .. Len(Text) :
              /\ Text[j] = <<Text[j][1], Text[j][2]>>
              /\ Text[j][1] \in DOMAIN resp.lines
              /\ Text[j][2] \in 1 .. Size(Text[j][1]) + 1
              /\ Text[j][1] \in Nat /\ Text[j][2] \in Nat
         /\ \A j, k \in 1 .. Len(Text) : j < k => Earlier(Text[j], Text[k])
         /\ \A i \in DOMAIN resp.lines : \A k \in 1 .. Size(i) + 1 :
              \/ \E j \in 1 .. Len(Text) : Text[j] = <<i, k>>
              \/ i = Len(resp.lines) /\ k = Size(i) + 1
<1>1. IsTextOf(Text, resp.lines)
  BY ResponsesAssumption DEF Text
<1>2. Text \in Seq(Byte) /\ Len(Text) \in Nat /\ DOMAIN Text = 1 .. Len(Text)
  BY <1>1 DEF IsTextOf
<1>3. \A j \in 1 .. Len(Text) : Text[j] \in Byte
  BY <1>2
<1>4. \A b \in Byte : b = <<b[1], b[2]>> /\ b[1] \in Nat /\ b[2] \in Nat
  BY DEF Byte
<1> QED
  BY <1>1, <1>2, <1>3, <1>4 DEF IsTextOf, Size

(* The loop for streams reads from the beginning of a line. *)
AtStart(p) == p = 0 \/ IsNewline(Text[p])

LEMMA LineStart ==
  ASSUME resp \in Responses, NEW p \in Nat, p + 1 <= Len(Text), AtStart(p)
  PROVE  /\ Text[p + 1][2] = 1
         /\ \A j \in 1 .. p : Text[j][1] < Text[p + 1][1]
<1> DEFINE i == Text[p + 1][1]
           k == Text[p + 1][2]
<1>1. /\ p + 1 \in 1 .. Len(Text) /\ i \in DOMAIN resp.lines /\ k \in 1 .. Size(i) + 1
      /\ i \in Nat /\ k \in Nat /\ Size(i) \in Nat
  BY TextIs, LinesAre
<1>2. ASSUME NEW j \in 1 .. p PROVE Text[j][1] < i
  <2>1. /\ j \in 1 .. Len(Text) /\ p \in 1 .. Len(Text) /\ p < p + 1
        /\ Text[j][1] \in Nat /\ Text[p][1] \in Nat
    BY <1>1, TextIs
  <2>2. Text[j][1] <= Text[p][1]
    BY <2>1, TextIs DEF Earlier
  <2>3. Text[p][2] = Size(Text[p][1]) + 1
    BY <1>2 DEF AtStart, IsNewline, Size
  <2>4. Earlier(Text[p], Text[p + 1])
    BY <1>1, <2>1, TextIs
  <2>5. Text[p][1] < i
    BY <1>1, <2>1, <2>3, <2>4 DEF Earlier
  <2> QED
    BY <1>1, <2>1, <2>2, <2>5
<1>3. k = 1
  <2> SUFFICES ASSUME k # 1 PROVE FALSE
    OBVIOUS
  <2>1. 1 \in 1 .. Size(i) + 1 /\ 1 # Size(i) + 1
    BY <1>1
  <2>2. PICK j \in 1 .. Len(Text) : Text[j] = <<i, 1>>
    BY <1>1, <2>1, TextIs
  <2>3. j \notin 1 .. p
    BY <1>1, <1>2, <2>2
  <2>4. j # p + 1
    BY <2>2
  <2>5. p + 1 < j
    BY <1>1, <2>3, <2>4
  <2>6. Earlier(Text[p + 1], Text[j])
    BY <1>1, <2>5, TextIs
  <2> QED
    BY <1>1, <2>2, <2>6 DEF Earlier
<1> QED
  BY <1>2, <1>3

(* The byte after one that ends no line is the next of its line. *)
LEMMA LineGoesOn ==
  ASSUME resp \in Responses, NEW q \in 1 .. Len(Text), q + 1 <= Len(Text), ~ IsNewline(Text[q])
  PROVE  Text[q + 1] = <<Text[q][1], Text[q][2] + 1>>
<1> DEFINE i == Text[q][1]
           m == Text[q][2]
<1>1. /\ i \in DOMAIN resp.lines /\ i \in Nat /\ m \in Nat /\ Size(i) \in Nat
      /\ m \in 1 .. Size(i) + 1 /\ Len(Text) \in Nat /\ Text[q] = <<i, m>>
      /\ Len(resp.lines) \in Nat
  BY TextIs, LinesAre
<1>2. m \in 1 .. Size(i) /\ m + 1 \in 1 .. Size(i) + 1
  <2>1. m # Size(i) + 1
    BY Zenon DEF IsNewline, Size
  <2> QED
    BY <1>1, <2>1
<1> DEFINE i2 == Text[q + 1][1]
           m2 == Text[q + 1][2]
<1>3. /\ q + 1 \in 1 .. Len(Text) /\ i2 \in DOMAIN resp.lines /\ i2 \in Nat /\ m2 \in Nat
      /\ m2 \in 1 .. Size(i2) + 1 /\ Text[q + 1] = <<i2, m2>>
  <2>1. q + 1 \in 1 .. Len(Text)
    BY <1>1
  <2>2. \A k \in 1 .. Len(Text) :
          /\ Text[k] = <<Text[k][1], Text[k][2]>> /\ Text[k][1] \in DOMAIN resp.lines
          /\ Text[k][2] \in 1 .. Size(Text[k][1]) + 1 /\ Text[k][1] \in Nat /\ Text[k][2] \in Nat
    BY TextIs
  <2> QED
    BY <2>1, <2>2
<1>4. i < i2 \/ (i = i2 /\ m < m2)
  <2>1. Earlier(Text[q], Text[q + 1])
    BY <1>1, <1>3, TextIs
  <2> QED
    BY <2>1 DEF Earlier
<1>5. CASE \E j \in 1 .. Len(Text) : Text[j] = <<i, m + 1>>
  <2>1. PICK j \in 1 .. Len(Text) : Text[j] = <<i, m + 1>>
    BY <1>5
  <2>2. ~ (j < q)
    <3>1. j < q => Earlier(Text[j], Text[q])
      BY TextIs
    <3> QED
      BY <1>1, <2>1, <3>1 DEF Earlier
  <2>3. j # q
    BY <1>1, <2>1
  <2>4. ~ (q + 1 < j)
    <3>1. q + 1 < j => Earlier(Text[q + 1], Text[j])
      <4>1. \A a, b \in 1 .. Len(Text) : a < b => Earlier(Text[a], Text[b])
        BY TextIs
      <4>2. q + 1 \in 1 .. Len(Text) /\ j \in 1 .. Len(Text)
        BY <1>3, <2>1
      <4> HIDE DEF Earlier
      <4> QED
        BY <4>1, <4>2, Zenon
    <3>2. ~ Earlier(Text[q + 1], Text[j])
      <4>1. Text[j][1] = i /\ Text[j][2] = m + 1 /\ Text[q + 1][1] = i2 /\ Text[q + 1][2] = m2
        BY <2>1
      <4>2. ~ (i2 < i) /\ ~ (i2 = i /\ m2 < m + 1)
        <5>1. i \in Nat /\ i2 \in Nat /\ m \in Nat /\ m2 \in Nat
          BY <1>1, <1>3
        <5> HIDE DEF i, m, i2, m2
        <5> QED
          BY <1>4, <5>1
      <4> HIDE DEF i, m, i2, m2
      <4>3. /\ ~ (Text[q + 1][1] < Text[j][1])
            /\ ~ (Text[q + 1][1] = Text[j][1] /\ Text[q + 1][2] < Text[j][2])
        BY <4>1, <4>2
      <4> QED
        BY <4>3, Zenon DEF Earlier
    <3> QED
      BY <3>1, <3>2
  <2>5. j = q + 1
    BY <1>1, <2>2, <2>3, <2>4
  <2> QED
    BY <2>1, <2>5
<1>6. CASE i = Len(resp.lines) /\ m + 1 = Size(i) + 1
  <2>1. i2 <= i
    BY <1>3, <1>6, LinesAre
  <2>2. i2 = i
    BY <1>1, <1>3, <1>4, <2>1
  <2>3. m2 = m + 1
    BY <1>1, <1>3, <1>4, <1>6, <2>2
  <2> QED
    BY <1>3, <2>2, <2>3
<1> QED
  BY <1>1, <1>2, <1>5, <1>6, TextIs

(* What ReadLine has read from p on is the beginning of one line. *)
LEMMA LineRead ==
  ASSUME resp \in Responses, NEW p \in Nat, NEW n \in Nat \ {0}, p + n <= Len(Text), AtStart(p),
         \A j \in (p + 1) .. (p + n - 1) : ~ IsNewline(Text[j])
  PROVE  \A m \in 1 .. n : Text[p + m] = <<Text[p + 1][1], m>>
<1> DEFINE i == Text[p + 1][1]
           C == {m \in Nat : m \in 1 .. n => Text[p + m] = <<i, m>>}
<1>1. Len(Text) \in Nat
  BY TextIs
<1>2. 0 \in C
  OBVIOUS
<1>3. ASSUME NEW m \in Nat, m \in C PROVE m + 1 \in C
  <2> SUFFICES ASSUME m + 1 \in 1 .. n PROVE Text[p + (m + 1)] = <<i, m + 1>>
    OBVIOUS
  <2>1. CASE m = 0
    <3>1. p + 1 \in 1 .. Len(Text) /\ p + 1 <= Len(Text)
      BY <1>1
    <3>2. Text[p + 1][2] = 1 /\ Text[p + 1] = <<i, Text[p + 1][2]>>
      BY <3>1, LineStart, TextIs
    <3> QED
      BY <2>1, <3>2
  <2>2. CASE m # 0
    <3>1. /\ m \in 1 .. n /\ p + m \in (p + 1) .. (p + n - 1) /\ p + m \in 1 .. Len(Text)
          /\ (p + m) + 1 <= Len(Text) /\ (p + m) + 1 = p + (m + 1)
      BY <1>1, <2>2
    <3>2. Text[p + m] = <<i, m>> /\ ~ IsNewline(Text[p + m])
      BY <1>3, <3>1
    <3>3. Text[(p + m) + 1] = <<Text[p + m][1], Text[p + m][2] + 1>>
      <4>1. \A k \in 1 .. Len(Text) : k + 1 <= Len(Text) /\ ~ IsNewline(Text[k]) =>
              Text[k + 1] = <<Text[k][1], Text[k][2] + 1>>
        BY LineGoesOn
      <4>2. p + m \in 1 .. Len(Text) /\ (p + m) + 1 <= Len(Text) /\ ~ IsNewline(Text[p + m])
        BY <3>1, <3>2
      <4> QED
        BY <4>1, <4>2, Zenon
    <3>4. Text[p + (m + 1)] = <<Text[p + m][1], Text[p + m][2] + 1>>
      BY <3>1, <3>3, Zenon
    <3> HIDE DEF i
    <3>5. Text[p + m][1] = i /\ Text[p + m][2] = m
      BY <3>2
    <3> QED
      BY <3>4, <3>5, Zenon
  <2> QED
    BY <2>1, <2>2
<1>4. \A m \in Nat : m \in C
  <2> HIDE DEF C
  <2> QED
    BY <1>2, <1>3, NatClosure
<1> QED
  BY <1>4

(* How many bytes of the line have been read; all of it at the end of the text. *)
LEMMA LineFull ==
  ASSUME resp \in Responses, NEW p \in Nat, NEW n \in Nat \ {0}, p + n <= Len(Text), AtStart(p),
         \A j \in (p + 1) .. (p + n - 1) : ~ IsNewline(Text[j])
  PROVE  LET i == Text[p + 1][1] IN
         /\ i \in DOMAIN resp.lines
         /\ IsNewline(Text[p + n]) <=> n = Size(i) + 1
         /\ n <= Size(i) + 1
         /\ p + n = Len(Text) /\ ~ IsNewline(Text[p + n]) => n = Size(i)
<1> DEFINE i == Text[p + 1][1]
<1>1. /\ p + 1 \in 1 .. Len(Text) /\ p + n \in 1 .. Len(Text) /\ n \in 1 .. n
      /\ Len(Text) \in Nat
  BY TextIs
<1>2. Text[p + n] = <<i, n>>
  BY <1>1, LineRead
<1>3. i \in DOMAIN resp.lines /\ i \in Nat /\ Size(i) \in Nat /\ n \in 1 .. Size(i) + 1
  BY <1>1, <1>2, TextIs, LinesAre
<1>4. IsNewline(Text[p + n]) <=> n = Size(i) + 1
  BY <1>2 DEF IsNewline, Size
<1>5. ASSUME p + n = Len(Text), n # Size(i) + 1, n # Size(i) PROVE FALSE
  <2>1. Size(i) \in 1 .. Size(i) + 1 /\ n < Size(i) /\ Size(i) # Size(i) + 1
    BY <1>3, <1>5
  <2>2. PICK j \in 1 .. Len(Text) : Text[j] = <<i, Size(i)>>
    BY <1>3, <2>1, TextIs
  <2>3. j # p + n
    BY <1>2, <2>1, <2>2
  <2>4. j < p + n
    BY <1>1, <1>5, <2>3
  <2>5. Earlier(Text[j], Text[p + n])
    BY <1>1, <2>4, TextIs
  <2> QED
    BY <1>2, <1>3, <2>1, <2>2, <2>5 DEF Earlier
<1> QED
  BY <1>3, <1>4, <1>5

-----------------------------------------------------------------------------
(* The count of the data lines. *)

LEMMA DataLinesType ==
  ASSUME resp \in Responses, NEW n
  PROVE  /\ DataLines(n) \in SUBSET DOMAIN resp.lines
         /\ IsFiniteSet(DataLines(n)) /\ Cardinality(DataLines(n)) \in Nat
         /\ Cardinality(DataLines(n)) <= Len(resp.lines)
         /\ \A i \in DOMAIN resp.lines \ DataLines(n) : Cardinality(DataLines(n)) + 1 <= Len(resp.lines)
<1> DEFINE L == 1 .. Len(resp.lines)
           D == DataLines(n)
<1>1. IsFiniteSet(L) /\ Cardinality(L) = Len(resp.lines) /\ L = DOMAIN resp.lines
      /\ Len(resp.lines) \in Nat
  <2>1. Len(resp.lines) \in Nat /\ L = DOMAIN resp.lines
    BY LinesAre
  <2>2. \A k \in Nat : IsFiniteSet(1 .. k) /\ Cardinality(1 .. k) = k
    BY FS_Interval
  <2> QED
    BY <2>1, <2>2
<1>2. D \in SUBSET L
  BY <1>1 DEF DataLines
<1> HIDE DEF D, L
<1>3. IsFiniteSet(D) /\ Cardinality(D) <= Len(resp.lines)
  BY <1>1, <1>2, FS_Subset
<1>4. Cardinality(D) \in Nat
  BY <1>3, FS_CardinalityType
<1>5. ASSUME NEW i \in L \ D PROVE Cardinality(D) + 1 <= Len(resp.lines)
  <2>1. D \in SUBSET (L \ {i})
    BY <1>2
  <2>2. IsFiniteSet(L \ {i}) /\ Cardinality(L \ {i}) = Len(resp.lines) - 1
    <3>1. i \in L
      OBVIOUS
    <3>2. IsFiniteSet(L \ {i}) /\ Cardinality(L \ {i}) = Cardinality(L) - 1
      BY <1>1, <3>1, FS_RemoveElement, Zenon
    <3> QED
      BY <1>1, <3>2
  <2>3. Cardinality(D) <= Len(resp.lines) - 1
    BY <2>1, <2>2, FS_Subset
  <2> QED
    BY <1>1, <1>4, <2>3
<1> QED
  BY <1>1, <1>2, <1>3, <1>4, <1>5 DEF D

(* Of the bytes of one line, only the last before its newline makes it count. *)
LEMMA DataLinesGrow ==
  ASSUME resp \in Responses, NEW p \in Nat, NEW n \in Nat \ {0}, p + n <= Len(Text), AtStart(p),
         \A j \in (p + 1) .. (p + n - 1) : ~ IsNewline(Text[j]),
         NEW w \in 0 .. n
  PROVE  LET i == Text[p + 1][1] IN
         /\ i \notin DataLines(p)
         /\ DataLines(p + w) = IF resp.lines[i].kind = "data" /\ Size(i) <= w
                                 THEN DataLines(p) \cup {i} ELSE DataLines(p)
<1> DEFINE i == Text[p + 1][1]
<1>1. /\ Len(Text) \in Nat /\ i \in DOMAIN resp.lines /\ Size(i) \in Nat /\ p + 1 \in 1 .. Len(Text)
      /\ resp.lines[i].kind = "data" => Size(i) \in Nat \ {0}
  <2>1. Len(Text) \in Nat /\ \A k \in 1 .. Len(Text) : Text[k][1] \in DOMAIN resp.lines
    BY TextIs
  <2>2. p + 1 \in 1 .. Len(Text)
    BY <2>1
  <2>3. i \in DOMAIN resp.lines
    BY <2>1, <2>2
  <2>4. /\ Marker \in Nat /\ Size(i) \in Nat
        /\ resp.lines[i].kind = "data" => Size(i) > Marker
    BY <2>3, LinesAre
  <2> QED
    BY <2>1, <2>2, <2>3, <2>4
<1>2. \A m \in 1 .. n : Text[p + m] = <<i, m>>
  BY LineRead
<1>3. \A j \in 1 .. p : Text[j][1] < i
  BY <1>1, LineStart
<1>4. i \in Nat
  BY <1>1, TextIs
<1>5. i \notin DataLines(p)
  <2> SUFFICES ASSUME NEW j \in 1 .. p, Text[j] = <<i, resp.lines[i].size>> PROVE FALSE
    BY DEF DataLines
  <2> QED
    BY <1>3, <1>4
<1>6. DataLines(p) \subseteq DataLines(p + w)
  BY DEF DataLines
<1>7. ASSUME NEW l \in DataLines(p + w), l \notin DataLines(p)
      PROVE  l = i /\ resp.lines[i].kind = "data" /\ Size(i) <= w
  <2>1. PICK j \in 1 .. p + w : Text[j] = <<l, resp.lines[l].size>>
    BY <1>7 DEF DataLines
  <2>2. j \notin 1 .. p /\ resp.lines[l].kind = "data"
    BY <1>7, <2>1 DEF DataLines
  <2>3. j - p \in 1 .. n /\ j - p <= w /\ p + (j - p) = j
    BY <2>2
  <2>4. Text[j] = <<i, j - p>>
    BY <1>2, <2>3
  <2> QED
    BY <2>1, <2>2, <2>3, <2>4 DEF Size
<1>8. ASSUME resp.lines[i].kind = "data", Size(i) <= w PROVE i \in DataLines(p + w)
  <2>1. Size(i) \in 1 .. n /\ p + Size(i) \in 1 .. p + w
    BY <1>1, <1>8
  <2>2. Text[p + Size(i)] = <<i, resp.lines[i].size>>
    BY <1>2, <2>1 DEF Size
  <2> QED
    BY <1>1, <1>8, <2>1, <2>2 DEF DataLines
<1> QED
  BY <1>5, <1>6, <1>7, <1>8

(* The loop for streams ends a turn at the end of a line or for good, and counts
   the line it breaks off in before another has been counted. *)
CountAgrees ==
  LET D == DataLines(Len(sent)) IN
  IF streaming
    THEN /\ outcome = "none" => AtStart(pos)
         /\ outcome \in {"none", "eof"} => chunks = Cardinality(D)
         /\ chunks = Cardinality(D) \/ (chunks = Cardinality(D) + 1 /\ D # DOMAIN resp.lines)
    ELSE chunks = 0

LEMMA CountInit == Init => CountAgrees
<1> SUFFICES ASSUME Init PROVE CountAgrees
  OBVIOUS
<1>1. pos = 0 /\ Len(sent) = 0 /\ chunks = 0
  BY DEF Init
<1>2. DataLines(0) = {}
  BY DEF DataLines
<1> QED
  BY <1>1, <1>2, FS_EmptySet DEF CountAgrees, AtStart

LEMMA CountStep == IInv /\ IInv' /\ CountAgrees /\ [Next]_vars => CountAgrees'
<1> SUFFICES ASSUME IInv, IInv', CountAgrees, [Next]_vars PROVE CountAgrees'
  OBVIOUS
<1>0. /\ resp \in Responses /\ Len(Text) \in Nat /\ pos \in 0..Len(Text) /\ sent \in Seq(Byte)
      /\ streaming \in BOOLEAN
  BY TextIs DEF IInv, CopyType
<1>1. CASE Copy /\ ~ streaming
  BY <1>1 DEF Copy, Counts, CountAgrees
<1>2. CASE Copy /\ streaming
  <2>1. PICK n \in 0..(Len(Text) - pos), rerr \in {"none", "eof", "readError"} :
          /\ Read(n, rerr)
          /\ pos' = pos + n
          /\ chunks' = IF Counts(n) THEN chunks + 1 ELSE chunks
          /\ \E wn \in 0..n, werr \in BOOLEAN :
               /\ Write(n, rerr, wn, werr)
               /\ sent' = sent \o Bytes(wn)
               /\ outcome' = IF werr THEN "writeError" ELSE rerr
    BY <1>2 DEF Copy
  <2>2. PICK w \in 0..n, werr \in BOOLEAN :
          /\ Write(n, rerr, w, werr)
          /\ sent' = sent \o Bytes(w)
          /\ outcome' = IF werr THEN "writeError" ELSE rerr
    BY <2>1
  <2>3. UNCHANGED <<resp, streaming>> /\ outcome = "none"
    BY <1>2 DEF Copy
  <2>4. pos = Len(sent) /\ Text' = Text
    BY <1>0, <2>3 DEF IInv, Relayed, Text
  <2>5. Len(sent') = pos + w
    <3>1. w \in 0 .. Len(Text) - pos /\ Text \in Seq(Byte)
      BY <1>0, TextIs
    <3>2. Bytes(w) \in Seq(Byte) /\ Len(Bytes(w)) = w
      BY <1>0, <3>1, PieceType DEF Bytes
    <3>3. Len(sent \o Bytes(w)) = Len(sent) + Len(Bytes(w))
      BY <1>0, <3>2, ConcatProperties
    <3> QED
      BY <2>2, <2>4, <3>2, <3>3
  <2>6. AtStart(pos) /\ chunks = Cardinality(DataLines(pos))
    BY <1>2, <2>3, <2>4 DEF CountAgrees
  <2>7. /\ \A j \in (pos + 1)..(pos + n - 1) : ~ IsNewline(Text[j])
        /\ rerr = "none" => n > 0 /\ IsNewline(Text[pos + n])
        /\ rerr # "none" => n = 0 \/ ~ IsNewline(Text[pos + n])
        /\ rerr = "eof" => pos + n = Len(Text)
    BY <1>0, <1>2, <2>1 DEF Read, ReadLine
  <2>8. DataLines(Len(sent))' = DataLines(pos + w)
    BY <2>3, <2>4, <2>5 DEF DataLines
  <2>9. AtStart(pos)' <=> AtStart(pos + n)
    BY <2>1, <2>3, <2>4 DEF AtStart, IsNewline
  <2>10. /\ Cardinality(DataLines(pos)) \in Nat /\ IsFiniteSet(DataLines(pos))
         /\ DataLines(pos) \in SUBSET DOMAIN resp.lines
    BY <1>0, DataLinesType
  <2>11. CASE n = 0
    <3>1. ~ Counts(n) /\ w = 0 /\ pos + w = pos /\ rerr # "none"
      BY <1>0, <2>7, <2>11, LinesAre DEF Counts
    <3> QED
      BY <1>2, <2>1, <2>2, <2>3, <2>6, <2>8, <2>11, <3>1 DEF CountAgrees, Write
  <2>12. CASE n # 0
    <3> DEFINE i == Text[pos + 1][1]
               D == DataLines(pos)
               E == DataLines(pos + w)
    <3>1. n \in Nat \ {0} /\ pos \in Nat /\ pos + n <= Len(Text) /\ w \in 0 .. n /\ w \in Nat
      BY <1>0, <2>12
    <3>2. /\ i \in DOMAIN resp.lines
          /\ IsNewline(Text[pos + n]) <=> n = Size(i) + 1
          /\ n <= Size(i) + 1
          /\ pos + n = Len(Text) /\ ~ IsNewline(Text[pos + n]) => n = Size(i)
      BY <1>0, <2>6, <2>7, <3>1, LineFull
    <3>3. /\ i \notin D
          /\ E = IF resp.lines[i].kind = "data" /\ Size(i) <= w THEN D \cup {i} ELSE D
      BY <1>0, <2>6, <2>7, <3>1, DataLinesGrow
    <3>4. /\ Size(i) \in Nat /\ Marker \in Nat
          /\ resp.lines[i].kind \in {"data", "done"} => Size(i) > Marker
      BY <1>0, <3>2, LinesAre
    <3>5. Counts(n) <=> /\ n > Marker
                        /\ \/ resp.lines[i].kind = "data"
                           \/ resp.lines[i].kind = "done" /\ n < Size(i)
      BY <1>2 DEF Counts, Size
    <3>6. Cardinality(D \cup {i}) = Cardinality(D) + 1
      BY <2>10, <3>3, FS_AddElement
    <3> HIDE DEF i, D, E
    <3>7. resp.lines[i].kind = "data" /\ Size(i) <= w => Counts(n)
      BY <3>1, <3>4, <3>5
    <3>8. outcome' \in {"none", "eof"} =>
            w = n /\ n >= Size(i) /\ (outcome' = "none" => IsNewline(Text[pos + n]))
      <4> SUFFICES ASSUME outcome' \in {"none", "eof"}
                   PROVE  w = n /\ n >= Size(i) /\ (outcome' = "none" => IsNewline(Text[pos + n]))
        OBVIOUS
      <4>1. ~ werr /\ outcome' = rerr
        BY <2>2
      <4>2. w = n
        BY <2>2, <2>12, <3>1, <4>1 DEF Write
      <4>3. rerr = "none" => IsNewline(Text[pos + n])
        BY <2>7
      <4>4. n >= Size(i)
        BY <2>7, <2>12, <3>1, <3>2, <3>4, <4>1
      <4> QED
        BY <4>1, <4>2, <4>3, <4>4
    <3>9. outcome' = "none" => AtStart(pos)'
      BY <2>9, <3>8 DEF AtStart
    <3>10. CASE resp.lines[i].kind = "data" /\ Size(i) <= w
      <4>1. chunks' = Cardinality(E)
        BY <2>1, <2>6, <3>3, <3>6, <3>7, <3>10 DEF D
      <4> QED
        BY <1>2, <2>3, <2>8, <3>9, <4>1 DEF CountAgrees, E
    <3>11. CASE ~ (resp.lines[i].kind = "data" /\ Size(i) <= w)
      <4>1. E = D /\ D # DOMAIN resp.lines
        BY <3>2, <3>3, <3>11
      <4>2. outcome' \in {"none", "eof"} => ~ Counts(n)
        BY <3>1, <3>4, <3>5, <3>8, <3>11
      <4>3. /\ chunks' = Cardinality(E) \/ chunks' = Cardinality(E) + 1
            /\ outcome' \in {"none", "eof"} => chunks' = Cardinality(E)
        BY <2>1, <2>6, <4>1, <4>2 DEF D
      <4> QED
        BY <1>2, <2>3, <2>8, <3>9, <4>1, <4>3 DEF CountAgrees, E
    <3> QED
      BY <3>10, <3>11
  <2> QED
    BY <2>11, <2>12
<1>3. CASE Record \/ UNCHANGED vars
  <2>1. UNCHANGED <<resp, streaming, pos, sent, chunks, outcome>>
    BY <1>3 DEF Record, vars
  <2>2. DataLines(Len(sent))' = DataLines(Len(sent)) /\ (AtStart(pos)' <=> AtStart(pos))
    BY <2>1 DEF DataLines, AtStart, IsNewline, Text
  <2> QED
    BY <2>1, <2>2 DEF CountAgrees
<1> QED
  BY <1>0, <1>1, <1>2, <1>3 DEF Next

(* chunks_count is the number of data lines the client got, but for one that a
   copy broke off in, for any answer and any failures. *)
THEOREM ChunksAreCounted == Spec => []ChunksCounted
<1>1. IInv /\ CountAgrees => ChunksCounted
  BY DataLinesType DEF IInv, CopyType, CountAgrees, ChunksCounted
<1>2. Spec => []CountAgrees
  BY CountInit, CountStep, Invariance, PTL DEF Spec
<1> QED
  BY <1>1, <1>2, Invariance, PTL

-----------------------------------------------------------------------------
(* What a line says. *)

LEMMA GreatestMember ==
  ASSUME NEW n \in Nat, NEW S, S \subseteq 0 .. n, S # {}
  PROVE  Max(S) \in S /\ \A y \in S : y <= Max(S)
<1> DEFINE T == {n - x : x \in S}
<1>1. T \subseteq Nat /\ T # {}
  OBVIOUS
<1>2. PICK t \in T : \A u \in T : t <= u
  <2> HIDE DEF T
  <2> QED
    BY <1>1, LeastMember
<1>3. PICK x \in S : t = n - x
  BY <1>2
<1>4. \A y \in S : y <= x
  <2> SUFFICES ASSUME NEW y \in S PROVE y <= x
    OBVIOUS
  <2>1. n - y \in T
    OBVIOUS
  <2>2. n - x <= n - y
    BY <1>2, <1>3, <2>1
  <2>3. x \in Int /\ y \in Int
    OBVIOUS
  <2> QED
    BY <2>2, <2>3
<1>5. \E m \in S : \A y \in S : m >= y
  BY <1>4
<1> QED
  BY <1>5 DEF Max

LEMMA FirstPositiveType ==
  ASSUME NEW values \in Seq(Nat)
  PROVE  FirstPositive(values) \in Nat
<1> DEFINE found == {i \in DOMAIN values : values[i] > 0}
<1>1. CASE found = {}
  BY <1>1 DEF FirstPositive
<1>2. CASE found # {}
  <2>1. found \subseteq Nat
    OBVIOUS
  <2>2. \E x \in found : \A y \in found : x <= y
    <3> HIDE DEF found
    <3> QED
      BY <1>2, <2>1, LeastMember
  <2>3. Min(found) \in found
    BY <2>2 DEF Min
  <2>4. values[Min(found)] \in Nat
    BY <2>3
  <2> QED
    BY <1>2, <2>4 DEF FirstPositive
<1> QED
  BY <1>1, <1>2

(* A total is added to what has none. *)
LEMMA AddTotalType ==
  ASSUME NEW meta \in [Fields -> Nat]
  PROVE  /\ AddTotal(meta) \in [Fields -> Nat]
         /\ AddTotal(meta)["total"] = 0 => AddTotal(meta)["prompt"] = 0 /\ AddTotal(meta)["completion"] = 0
         /\ (meta["total"] = 0 => meta["prompt"] = 0 /\ meta["completion"] = 0) => AddTotal(meta) = meta
<1>1. /\ "total" \in Fields /\ "prompt" \in Fields /\ "completion" \in Fields
      /\ meta["total"] \in Nat /\ meta["prompt"] \in Nat /\ meta["completion"] \in Nat
      /\ meta["prompt"] + meta["completion"] \in Nat
  BY DEF Fields
<1>2. CASE meta["total"] # 0
  BY <1>2 DEF AddTotal
<1>3. CASE meta["total"] = 0
  <2> DEFINE sum == meta["prompt"] + meta["completion"]
             with == [meta EXCEPT !["total"] = sum]
  <2>1. with \in [Fields -> Nat] /\ with["total"] = sum
        /\ \A f \in Fields \ {"total"} : with[f] = meta[f]
    BY <1>1
  <2>2. with["prompt"] = meta["prompt"] /\ with["completion"] = meta["completion"]
    BY <1>1, <2>1
  <2>3. sum = 0 => meta["prompt"] = 0 /\ meta["completion"] = 0
    BY <1>1
  <2>4. meta["prompt"] = 0 /\ meta["completion"] = 0 => sum = 0
    OBVIOUS
  <2>5. AddTotal(meta) = with
    BY <1>3 DEF AddTotal
  <2> HIDE DEF with, sum
  <2>6. sum = 0 => with = meta
    BY <1>3, <2>1
  <2> QED
    BY <1>3, <2>1, <2>2, <2>3, <2>4, <2>5, <2>6
<1> QED
  BY <1>2, <1>3

LEMMA ParseJSONType ==
  ASSUME NEW line \in Line
  PROVE  /\ ParseJSON(line) \in [Fields -> Nat]
         /\ ParseJSON(line)["total"] = 0 => ParseJSON(line)["prompt"] = 0 /\ ParseJSON(line)["completion"] = 0
<1> DEFINE first == [f \in Fields |-> FirstPositive(line.says[f])]
<1>1. line.says \in [Fields -> Seq(Nat)]
  BY DEF Line
<1>2. first \in [Fields -> Nat]
  BY <1>1, FirstPositiveType
<1>3. ParseJSON(line) = AddTotal(first)
  BY DEF ParseJSON
<1> HIDE DEF first
<1> QED
  BY <1>2, <1>3, AddTotalType

-----------------------------------------------------------------------------
(* The lines of which all has been kept. *)

LEMMA KeptIs ==
  ASSUME resp \in Responses, NEW text, NEW i \in DOMAIN resp.lines
  PROVE  /\ Kept(text, i) \in Nat /\ Kept(text, i) <= Size(i)
         /\ Whole(text, i) <=> \A k \in 1 .. Size(i) : <<i, k>> \in Range(text)
<1> DEFINE K == {k \in 1 .. Size(i) : <<i, k>> \in Range(text)}
           L == 1 .. Size(i)
<1>1. IsFiniteSet(L) /\ Cardinality(L) = Size(i) /\ Size(i) \in Nat
  <2>1. Size(i) \in Nat
    BY LinesAre
  <2>2. \A m \in Nat : IsFiniteSet(1 .. m) /\ Cardinality(1 .. m) = m
    BY FS_Interval
  <2> QED
    BY <2>1, <2>2
<1>2. K \in SUBSET L
  OBVIOUS
<1>3. Kept(text, i) = Cardinality(K)
  BY DEF Kept, Size
<1>4. K = L <=> \A k \in 1 .. Size(i) : <<i, k>> \in Range(text)
  OBVIOUS
<1> HIDE DEF K, L
<1>5. IsFiniteSet(K) /\ Cardinality(K) <= Cardinality(L) /\ (Cardinality(K) = Cardinality(L) => K = L)
  BY <1>1, <1>2, FS_Subset
<1>6. Cardinality(K) \in Nat
  BY <1>5, FS_CardinalityType
<1> QED
  BY <1>1, <1>3, <1>4, <1>5, <1>6 DEF Whole, Size

(* The text is the beginning of the answer. *)
Begins(text) == \E c \in 0 .. Len(Text) : text = SubSeq(Text, 1, c)

LEMMA CapturedBegins == IInv => Begins(captured)
<1> SUFFICES ASSUME IInv PROVE Begins(captured)
  OBVIOUS
<1>1. /\ resp \in Responses /\ sent \in Seq(Byte) /\ max \in Int /\ pos \in 0 .. Len(Text)
      /\ Len(sent) \in Nat
  BY LimitsAssumption DEF IInv, CopyType
<1>2. Text \in Seq(Byte) /\ Len(Text) \in Nat
  BY <1>1, TextIs
<1> DEFINE m == Len(sent)
           n == IF max > 0 /\ max < Len(sent) THEN max ELSE Len(sent)
<1>3. m \in 0 .. Len(Text) /\ n \in 0 .. m /\ n \in 0 .. Len(Text)
  <2>1. m <= pos
    BY DEF IInv, Relayed
  <2> QED
    BY <1>1, <1>2, <2>1
<1>4. sent = SubSeq(Text, 1, m) /\ captured = SubSeq(sent, 1, n)
  BY DEF IInv, Relayed, Captured, Limited
<1> HIDE DEF m, n
<1>5. /\ Len(SubSeq(Text, 1, m)) = m /\ SubSeq(Text, 1, m) \in Seq(Byte)
      /\ \A i \in 1 .. m : SubSeq(Text, 1, m)[i] = Text[i]
  BY <1>2, <1>3, BeginType
<1>6. /\ captured \in Seq(Byte) /\ Len(captured) = n
      /\ \A i \in 1 .. n : captured[i] = sent[i]
  BY <1>1, <1>3, <1>4, <1>5, BeginType
<1>7. /\ SubSeq(Text, 1, n) \in Seq(Byte) /\ Len(SubSeq(Text, 1, n)) = n
      /\ \A i \in 1 .. n : SubSeq(Text, 1, n)[i] = Text[i]
  BY <1>2, <1>3, BeginType
<1>8. \A i \in 1 .. n : captured[i] = SubSeq(Text, 1, n)[i]
  BY <1>3, <1>4, <1>5, <1>6, <1>7
<1>9. captured = SubSeq(Text, 1, n)
  BY <1>6, <1>7, <1>8, SeqEqual
<1> QED
  BY <1>3, <1>9 DEF Begins

LEMMA BeginRange ==
  ASSUME resp \in Responses, NEW text, Begins(text)
  PROVE  /\ \A b \in Range(text) : \E j \in 1 .. Len(Text) : Text[j] = b
         /\ \A j, k \in 1 .. Len(Text) : j < k /\ Text[k] \in Range(text) => Text[j] \in Range(text)
<1>1. PICK c \in 0 .. Len(Text) : text = SubSeq(Text, 1, c)
  BY DEF Begins
<1>2. Text \in Seq(Byte) /\ Len(Text) \in Nat
  BY TextIs
<1>3. /\ text \in Seq(Byte) /\ Len(text) = c /\ \A j \in 1 .. c : text[j] = Text[j]
  BY <1>1, <1>2, BeginType
<1>4. Range(text) = {text[j] : j \in 1 .. c}
  BY <1>3 DEF Range
<1>5. \A b : b \in Range(text) <=> \E j \in 1 .. c : Text[j] = b
  BY <1>3, <1>4
<1>6. ASSUME NEW b \in Range(text) PROVE \E j \in 1 .. Len(Text) : Text[j] = b
  <2>1. PICK j \in 1 .. c : Text[j] = b
    BY <1>5, <1>6
  <2>2. j \in 1 .. Len(Text)
    BY <1>2
  <2> QED
    BY <2>1, <2>2
<1>7. ASSUME NEW j \in 1 .. Len(Text), NEW k \in 1 .. Len(Text), j < k, Text[k] \in Range(text)
      PROVE  Text[j] \in Range(text)
  <2>1. PICK l \in 1 .. c : Text[l] = Text[k]
    BY <1>5, <1>7
  <2>2. l \in 1 .. Len(Text)
    BY <1>2
  <2>3. ~ Earlier(Text[k], Text[k])
    BY TextIs DEF Earlier
  <2>4. l = k
    <3>1. l < k => Earlier(Text[l], Text[k])
      BY <2>2, TextIs
    <3>2. k < l => Earlier(Text[k], Text[l])
      BY <2>2, TextIs
    <3> QED
      BY <2>1, <2>3, <3>1, <3>2
  <2>5. j \in 1 .. c
    BY <1>7, <2>4
  <2> QED
    BY <1>5, <2>5
<1> QED
  BY <1>6, <1>7

(* The lines before one of which something has been kept are whole. *)
LEMMA WholeBefore ==
  ASSUME resp \in Responses, NEW text, Begins(text),
         NEW i \in DOMAIN resp.lines, NEW j \in DOMAIN resp.lines, i < j,
         Size(j) > 0, Whole(text, j)
  PROVE  Whole(text, i)
<1>1. Size(i) \in Nat /\ Size(j) \in Nat /\ i \in Nat /\ j \in Nat
  BY LinesAre
<1>2. <<j, 1>> \in Range(text)
  BY <1>1, KeptIs
<1>3. PICK q \in 1 .. Len(Text) : Text[q] = <<j, 1>>
  BY <1>2, BeginRange
<1>4. ASSUME NEW k \in 1 .. Size(i) PROVE <<i, k>> \in Range(text)
  <2>1. k \in 1 .. Size(i) + 1 /\ k # Size(i) + 1
    BY <1>1
  <2>2. PICK p \in 1 .. Len(Text) : Text[p] = <<i, k>>
    BY <2>1, TextIs
  <2>3. ~ Earlier(Text[q], Text[p])
    BY <1>1, <1>3, <2>2 DEF Earlier
  <2>4. p # q
    BY <1>1, <1>3, <2>2
  <2>5. p < q
    BY <2>3, <2>4, TextIs
  <2> QED
    BY <1>2, <1>3, <2>2, <2>5, BeginRange
<1> QED
  BY <1>4, KeptIs

LEMMA WholeOfAll ==
  ASSUME resp \in Responses, NEW i \in DOMAIN resp.lines
  PROVE  Whole(Text, i)
<1>1. Text \in Seq(Byte) /\ DOMAIN Text = 1 .. Len(Text) /\ Size(i) \in Nat
  BY TextIs, LinesAre
<1>2. ASSUME NEW k \in 1 .. Size(i) PROVE <<i, k>> \in Range(Text)
  <2>1. k \in 1 .. Size(i) + 1 /\ k # Size(i) + 1
    BY <1>1
  <2>2. PICK p \in 1 .. Len(Text) : Text[p] = <<i, k>>
    BY <2>1, TextIs
  <2> QED
    BY <1>1, <2>2 DEF Range
<1> QED
  BY <1>2, KeptIs

(* The payloads taken are the data lines up to one. *)
LEMMA PayloadsAre ==
  ASSUME resp \in Responses, NEW text, Begins(text)
  PROVE  /\ \E m \in 0 .. Len(resp.lines) : \A i \in DOMAIN resp.lines :
              Payload(text, i) <=> i <= m /\ resp.lines[i].kind = "data"
         /\ text = Text /\ (\A i \in DOMAIN resp.lines : resp.lines[i].size < TokenSize) =>
              \A i \in DOMAIN resp.lines : Payload(text, i) <=> resp.lines[i].kind = "data"
<1> DEFINE P == {i \in DOMAIN resp.lines : Payload(text, i)}
           N == Len(resp.lines)
<1>1. N \in Nat /\ DOMAIN resp.lines = 1 .. N /\ P \subseteq 0 .. N
  BY LinesAre
<1>2. ASSUME NEW i \in DOMAIN resp.lines, NEW j \in P, i <= j, resp.lines[i].kind = "data"
      PROVE  Payload(text, i)
  <2>1. CASE i = j
    BY <2>1
  <2>2. CASE i # j
    <3>1. j \in DOMAIN resp.lines /\ Payload(text, j) /\ i < j /\ i \in Nat /\ j \in Nat
      BY <1>1, <1>2, <2>2
    <3>2. Size(j) > 0
      BY <3>1, LinesAre DEF Payload
    <3>3. Whole(text, i)
      BY <3>1, <3>2, WholeBefore DEF Payload
    <3>4. \A l \in 1 .. i : l \in 1 .. j
      BY <3>1
    <3>5. i \in Scanned(text)
      BY <3>1, <3>4 DEF Payload, Scanned
    <3> QED
      BY <1>2, <3>3, <3>5 DEF Payload
  <2> QED
    BY <2>1, <2>2
<1>3. \E m \in 0 .. N : \A i \in DOMAIN resp.lines :
        Payload(text, i) <=> i <= m /\ resp.lines[i].kind = "data"
  <2>1. CASE P = {}
    <3>1. \A i \in DOMAIN resp.lines : ~ Payload(text, i) /\ ~ i <= 0
      BY <1>1, <2>1
    <3>2. 0 \in 0 .. N
      BY <1>1
    <3> QED
      BY <3>1, <3>2
  <2>2. CASE P # {}
    <3> HIDE DEF P
    <3>1. Max(P) \in P /\ \A i \in P : i <= Max(P)
      BY <1>1, <2>2, GreatestMember
    <3>2. Max(P) \in 0 .. N
      BY <1>1, <3>1
    <3>3. ASSUME NEW i \in DOMAIN resp.lines
          PROVE  Payload(text, i) <=> i <= Max(P) /\ resp.lines[i].kind = "data"
      <4>1. Payload(text, i) => i <= Max(P) /\ resp.lines[i].kind = "data"
        BY <3>1 DEF P, Payload
      <4> QED
        BY <1>2, <3>1, <4>1
    <3> QED
      BY <3>2, <3>3
  <2> QED
    BY <2>1, <2>2
<1>4. ASSUME text = Text, \A i \in DOMAIN resp.lines : resp.lines[i].size < TokenSize,
             NEW i \in DOMAIN resp.lines
      PROVE  Payload(text, i) <=> resp.lines[i].kind = "data"
  <2>1. Whole(text, i)
    BY <1>4, WholeOfAll
  <2>2. ASSUME NEW j \in 1 .. i PROVE Kept(text, j) < TokenSize
    <3>1. j \in DOMAIN resp.lines
      BY <1>1
    <3>2. Kept(text, j) \in Nat /\ Size(j) \in Nat /\ Kept(text, j) <= Size(j) /\ Size(j) < TokenSize
      BY <1>4, <3>1, KeptIs, LinesAre DEF Size
    <3> QED
      BY <3>2, LimitsAssumption
  <2>3. i \in Scanned(text)
    BY <2>2 DEF Scanned
  <2> QED
    BY <2>1, <2>3 DEF Payload
<1> QED
  BY <1>3, <1>4

-----------------------------------------------------------------------------
(* What the record says. *)

Sayers(text, n, f) == {i \in 1 .. n : Payload(text, i) /\ ParseJSON(resp.lines[i])[f] > 0}

LastOf(text, n) ==
  [f \in Fields |->
     IF Sayers(text, n, f) = {} THEN 0 ELSE ParseJSON(resp.lines[Max(Sayers(text, n, f))])[f]]

LEMMA LastOfStep ==
  ASSUME resp \in Responses, NEW text, NEW n \in 1 .. Len(resp.lines)
  PROVE  LastOf(text, n) = IF Payload(text, n)
                             THEN Merge(LastOf(text, n - 1), ParseJSON(resp.lines[n]))
                             ELSE LastOf(text, n - 1)
<1> DEFINE says == ParseJSON(resp.lines[n])
<1>1. n \in Nat \ {0} /\ n - 1 \in Nat /\ 1 .. n = (1 .. (n - 1)) \cup {n} /\ n \notin 1 .. (n - 1)
  BY LinesAre
<1>2. ASSUME NEW f \in Fields, Payload(text, n), says[f] > 0
      PROVE  LastOf(text, n)[f] = says[f]
  <2> DEFINE S == Sayers(text, n, f)
  <2>1. n \in S /\ S \subseteq 0 .. n
    BY <1>1, <1>2 DEF Sayers
  <2>2. Max(S) \in S /\ \A y \in S : y <= Max(S)
    <3> HIDE DEF S
    <3> QED
      BY <1>1, <2>1, GreatestMember
  <2>3. Max(S) = n
    <3> HIDE DEF S
    <3>1. Max(S) \in 0 .. n /\ n <= Max(S)
      BY <2>1, <2>2
    <3>2. n \in Nat
      BY <1>1
    <3> QED
      BY <3>1, <3>2
  <2>4. S # {}
    BY <2>1
  <2> QED
    BY <2>3, <2>4 DEF LastOf
<1>3. ASSUME NEW f \in Fields, ~ (Payload(text, n) /\ says[f] > 0)
      PROVE  LastOf(text, n)[f] = LastOf(text, n - 1)[f]
  <2>1. Sayers(text, n, f) = Sayers(text, n - 1, f)
    BY <1>1, <1>3 DEF Sayers
  <2> QED
    BY <2>1 DEF LastOf
<1>4. CASE Payload(text, n)
  <2>1. \A f \in Fields : LastOf(text, n)[f] = Merge(LastOf(text, n - 1), says)[f]
    BY <1>2, <1>3, <1>4 DEF Merge
  <2>2. LastOf(text, n) = Merge(LastOf(text, n - 1), says)
    BY <2>1 DEF LastOf, Merge
  <2> QED
    BY <1>4, <2>2
<1>5. CASE ~ Payload(text, n)
  <2>1. \A f \in Fields : LastOf(text, n)[f] = LastOf(text, n - 1)[f]
    BY <1>3, <1>5
  <2>2. LastOf(text, n) = LastOf(text, n - 1)
    BY <2>1 DEF LastOf
  <2> QED
    BY <1>5, <2>2
<1> QED
  BY <1>4, <1>5

(* The function of parseSSEResponseMeta is the one of the last sayers. *)
Merges(text, g) ==
  g = [n \in 0 .. Len(resp.lines) |->
         IF n = 0 THEN Zero
         ELSE IF Payload(text, n) THEN Merge(g[n - 1], ParseJSON(resp.lines[n]))
         ELSE g[n - 1]]

LEMMA MergedIs ==
  ASSUME resp \in Responses, NEW text
  PROVE  ParseSSE(text) = AddTotal(LastOf(text, Len(resp.lines)))
<1> DEFINE N == Len(resp.lines)
           w == [n \in 0 .. N |-> LastOf(text, n)]
           g == CHOOSE h : Merges(text, h)
<1>1. N \in Nat
  BY LinesAre
<1>2. LastOf(text, 0) = Zero
  BY DEF LastOf, Zero, Sayers
<1>3. \A n \in 1 .. N :
        LastOf(text, n) = IF Payload(text, n)
                            THEN Merge(LastOf(text, n - 1), ParseJSON(resp.lines[n]))
                            ELSE LastOf(text, n - 1)
  BY LastOfStep
<1>4. Merges(text, w)
  <2>1. \A n \in 0 .. N : w[n] = LastOf(text, n)
    OBVIOUS
  <2>2. \A n \in 0 .. N : n # 0 => n \in 1 .. N /\ n - 1 \in 0 .. N
    BY <1>1
  <2>3. \A n \in 0 .. N :
          w[n] = IF n = 0 THEN Zero
                 ELSE IF Payload(text, n) THEN Merge(w[n - 1], ParseJSON(resp.lines[n]))
                 ELSE w[n - 1]
    BY <1>2, <1>3, <2>1, <2>2
  <2> QED
    BY <2>3 DEF Merges
<1>5. Merges(text, g)
  <2> HIDE DEF w
  <2> QED
    BY <1>4
<1>6. ParseSSE(text) = AddTotal(g[N])
  BY Zenon DEF ParseSSE, Merges
<1> DEFINE C == {n \in Nat : n \in 0 .. N => g[n] = LastOf(text, n)}
<1> HIDE DEF g
<1>7. \A n \in 0 .. N : g[n] = IF n = 0 THEN Zero
                               ELSE IF Payload(text, n) THEN Merge(g[n - 1], ParseJSON(resp.lines[n]))
                               ELSE g[n - 1]
  BY <1>5 DEF Merges
<1>8. 0 \in C
  BY <1>1, <1>2, <1>7
<1>9. ASSUME NEW n \in Nat, n \in C PROVE n + 1 \in C
  <2> SUFFICES ASSUME n + 1 \in 0 .. N PROVE g[n + 1] = LastOf(text, n + 1)
    OBVIOUS
  <2>1. n \in 0 .. N /\ n + 1 \in 1 .. N /\ (n + 1) - 1 = n /\ n + 1 # 0
    BY <1>1
  <2>2. g[n] = LastOf(text, n)
    BY <1>9, <2>1
  <2> QED
    BY <1>3, <1>7, <2>1, <2>2
<1>10. \A n \in Nat : n \in C
  <2> HIDE DEF C
  <2> QED
    BY <1>8, <1>9, NatClosure
<1>11. g[N] = LastOf(text, N)
  BY <1>1, <1>10
<1> QED
  BY <1>6, <1>11

(* A record is of numbers, and its total is there when its parts are. *)
LEMMA LastSaidType ==
  ASSUME resp \in Responses, NEW m \in 0 .. Len(resp.lines)
  PROVE  LastSaid(m) \in [Fields -> Nat] /\ AddTotal(LastSaid(m)) = LastSaid(m)
<1> DEFINE said(f) == {i \in 1 .. m : /\ resp.lines[i].kind \in {"data", "json"}
                                      /\ ParseJSON(resp.lines[i])[f] > 0}
           last == LastSaid(m)
<1>1. /\ m \in Nat /\ \A i \in 1 .. m : i \in DOMAIN resp.lines /\ resp.lines[i] \in Line
  BY LinesAre
<1>2. \A i \in 1 .. m :
        /\ ParseJSON(resp.lines[i]) \in [Fields -> Nat]
        /\ ParseJSON(resp.lines[i])["total"] = 0 =>
             ParseJSON(resp.lines[i])["prompt"] = 0 /\ ParseJSON(resp.lines[i])["completion"] = 0
  BY <1>1, ParseJSONType
<1>3. last = [f \in Fields |-> IF said(f) = {} THEN 0 ELSE ParseJSON(resp.lines[Max(said(f))])[f]]
  BY DEF LastSaid
<1>4. ASSUME NEW f \in Fields, said(f) # {}
      PROVE  Max(said(f)) \in said(f)
  <2> DEFINE S == said(f)
  <2>1. S \subseteq 0 .. m
    BY <1>1
  <2> HIDE DEF S
  <2>2. S # {} => Max(S) \in S
    BY <1>1, <2>1, GreatestMember
  <2> QED
    BY <1>4, <2>2 DEF S
<1>5. ASSUME NEW f \in Fields
      PROVE  last[f] \in Nat /\ (last[f] = 0 <=> said(f) = {})
  <2>1. CASE said(f) = {}
    BY <1>3, <2>1
  <2>2. CASE said(f) # {}
    <3>1. Max(said(f)) \in 1 .. m /\ ParseJSON(resp.lines[Max(said(f))])[f] > 0
      BY <1>4, <2>2
    <3>2. ParseJSON(resp.lines[Max(said(f))])[f] \in Nat
      <4>1. ParseJSON(resp.lines[Max(said(f))]) \in [Fields -> Nat]
        BY <1>2, <3>1, Zenon
      <4> QED
        BY <4>1, Zenon
    <3>3. last[f] = ParseJSON(resp.lines[Max(said(f))])[f]
      BY <1>3, <2>2, Zenon
    <3> HIDE DEF last, said
    <3> QED
      BY <2>2, <3>1, <3>2, <3>3
  <2> QED
    BY <2>1, <2>2
<1>6. last \in [Fields -> Nat]
  <2>1. \A f \in Fields : last[f] \in Nat
    BY <1>5
  <2> HIDE DEF last
  <2> QED
    BY <1>3, <2>1
<1>7. ASSUME last["total"] = 0 PROVE last["prompt"] = 0 /\ last["completion"] = 0
  <2>1. "total" \in Fields /\ "prompt" \in Fields /\ "completion" \in Fields
    BY DEF Fields
  <2>2. said("total") = {}
    BY <1>5, <1>7, <2>1
  <2>3. ASSUME NEW i \in 1 .. m, resp.lines[i].kind \in {"data", "json"}
        PROVE  ~ (ParseJSON(resp.lines[i])["prompt"] > 0) /\ ~ (ParseJSON(resp.lines[i])["completion"] > 0)
    <3>1. ~ (ParseJSON(resp.lines[i])["total"] > 0)
      <4>1. \A f : \A k \in 1 .. m : k \notin said(f) =>
              ~ (resp.lines[k].kind \in {"data", "json"} /\ ParseJSON(resp.lines[k])[f] > 0)
        OBVIOUS
      <4> HIDE DEF said
      <4>2. i \notin said("total")
        BY <2>2
      <4> QED
        BY <2>3, <4>1, <4>2
    <3>2. ParseJSON(resp.lines[i])["total"] \in Nat
      BY <1>2, <2>1
    <3>3. ParseJSON(resp.lines[i])["total"] = 0
      BY <3>1, <3>2
    <3> QED
      BY <1>2, <3>3
  <2>4. said("prompt") = {} /\ said("completion") = {}
    BY <2>3
  <2> QED
    BY <1>5, <2>1, <2>4
<1> HIDE DEF last
<1> QED
  BY <1>6, <1>7, AddTotalType DEF last

(* LastSaid and the demand on a record, as operators of the answer. *)
SaidOf(answer, n) ==
  LET said(f) == {i \in 1 .. n : /\ answer.lines[i].kind \in {"data", "json"}
                                 /\ ParseJSON(answer.lines[i])[f] > 0}
  IN [f \in Fields |-> IF said(f) = {} THEN 0 ELSE ParseJSON(answer.lines[Max(said(f))])[f]]

Fits(answer, text, r) ==
  /\ \E n \in 0 .. Len(answer.lines) : r = SaidOf(answer, n)
  /\ text = answer.text /\ (\A i \in DOMAIN answer.lines : answer.lines[i].size < TokenSize)
       => r = SaidOf(answer, Len(answer.lines))

LEMMA StreamFits ==
  ASSUME resp \in Responses, resp.type = "sse", NEW text, Begins(text)
  PROVE  Fits(resp, text, ParseResponseMeta(text))
<1> DEFINE N == Len(resp.lines)
<1>1. N \in Nat /\ DOMAIN resp.lines = 1 .. N
  BY LinesAre
<1>2. \A i \in DOMAIN resp.lines : resp.lines[i].kind # "json"
  BY ResponsesAssumption
<1>3. ParseResponseMeta(text) = AddTotal(LastOf(text, N))
  BY MergedIs DEF ParseResponseMeta
<1>4. ASSUME NEW m \in 0 .. N,
             \A i \in DOMAIN resp.lines : Payload(text, i) <=> i <= m /\ resp.lines[i].kind = "data"
      PROVE  ParseResponseMeta(text) = LastSaid(m)
  <2>1. \A f \in Fields : Sayers(text, N, f) =
          {i \in 1 .. m : /\ resp.lines[i].kind \in {"data", "json"}
                          /\ ParseJSON(resp.lines[i])[f] > 0}
    BY <1>1, <1>2, <1>4 DEF Sayers
  <2>2. LastOf(text, N) = LastSaid(m)
    BY <2>1 DEF LastOf, LastSaid
  <2> QED
    BY <1>3, <2>2, LastSaidType
<1>5. \E n \in 0 .. N : ParseResponseMeta(text) = LastSaid(n)
  BY <1>4, PayloadsAre
<1>6. ASSUME text = Text, \A i \in DOMAIN resp.lines : resp.lines[i].size < TokenSize
      PROVE  ParseResponseMeta(text) = LastSaid(N)
  <2>1. \A i \in DOMAIN resp.lines : Payload(text, i) <=> resp.lines[i].kind = "data"
    BY <1>6, PayloadsAre
  <2>2. \A i \in DOMAIN resp.lines : Payload(text, i) <=> i <= N /\ resp.lines[i].kind = "data"
    BY <1>1, <2>1
  <2>3. N \in 0 .. N
    BY <1>1
  <2> QED
    BY <1>4, <2>2, <2>3
<1>7. \A n : LastSaid(n) = SaidOf(resp, n)
  BY DEF LastSaid, SaidOf
<1> QED
  BY <1>5, <1>6, <1>7 DEF Fits, Text

LEMMA ObjectFits ==
  ASSUME resp \in Responses, resp.type = "json", NEW text, Begins(text)
  PROVE  Fits(resp, text, ParseResponseMeta(text))
<1> DEFINE says == ParseJSON(resp.lines[1])
<1>1. /\ Len(resp.lines) = 1 /\ 1 \in DOMAIN resp.lines /\ resp.lines[1].kind = "json"
      /\ resp.lines[1] \in Line /\ resp.type # "sse"
  <2>1. Len(resp.lines) = 1
    BY ResponsesAssumption
  <2>2. 1 \in DOMAIN resp.lines /\ resp.lines[1] \in Line
    BY <2>1, LinesAre
  <2> QED
    BY <2>1, <2>2, ResponsesAssumption
<1>2. says \in [Fields -> Nat]
  BY <1>1, ParseJSONType
<1>3. SaidOf(resp, 0) = Zero
  BY DEF SaidOf, Zero
<1>4. SaidOf(resp, 1) = says
  <2> DEFINE said(f) == {i \in 1 .. 1 : /\ resp.lines[i].kind \in {"data", "json"}
                                        /\ ParseJSON(resp.lines[i])[f] > 0}
             said1 == SaidOf(resp, 1)
  <2>1. said1 = [f \in Fields |-> IF said(f) = {} THEN 0 ELSE ParseJSON(resp.lines[Max(said(f))])[f]]
    BY DEF SaidOf
  <2>2. ASSUME NEW f \in Fields PROVE said1[f] = says[f]
    <3>1. CASE says[f] > 0
      <4>1. said(f) = {1}
        BY <1>1, <3>1
      <4>2. Max({1}) = 1
        <5>1. {1} \subseteq 0 .. 1 /\ {1} # {} /\ 1 \in Nat
          OBVIOUS
        <5>2. Max({1}) \in {1}
          BY <5>1, GreatestMember
        <5> QED
          BY <5>2
      <4>3. said1[f] = says[f]
        <5> HIDE DEF said, said1
        <5> QED
          BY <2>1, <4>1, <4>2
      <4> QED
        BY <4>3
    <3>2. CASE ~ (says[f] > 0)
      <4>1. said(f) = {}
        BY <3>2
      <4>2. says[f] = 0
        <5>1. says[f] \in Nat
          BY <1>2
        <5> QED
          BY <3>2, <5>1
      <4>3. said1[f] = 0
        <5> HIDE DEF said, said1
        <5> QED
          BY <2>1, <4>1
      <4> QED
        BY <4>2, <4>3
    <3> QED
      BY <3>1, <3>2
  <2> HIDE DEF said1, says
  <2>3. said1 = says
    BY <1>2, <2>1, <2>2
  <2> QED
    BY <2>3 DEF said1, says
<1>5. text = Text => Whole(text, 1)
  BY <1>1, WholeOfAll
<1>6. ParseResponseMeta(text) = IF Whole(text, 1) THEN says ELSE Zero
  BY <1>1 DEF ParseResponseMeta
<1> HIDE DEF says
<1>7. 0 \in 0 .. Len(resp.lines) /\ 1 \in 0 .. Len(resp.lines)
  BY <1>1
<1> QED
  BY <1>1, <1>3, <1>4, <1>5, <1>6, <1>7 DEF Fits, Text

(* Nothing is recorded before the copying is over. *)
RecordedLate == rec # Nothing => outcome # "none" /\ Fits(resp, captured, rec)

LEMMA RecordInit == Init => RecordedLate
BY DEF Init, RecordedLate

LEMMA RecordStep == IInv /\ RecordedLate /\ [Next]_vars => RecordedLate'
<1> SUFFICES ASSUME IInv, RecordedLate, [Next]_vars PROVE RecordedLate'
  OBVIOUS
<1>1. CASE Copy
  BY <1>1 DEF Copy, RecordedLate, Nothing
<1>2. CASE Record
  <2>1. Begins(captured)
    BY CapturedBegins
  <2>2. resp \in Responses /\ resp.type \in {"json", "sse"}
    BY ResponsesAssumption DEF IInv, CopyType
  <2>3. Fits(resp, captured, ParseResponseMeta(captured))
    BY <2>1, <2>2, StreamFits, ObjectFits
  <2>4. /\ rec' = ParseResponseMeta(captured) /\ resp' = resp /\ captured' = captured
        /\ outcome' = outcome /\ outcome # "none"
    BY <1>2 DEF Record
  <2>5. Fits(resp', captured', rec')
    BY <2>3, <2>4
  <2> QED
    BY <2>4, <2>5 DEF RecordedLate
<1>3. CASE UNCHANGED vars
  <2>1. rec' = rec /\ resp' = resp /\ captured' = captured /\ outcome' = outcome
    BY <1>3 DEF vars
  <2> QED
    BY <2>1 DEF RecordedLate, Nothing
<1> QED
  BY <1>1, <1>2, <1>3 DEF Next

LEMMA RecordedIsUsage == RecordedLate => UsageRecorded
BY DEF RecordedLate, UsageRecorded, Fits, SaidOf, LastSaid, Text

THEOREM RecordedAtEnd == Spec => []RecordedLate
BY RecordInit, RecordStep, Invariance, PTL DEF Spec

(* What the row says of an answer fits what the client got of it, wherever the
   copying broke off or the buffer was full: the data lines are counted, and the
   usage is that of the answer up to one of its lines, never a mixture. *)
THEOREM RowFitsAnswer == Spec => []RecordFits
<1>1. ChunksCounted /\ RecordedLate => RecordFits
  BY RecordedIsUsage DEF RecordFits
<1> QED
  BY <1>1, ChunksAreCounted, RecordedAtEnd, PTL

(* No more is kept than max_capture_bytes, and no more counted than there are
   lines; the record has a number for every field. *)
THEOREM TypeCorrect == Spec => []TypeOK
<1>1. ASSUME IInv, CountAgrees, RecordedLate PROVE TypeOK
  <2>1. CopyType /\ resp \in Responses
    BY <1>1 DEF IInv, CopyType
  <2>2. max > 0 => Len(captured) <= max
    <3>1. max \in Int /\ sent \in Seq(Byte) /\ captured = Limited(sent) /\ Len(sent) \in Nat
      BY <1>1, LimitsAssumption DEF IInv, CopyType, Captured
    <3>2. Len(captured) = IF max > 0 /\ max < Len(sent) THEN max ELSE Len(sent)
      BY <3>1, LimitedType
    <3> QED
      BY <3>1, <3>2
  <2>3. chunks \in 0 .. Len(resp.lines)
    <3> DEFINE D == DataLines(Len(sent))
    <3>1. /\ Cardinality(D) \in Nat /\ Len(resp.lines) \in Nat /\ Cardinality(D) <= Len(resp.lines)
          /\ D # DOMAIN resp.lines => Cardinality(D) + 1 <= Len(resp.lines)
      <4>1. D \in SUBSET DOMAIN resp.lines
        BY <2>1, DataLinesType
      <4> HIDE DEF D
      <4>2. D # DOMAIN resp.lines => DOMAIN resp.lines \ D # {}
        BY <4>1
      <4> QED
        BY <2>1, <4>2, DataLinesType, LinesAre DEF D
    <3>2. chunks = 0 \/ chunks = Cardinality(D) \/ (chunks = Cardinality(D) + 1 /\ D # DOMAIN resp.lines)
      BY <1>1 DEF CountAgrees
    <3> HIDE DEF D
    <3> QED
      BY <3>1, <3>2
  <2>4. rec \in [Fields -> Int]
    <3>1. CASE rec = Nothing
      BY <3>1 DEF Nothing
    <3>2. CASE rec # Nothing
      <4>1. PICK n \in 0 .. Len(resp.lines) : rec = LastSaid(n)
        BY <1>1, <3>2, RecordedIsUsage DEF UsageRecorded
      <4>2. rec \in [Fields -> Nat]
        BY <2>1, <4>1, LastSaidType
      <4> QED
        BY <4>2
    <3> QED
      BY <3>1, <3>2
  <2> QED
    BY <2>1, <2>2, <2>3, <2>4 DEF TypeOK
<1>2. Spec => []CountAgrees
  BY CountInit, CountStep, Invariance, PTL DEF Spec
<1> QED
  BY <1>1, <1>2, Invariance, RecordedAtEnd, PTL
=============================================================================
