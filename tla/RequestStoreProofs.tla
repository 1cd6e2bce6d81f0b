------------------------- MODULE RequestStoreProofs -------------------------
(***************************************************************************)
(* Proofs about RequestStore, and at the end about RawReader, for any set  *)
(* of requests, any length of a day and any retention, however long the    *)
(* clock runs, and with every fault.                                       *)
(***************************************************************************)
EXTENDS RawReader, TLAPS

USE DEF NoPath, Paths, Kinds

(* A day is named by an instant that is at most a day ago. *)
LEMMA MidnightFacts ==
  ASSUME NEW t \in Nat
  PROVE  /\ Midnight(t) \in Nat
         /\ Midnight(t) <= t
         /\ t - TicksPerDay < Midnight(t)
BY TimeAssumption DEF Midnight

LEMMA CutoffFacts ==
  ASSUME now \in Nat
  PROVE  Retention \in Int /\ Cutoff \in Int
BY TimeAssumption DEF Retention, Cutoff

LEMMA RecordFacts ==
  ASSUME NEW r \in Requests, NEW k \in Kinds, NEW d \in Nat
  PROVE  /\ Payload(r, k, d) \in File /\ Part(r, k, d) \in File
         /\ Payload(r, k, d).id = r /\ Part(r, k, d).id = r
         /\ Payload(r, k, d).kind = k /\ Part(r, k, d).kind = k
         /\ Payload(r, k, d).day = d /\ Part(r, k, d).day = d
         /\ Payload(r, k, d).whole = TRUE /\ Part(r, k, d).whole = FALSE
BY DEF Payload, Part, File

-----------------------------------------------------------------------------
(* Types. *)

LEMMA AbsentIsRow == Absent \in Row /\ Nowhere \in [Kinds -> Paths]
BY DEF Absent, Row, Nowhere

LEMMA InitType == Init => TypeOK
BY AbsentIsRow, TimeAssumption DEF Init, TypeOK, Steps, CleanSteps

(* Writing one row. *)
LEMMA PutRow ==
  ASSUME TypeOK, NEW r \in Requests, NEW w \in Row,
         w.how = "absent" => w = Absent, rows' = [rows EXCEPT ![r] = w]
  PROVE  /\ rows' \in [Requests -> Row]
         /\ \A q \in Requests : rows'[q].how = "absent" => rows'[q] = Absent
         /\ rows'[r] = w
         /\ \A q \in Requests : q # r => rows'[q] = rows[q]
<1> USE DEF TypeOK
<1>1. rows' \in [Requests -> Row]
  OBVIOUS
<1>2. rows'[r] = w
  OBVIOUS
<1>3. \A q \in Requests : q # r => rows'[q] = rows[q]
  OBVIOUS
<1>4. ASSUME NEW q \in Requests, rows'[q].how = "absent"
      PROVE  rows'[q] = Absent
  <2>1. CASE q = r
    BY <2>1, <1>2, <1>4
  <2>2. CASE q # r
    BY <2>2, <1>3, <1>4
  <2> QED
    BY <2>1, <2>2
<1> QED
  BY <1>1, <1>2, <1>3, <1>4

(* An UPDATE leaves rows of the table behind. *)
LEMMA RecordType ==
  ASSUME TypeOK, NEW r \in Requests, NEW how \in {"open", "finished", "failed", "repaired"}, NEW p \in Paths,
         Record(r, how, p)
  PROVE  /\ rows' \in [Requests -> Row]
         /\ \A q \in Requests : rows'[q].how = "absent" => rows'[q] = Absent
         /\ rows'[r].how = how /\ rows'[r].response = p
         /\ rows'[r].request = rows[r].request
         /\ \A q \in Requests : q # r => rows'[q] = rows[q]
<1> DEFINE row == [how |-> how, created |-> rows[r].created,
                   request |-> rows[r].request, response |-> p]
<1>1. row \in Row /\ row.how = how /\ row.response = p /\ row.request = rows[r].request
  BY DEF TypeOK, Row
<1>2. rows' = [rows EXCEPT ![r] = row]
  BY DEF Record
<1> HIDE DEF row
<1> QED
  BY <1>1, <1>2, PutRow

LEMMA HandlerType ==
  ASSUME TypeOK, InHand, NEW r \in Requests, Handler(r)
  PROVE  TypeOK'
<1> USE DEF TypeOK, Goto, handlerVars, diskVars, deleteVars, cleanVars, historyVars, repairVars
<1>1. CASE Begin(r)
  BY <1>1 DEF Begin, Steps
<1>2. CASE Forwarded(r)
  BY <1>2 DEF Forwarded, Steps
<1>3. ASSUME NEW p \in Paths, AfterSave(r, p), dirs' \subseteq Nat, files' \subseteq File
      PROVE  TypeOK'
  BY <1>3 DEF AfterSave, Steps
<1>4. CASE SaveNothing(r)
  BY <1>3, <1>4 DEF SaveNothing
<1>5. CASE SaveName(r)
  BY <1>5, MidnightFacts DEF SaveName, Steps
<1>13. CASE SaveDir(r)
  <2>1. path[r] \in Nat
    BY <1>13 DEF SaveDir, InHand
  <2>2. dirs' \subseteq Nat /\ revived' \subseteq Nat /\ late' \subseteq Nat
    BY <1>13, <2>1 DEF SaveDir
  <2> QED
    BY <1>13, <2>2 DEF SaveDir, Steps
<1>14. CASE SaveDirFails(r)
  BY <1>3, <1>14 DEF SaveDirFails
<1>6. CASE SaveCreate(r)
  <2>1. path[r] \in Nat /\ kind[r] \in Kinds
    BY <1>6 DEF SaveCreate
  <2>2. files' \subseteq File
    <3>1. Part(r, kind[r], path[r]) \in File
      BY <2>1, RecordFacts
    <3> QED
      BY <1>6, <3>1 DEF SaveCreate
  <2> QED
    BY <1>6, <2>2 DEF SaveCreate, Steps
<1>7. CASE SaveCreateFails(r)
  BY <1>3, <1>7 DEF SaveCreateFails
<1>8. CASE SaveWrite(r)
  <2>1. kind[r] \in Kinds
    OBVIOUS
  <2>2. CASE Part(r, kind[r], path[r]) \in files
    <3>1. path[r] \in Nat
      BY <2>2 DEF Part, File
    <3>2. files' \subseteq File
      <4>1. Payload(r, kind[r], path[r]) \in File
        BY <2>1, <3>1, RecordFacts
      <4> QED
        BY <1>8, <4>1 DEF SaveWrite
    <3> QED
      BY <1>3, <1>8, <3>2 DEF SaveWrite
  <2>3. CASE Part(r, kind[r], path[r]) \notin files
    BY <1>3, <1>8, <2>3 DEF SaveWrite
  <2> QED
    BY <2>2, <2>3
<1>9. CASE SaveWriteFails(r)
  BY <1>3, <1>9 DEF SaveWriteFails
<1>10. CASE Insert(r)
  <2> DEFINE row == [how |-> "open", created |-> started[r],
                     request |-> path[r], response |-> NoPath]
  <2>1. row \in Row /\ row.how # "absent"
    BY DEF Row
  <2>2. rows' = [rows EXCEPT ![r] = row] \/ rows' = rows
    BY <1>10 DEF Insert
  <2>3. rows' \in [Requests -> Row] /\ \A q \in Requests : rows'[q].how = "absent" => rows'[q] = Absent
    <3> HIDE DEF row
    <3>1. CASE rows' = [rows EXCEPT ![r] = row]
      BY <2>1, <3>1, PutRow
    <3>2. CASE rows' = rows
      BY <3>2
    <3> QED
      BY <2>2, <3>1, <3>2
  <2> QED
    BY <1>10, <2>3 DEF Insert, Steps
<1>11. CASE Copied(r)
  BY <1>11 DEF Copied, Steps
<1>12. CASE Finish(r)
  <2>1. rows' \in [Requests -> Row] /\ \A q \in Requests : rows'[q].how = "absent" => rows'[q] = Absent
    <3>1. CASE Present(r) /\ Record(r, IF ok[r] THEN "finished" ELSE "failed", path[r])
      BY <3>1, RecordType
    <3>2. CASE rows' = rows
      BY <3>2
    <3> QED
      BY <1>12, <3>1, <3>2 DEF Finish
  <2> QED
    BY <1>12, <2>1 DEF Finish, Return, Steps
<1> QED
  BY <1>1, <1>2, <1>4, <1>5, <1>6, <1>7, <1>8, <1>9, <1>10, <1>11, <1>12, <1>13, <1>14 DEF Handler

LEMMA DeleteType ==
  ASSUME TypeOK, NEW r \in Requests, Delete(r)
  PROVE  TypeOK'
<1> USE AbsentIsRow DEF TypeOK, handlerVars, diskVars, cleanVars, historyVars, repairVars
<1>1. CASE DeleteLookup(r)
  BY <1>1 DEF DeleteLookup, PathOf, Row
<1>2. CASE DeleteFile(r)
  <2>1. files' \subseteq File
    BY <1>2 DEF DeleteFile
  <2>2. del' \in [Requests -> Kinds \cup {"no", "row", "over"}]
    BY <1>2 DEF DeleteFile
  <2>3. found' \in [Requests -> [Kinds -> Paths]]
    BY <1>2 DEF DeleteFile
  <2> QED
    BY <1>2, <2>1, <2>2, <2>3 DEF DeleteFile
<1>3. CASE DeleteRow(r)
  <2>1. rows' \in [Requests -> Row] /\ \A q \in Requests : rows'[q].how = "absent" => rows'[q] = Absent
    <3>1. CASE rows' = [rows EXCEPT ![r] = Absent]
      BY <3>1, PutRow
    <3>2. CASE rows' = rows
      BY <3>2
    <3> QED
      BY <1>3, <3>1, <3>2 DEF DeleteRow
  <2>2. found' \in [Requests -> [Kinds -> Paths]]
    BY <1>3 DEF DeleteRow
  <2> QED
    BY <1>3, <2>1, <2>2 DEF DeleteRow
<1> QED
  BY <1>1, <1>2, <1>3 DEF Delete

LEMMA CleanupType ==
  ASSUME TypeOK, Cleanup
  PROVE  TypeOK'
<1> USE AbsentIsRow, CutoffFacts DEF TypeOK, CleanSteps, handlerVars, diskVars, deleteVars,
      historyVars, repairVars
<1>1. CASE CleanRows
  BY <1>1 DEF CleanRows
<1>2. CASE CleanStart \/ CleanReadDir \/ CleanDate
  BY <1>2 DEF CleanStart, CleanReadDir, CleanDate
<1>3. CASE CleanReadFails
  BY <1>3 DEF CleanReadFails
<1>4. CASE CleanDir
  BY <1>4 DEF CleanDir
<1>5. CASE CleanDone
  <2>1. swept' \in Int /\ late' \subseteq Nat /\ missed' \subseteq {"sweep", "repair"}
    BY <1>5 DEF CleanDone
  <2> QED
    BY <1>5, <2>1 DEF CleanDone
<1> QED
  BY <1>1, <1>2, <1>3, <1>4, <1>5 DEF Cleanup

LEMMA OtherType ==
  ASSUME TypeOK, Startup \/ Crash \/ Tick
  PROVE  TypeOK'
<1> USE AbsentIsRow DEF TypeOK, handlerVars, diskVars, deleteVars, cleanVars, historyVars,
      repairVars
<1>1. CASE RepairQuery
  BY <1>1 DEF RepairQuery, StuckRows
<1>2. CASE RepairOne
  <2> PICK q \in stuck :
        /\ stuck' = stuck \ {q}
        /\ \/ \E f \in files : Record(q, "repaired", f.day) /\ missed' = missed
           \/ rows' = rows /\ missed' \in {missed, missed \cup {"repair"}}
    BY <1>2 DEF RepairOne
  <2>1. rows' \in [Requests -> Row] /\ \A p \in Requests : rows'[p].how = "absent" => rows'[p] = Absent
    <3>1. CASE \E f \in files : Record(q, "repaired", f.day)
      <4> PICK f \in files : Record(q, "repaired", f.day)
        BY <3>1
      <4>1. f.day \in Nat
        BY DEF File
      <4> QED
        BY <4>1, RecordType
    <3>2. CASE rows' = rows
      BY <3>2
    <3> QED
      BY <3>1, <3>2
  <2> QED
    BY <1>2, <2>1 DEF RepairOne
<1>3. CASE Serve
  BY <1>3 DEF Serve
<1>4. CASE Boot
  BY <1>4 DEF Boot
<1>5. CASE Crash
  BY <1>5 DEF Crash, Steps, CleanSteps
<1>6. CASE Tick
  BY <1>6 DEF Tick
<1> QED
  BY <1>1, <1>2, <1>3, <1>4, <1>5, <1>6 DEF Startup

LEMMA TypeStep == TypeOK /\ InHand /\ [Next]_vars => TypeOK'
<1> SUFFICES ASSUME TypeOK, InHand, [Next]_vars PROVE TypeOK'
  OBVIOUS
<1>1. CASE Next
  BY <1>1, HandlerType, DeleteType, CleanupType, OtherType DEF Next
<1>2. CASE UNCHANGED vars
  BY <1>2 DEF TypeOK, vars, handlerVars, deleteVars, cleanVars, historyVars, repairVars, diskVars
<1> QED
  BY <1>1, <1>2

-----------------------------------------------------------------------------
(* The start of the proxy has the store to itself. *)

LEMMA ServingOnly ==
  ASSUME TypeOK, Alone,
         (\E r \in Requests : Handler(r) \/ Delete(r)) \/ Cleanup
  PROVE  phase = "serving" /\ phase' = phase /\ stuck = {} /\ stuck' = stuck
<1> USE DEF repairVars
<1>1. ASSUME NEW r \in Requests, Handler(r)
      PROVE  phase = "serving" /\ phase' = phase /\ stuck' = stuck
  BY <1>1 DEF Alone, Handler, Begin, Forwarded, SaveNothing, SaveName, SaveDir, SaveDirFails, SaveCreate,
     SaveCreateFails, SaveWrite, SaveWriteFails, AfterSave, Insert, Copied, Finish
<1>2. ASSUME NEW r \in Requests, Delete(r)
      PROVE  phase = "serving" /\ phase' = phase /\ stuck' = stuck
  BY <1>2 DEF Alone, Delete, DeleteLookup, DeleteFile, DeleteRow
<1>3. ASSUME Cleanup
      PROVE  phase = "serving" /\ phase' = phase /\ stuck' = stuck
  BY <1>3 DEF Alone, Cleanup, CleanStart, CleanRows, CleanReadDir, CleanReadFails, CleanDate, CleanDir, CleanDone
<1> QED
  BY <1>1, <1>2, <1>3 DEF Alone

(* One turn of the repair: which row it looks at and what it does to it. *)
LEMMA RepairTurn ==
  ASSUME TypeOK, RepairOne
  PROVE  \E q \in stuck :
           /\ stuck' = stuck \ {q}
           /\ \/ \E f \in FilesOf(q, "response") :
                   f.whole /\ f.day \in Nat /\ Record(q, "repaired", f.day)
                           /\ missed' = missed
              \/ /\ rows' = rows /\ missed' = missed
                 /\ \A f \in FilesOf(q, "response") : ~ f.whole
              \/ rows' = rows /\ missed' = missed \cup {"repair"}
<1> DEFINE saved(q) == {f \in files : f.id = q /\ f.kind = "response" /\ f.whole}
<1>1. PICK q \in stuck :
        /\ stuck' = stuck \ {q}
        /\ \/ (\E f \in saved(q) : Record(q, "repaired", f.day)) /\ UNCHANGED missed
           \/ saved(q) = {} /\ UNCHANGED <<rows, missed>>
           \/ missed' = missed \cup {"repair"} /\ UNCHANGED rows
  BY DEF RepairOne
<1>2. \A f \in saved(q) : f \in FilesOf(q, "response") /\ f.whole /\ f.day \in Nat
  BY DEF FilesOf, TypeOK, File
<1>3. \A f \in FilesOf(q, "response") : f.whole => f \in saved(q)
  BY DEF FilesOf
<1>4. ASSUME saved(q) = {}
      PROVE  \A f \in FilesOf(q, "response") : ~ f.whole
  BY <1>3, <1>4
<1> HIDE DEF saved
<1> QED
  BY <1>1, <1>2, <1>4

LEMMA AloneStep ==
  ASSUME TypeOK, TypeOK', Alone, Next
  PROVE  Alone'
<1>1. CASE (\E r \in Requests : Handler(r) \/ Delete(r)) \/ Cleanup
  BY <1>1, ServingOnly DEF Alone
<1>2. CASE RepairQuery
  BY <1>2 DEF RepairQuery, Alone, StuckRows, handlerVars, deleteVars, cleanVars
<1>3. CASE RepairOne
  <2> PICK q \in stuck :
        /\ stuck' = stuck \ {q}
        /\ rows' = rows \/ \E d \in Nat : Record(q, "repaired", d)
    BY <1>3, RepairTurn
  <2>1. \A r \in Requests : r # q => rows'[r] = rows[r]
    BY RecordType DEF TypeOK
  <2>2. stuck' \subseteq StuckRows'
    BY <2>1 DEF Alone, StuckRows, TypeOK
  <2> QED
    BY <1>3, <2>2 DEF RepairOne, Alone, handlerVars, deleteVars, cleanVars
<1>4. CASE Serve
  BY <1>4 DEF Serve, Alone, StuckRows, handlerVars, deleteVars, cleanVars, repairVars
<1>5. CASE Boot
  BY <1>5 DEF Boot, Alone, StuckRows, handlerVars, deleteVars, cleanVars, repairVars
<1>6. CASE Crash
  BY <1>6 DEF Crash, Alone, TypeOK
<1>7. CASE Tick
  BY <1>7 DEF Tick, Alone, StuckRows, handlerVars, deleteVars, cleanVars, repairVars
<1> QED
  BY <1>1, <1>2, <1>3, <1>4, <1>5, <1>6, <1>7 DEF Next, Startup

-----------------------------------------------------------------------------
(* Directories. *)

(* A cutoff of the past is no later than today's, so that a day before it has
   expired by now. *)
LEMMA PastFacts ==
  ASSUME now \in Nat
  PROVE  /\ RetentionDays > 0 => Past(Cutoff)
         /\ \A c \in Int : RetentionDays > 0 /\ Past(c) => c <= Cutoff
         /\ \A c \in Int, d \in Nat : Past(c) /\ ~ Expired(d) => d >= c
BY CutoffFacts, TimeAssumption DEF Past, Cutoff, Expired

LEMMA Later ==
  \A t, u, p, c \in Int : t <= u /\ c <= t - p => c <= u - p
OBVIOUS

(* The clock leaves behind what was past. *)
LEMMA PastStays ==
  ASSUME now \in Nat, now' \in Nat, now' >= now, NEW c \in Int, Past(c)
  PROVE  c <= 0 \/ (RetentionDays > 0 /\ c <= now' - Retention)
<1>1. now \in Int /\ now' \in Int /\ now <= now' /\ Retention \in Int
  BY CutoffFacts
<1> QED
  BY <1>1, Later DEF Past

(* What the sweep relies on survives any step that makes no directory and
   leaves the cleanup alone. *)
LEMMA DirsFrame ==
  ASSUME TypeOK, DirsKept,
         UNCHANGED <<dirs, clean, cutoff, entries, cutoffDate, historyVars>>,
         now' \in Nat, now' >= now,
         \A f \in files' : f.day \in dirs,
         "sweep" \in missed => "sweep" \in missed'
  PROVE  DirsKept'
<1>1. /\ now \in Nat /\ cutoff \in Int /\ cutoffDate \in Int
      /\ listed \in Int /\ swept \in Int
  BY DEF TypeOK
<1>2. Past(cutoff) /\ Past(cutoffDate) /\ Past(listed) /\ Past(swept)
  BY DEF DirsKept
<1>3. Past(cutoff)' /\ Past(cutoffDate)' /\ Past(listed)' /\ Past(swept)'
  BY <1>1, <1>2, PastStays DEF Past, Retention, historyVars
<1> QED
  BY <1>3 DEF DirsKept, historyVars

(* A handler makes the directory it has named: of a day that has not expired,
   or late. *)
LEMMA SaveDirStep ==
  ASSUME TypeOK, DirsKept, InHand, NEW r \in Requests, SaveDir(r)
  PROVE  DirsKept'
<1> DEFINE day == path[r]
<1>1. day \in Nat /\ now \in Nat /\ listed \in Int /\ swept \in Int
  BY DEF SaveDir, InHand, TypeOK
<1>2. UNCHANGED <<now, files, clean, cutoff, entries, cutoffDate, listed, swept, missed>>
  BY DEF SaveDir, repairVars
<1>3. dirs' = dirs \cup {day} /\ late \subseteq late' /\ revived \subseteq revived'
  BY DEF SaveDir
<1>4. Past(cutoff) /\ Past(cutoffDate) /\ Past(listed) /\ Past(swept)
  BY DEF DirsKept
<1>5. day >= swept \/ day \in late'
  BY <1>1, <1>4, PastFacts DEF SaveDir
<1>6. clean \in {"listed", "sweep"} => day >= listed \/ day \in revived'
  BY <1>1, <1>4, PastFacts DEF SaveDir
<1>7. \A d \in dirs' : d >= swept' \/ d \in late'
  BY <1>2, <1>3, <1>5 DEF DirsKept
<1>8. clean \in {"listed", "sweep"} /\ "sweep" \notin missed =>
        \A d \in dirs' : d >= listed \/ d \in entries \/ d \in revived'
  BY <1>3, <1>6 DEF DirsKept
<1>9. \A f \in files' : f.day \in dirs'
  BY <1>2, <1>3 DEF DirsKept
<1>10. Past(cutoff)' /\ Past(cutoffDate)' /\ Past(listed)' /\ Past(swept)'
  BY <1>2, <1>4 DEF Past, Retention
<1> QED
  BY <1>2, <1>7, <1>8, <1>9, <1>10 DEF DirsKept

(* A pass of Cleanup: the cutoffs it takes are of the past, and it takes the
   one for the directories after it has read them. *)
LEMMA CleanupDirs ==
  ASSUME TypeOK, Alone, DirsKept, Cleanup
  PROVE  DirsKept'
<1> USE DEF historyVars, diskVars, repairVars
<1>0. /\ now \in Nat /\ Cutoff \in Int /\ listed \in Int /\ cutoffDate \in Int
      /\ \A f \in files : f.day \in dirs
  BY CutoffFacts DEF TypeOK, DirsKept
<1>1. CASE CleanStart
  <2>1. RetentionDays > 0 /\ cutoff' = Cutoff /\ clean' = "rows"
    BY <1>1 DEF CleanStart
  <2>2. Past(Cutoff)
    BY <1>0, <2>1, PastFacts
  <2> QED
    BY <1>1, <2>1, <2>2 DEF CleanStart, DirsKept, Past, Retention
<1>2. CASE CleanRows \/ CleanReadFails
  BY <1>2 DEF CleanRows, CleanReadFails, DirsKept, Past, Retention
<1>3. CASE CleanReadDir
  <2>1. Past(Cutoff)
    BY <1>0, <1>3, PastFacts DEF CleanReadDir, DirsKept
  <2> QED
    BY <1>3, <2>1 DEF CleanReadDir, DirsKept, Past, Retention
<1>4. CASE CleanDate
  <2>1. RetentionDays > 0 /\ Past(listed)
    BY <1>4 DEF CleanDate, DirsKept
  <2>2. Past(Cutoff) /\ listed <= Cutoff
    BY <1>0, <2>1, PastFacts
  <2> QED
    BY <1>4, <2>2 DEF CleanDate, DirsKept, Past, Retention
<1>5. CASE CleanDir
  <2>1. UNCHANGED <<now, clean, cutoff, cutoffDate, listed, swept, revived, late>>
        /\ clean = "sweep" /\ listed <= cutoffDate
    BY <1>5 DEF CleanDir, DirsKept
  <2>2. PICK d \in entries :
          /\ entries' = entries \ {d}
          /\ \/ /\ dirs' = dirs \ {d}
                /\ files' = {f \in files : f.day # d}
                /\ UNCHANGED missed
             \/ UNCHANGED <<dirs, files>> /\ missed' = missed \cup {"sweep"}
             \/ UNCHANGED <<dirs, files, missed>> /\ ~ d < cutoffDate
    BY <1>5 DEF CleanDir
  <2>3. (\A f \in files' : f.day \in dirs') /\ dirs' \subseteq dirs
    BY <1>0, <2>2
  <2>4. "sweep" \notin missed' =>
          \A e \in dirs' : e >= listed \/ e \in entries' \/ e \in revived
    <3>1. d \in Int /\ (~ d < cutoffDate => d >= listed)
      BY <1>0, <2>1 DEF TypeOK
    <3> QED
      BY <2>1, <2>2, <3>1 DEF DirsKept
  <2> QED
    BY <2>1, <2>3, <2>4 DEF DirsKept, Past, Retention
<1>6. CASE CleanDone
  <2>1. \A d \in dirs : d >= swept' \/ d \in late'
    BY <1>6 DEF CleanDone, DirsKept
  <2>2. Past(swept)'
    BY <1>6 DEF CleanDone, DirsKept, Past, Retention
  <2> QED
    BY <1>6, <2>1, <2>2 DEF CleanDone, DirsKept, Past, Retention
<1> QED
  BY <1>1, <1>2, <1>3, <1>4, <1>5, <1>6 DEF Cleanup

LEMMA DirsStep ==
  ASSUME TypeOK, TypeOK', Alone, InHand, DirsKept, Next
  PROVE  DirsKept'
<1> USE DEF handlerVars, deleteVars, cleanVars, repairVars, diskVars
<1>0. now \in Nat /\ \A f \in files : f.day \in dirs
  BY DEF TypeOK, DirsKept
<1>1. ASSUME NEW r \in Requests, Handler(r)
      PROVE  DirsKept'
  <2>1. CASE SaveDir(r)
    BY <2>1, SaveDirStep
  <2>2. CASE ~ SaveDir(r)
    <3>1. UNCHANGED <<now, dirs, clean, cutoff, entries, cutoffDate, historyVars, missed>>
      BY <1>1, <2>2 DEF Handler, Begin, Forwarded, SaveNothing, SaveName, SaveDirFails, SaveCreate,
         SaveCreateFails, SaveWrite, SaveWriteFails, AfterSave, Insert, Copied, Finish
    <3>2. \A f \in files' : f.day \in dirs
      <4>1. /\ Part(r, kind[r], path[r]).day = path[r]
            /\ Payload(r, kind[r], path[r]).day = path[r]
        BY DEF Part, Payload
      <4>2. CASE SaveCreate(r) \/ SaveWrite(r)
        BY <1>0, <4>1, <4>2 DEF SaveCreate, SaveWrite
      <4>3. CASE files' = files
        BY <1>0, <4>3
      <4> QED
        BY <1>1, <2>2, <4>2, <4>3 DEF Handler, Begin, Forwarded, SaveNothing, SaveName, SaveDirFails,
           SaveCreateFails, SaveWriteFails, Insert, Copied, Finish
    <3> QED
      BY <1>0, <3>1, <3>2, DirsFrame
  <2> QED
    BY <2>1, <2>2
<1>2. ASSUME NEW r \in Requests, Delete(r)
      PROVE  DirsKept'
  <2>1. /\ UNCHANGED <<now, dirs, clean, cutoff, entries, cutoffDate, historyVars, missed>>
        /\ files' \subseteq files
    BY <1>2 DEF Delete, DeleteLookup, DeleteFile, DeleteRow
  <2> QED
    BY <1>0, <2>1, DirsFrame
<1>3. CASE Cleanup
  BY <1>3, CleanupDirs
<1>4. CASE Startup
  <2>1. /\ UNCHANGED <<now, dirs, files, clean, cutoff, entries, cutoffDate, historyVars>>
        /\ "sweep" \in missed => "sweep" \in missed'
    BY <1>4 DEF Startup, RepairQuery, RepairOne, Serve, Boot
  <2> QED
    BY <1>0, <2>1, DirsFrame
<1>5. CASE Crash
  BY <1>5 DEF Crash, DirsKept, Past, Retention
<1>6. CASE Tick
  BY <1>0, <1>6, DirsFrame DEF Tick
<1> QED
  BY <1>1, <1>2, <1>3, <1>4, <1>5, <1>6 DEF Next

-----------------------------------------------------------------------------
(* Rows and files of a request and the step its handler is at. *)

(* A handler touches its own request only. *)
LEMMA HandlerLocal ==
  ASSUME TypeOK, NEW r \in Requests, Handler(r), NEW q \in Requests, q # r
  PROVE  /\ pc'[q] = pc[q] /\ kind'[q] = kind[q] /\ path'[q] = path[q] /\ rows'[q] = rows[q]
         /\ \A f : f.id = q => (f \in files' <=> f \in files)
<1> USE DEF TypeOK, handlerVars, diskVars, Goto
<1>1. /\ pc'[q] = pc[q] /\ kind'[q] = kind[q] /\ path'[q] = path[q] /\ rows'[q] = rows[q]
  BY DEF Handler, Begin, Forwarded, SaveNothing, SaveName, SaveDir, SaveDirFails, SaveCreate, SaveCreateFails,
     SaveWrite, SaveWriteFails, AfterSave, Insert, Record, Copied, Finish, Return
<1>2. \A f : f.id = q => (f \in files' <=> f \in files)
  <2>1. CASE SaveCreate(r) \/ SaveWrite(r)
    <3>1. Part(r, kind[r], path[r]).id = r /\ Payload(r, kind[r], path[r]).id = r
      BY DEF Part, Payload
    <3> QED
      BY <2>1, <3>1 DEF SaveCreate, SaveWrite
  <2>2. CASE files' = files
    BY <2>2
  <2> QED
    BY <2>1, <2>2 DEF Handler, Begin, Forwarded, SaveNothing, SaveName, SaveDir, SaveDirFails, SaveCreateFails,
       SaveWriteFails, Insert, Copied, Finish
<1> QED
  BY <1>1, <1>2

(* The other actors take rows and files away, and finish a row only in the
   repair. *)
LEMMA OthersTake ==
  ASSUME TypeOK, Alone,
         (\E r \in Requests : Delete(r)) \/ Cleanup \/ Startup \/ Crash \/ Tick
  PROVE  /\ files' \subseteq files
         /\ \A q \in Requests :
              /\ rows'[q] \in {rows[q], Absent}
                 \/ (rows[q].how = "open" /\ rows'[q].how = "repaired" /\ pc[q] \in {"idle", "over"})
              /\ \/ pc'[q] = pc[q] /\ kind'[q] = kind[q] /\ path'[q] = path[q]
                 \/ /\ kind'[q] = "request"
                    /\ \/ pc'[q] = "idle" /\ pc[q] = "idle"
                       \/ pc'[q] = "over"
<1> USE DEF handlerVars, diskVars
<1>1. ASSUME NEW r \in Requests, Delete(r)
      PROVE  /\ files' \subseteq files
             /\ \A q \in Requests : rows'[q] \in {rows[q], Absent}
             /\ UNCHANGED <<pc, kind, path>>
  BY <1>1 DEF TypeOK, Delete, DeleteLookup, DeleteFile, DeleteRow
<1>2. ASSUME Cleanup
      PROVE  /\ files' \subseteq files
             /\ \A q \in Requests : rows'[q] \in {rows[q], Absent}
             /\ UNCHANGED <<pc, kind, path>>
  BY <1>2 DEF TypeOK, Cleanup, CleanStart, CleanRows, CleanReadDir, CleanReadFails, CleanDate, CleanDir, CleanDone
<1>3. CASE RepairOne
  <2> PICK q \in stuck : rows' = rows \/ \E d \in Nat : Record(q, "repaired", d)
    BY <1>3, RepairTurn
  <2>1. rows[q].how = "open" /\ pc[q] \in {"idle", "over"}
    BY DEF Alone, StuckRows
  <2>2. \A r \in Requests : rows'[r] = rows[r] \/ (r = q /\ rows'[r].how = "repaired")
    <3>1. CASE rows' = rows
      BY <3>1
    <3>2. CASE \E d \in Nat : Record(q, "repaired", d)
      BY <3>2, RecordType DEF TypeOK
    <3> QED
      BY <3>1, <3>2
  <2>3. UNCHANGED <<pc, kind, path, files>>
    BY <1>3 DEF RepairOne
  <2> QED
    BY <2>1, <2>2, <2>3
<1>4. CASE RepairQuery \/ Serve \/ Boot \/ Tick
  BY <1>4 DEF RepairQuery, Serve, Boot, Tick
<1>5. CASE Crash
  BY <1>5 DEF Crash, TypeOK
<1> QED
  BY <1>1, <1>2, <1>3, <1>4, <1>5 DEF Startup

LEMMA RowAwaitsStep ==
  ASSUME TypeOK, Alone, RowAwaits, FilesAwait, Next
  PROVE  RowAwaits'
<1>1. ASSUME NEW r \in Requests, Handler(r)
      PROVE  RowAwaits'
  <2>1. ASSUME NEW q \in Requests
        PROVE  /\ ~ Idle(q)' => rows'[q].how \in {"absent", "open"}
               /\ pc'[q] \in {"idle", "forward"} \/ (kind'[q] = "request" /\ ~ Idle(q)')
                    => rows'[q].how = "absent"
    <3>1. CASE q # r
      BY <1>1, <3>1, HandlerLocal DEF RowAwaits, Idle
    <3>2. CASE q = r
      <4> USE DEF TypeOK, RowAwaits, Idle, Goto
      <4>1. CASE Begin(r) \/ Forwarded(r) \/ SaveName(r) \/ SaveDir(r) \/ SaveCreate(r)
        BY <3>2, <4>1 DEF Begin, Forwarded, SaveName, SaveDir, SaveCreate
      <4>2. CASE \/ SaveNothing(r) \/ SaveDirFails(r) \/ SaveCreateFails(r)
                \/ SaveWrite(r) \/ SaveWriteFails(r)
        BY <3>2, <4>2 DEF SaveNothing, SaveDirFails, SaveCreateFails, SaveWrite, SaveWriteFails, AfterSave
      <4>3. CASE Insert(r)
        <5>1. rows[r].how = "absent" /\ rows'[r].how \in {"open", rows[r].how}
          BY <4>3 DEF Insert, FilesAwait
        <5> QED
          BY <3>2, <4>3, <5>1 DEF Insert
      <4>4. CASE Copied(r)
        BY <3>2, <4>4 DEF Copied, FilesAwait
      <4>5. CASE Finish(r)
        BY <3>2, <4>5 DEF Finish, Return
      <4> QED
        BY <1>1, <4>1, <4>2, <4>3, <4>4, <4>5 DEF Handler
    <3> QED
      BY <3>1, <3>2
  <2> QED
    BY <2>1 DEF RowAwaits
<1>2. CASE (\E r \in Requests : Delete(r)) \/ Cleanup \/ Startup \/ Crash \/ Tick
  <2>1. ASSUME NEW q \in Requests
        PROVE  /\ ~ Idle(q)' => rows'[q].how \in {"absent", "open"}
               /\ pc'[q] \in {"idle", "forward"} \/ (kind'[q] = "request" /\ ~ Idle(q)')
                    => rows'[q].how = "absent"
    <3>1. /\ rows'[q] \in {rows[q], Absent}
             \/ (rows[q].how = "open" /\ rows'[q].how = "repaired" /\ pc[q] \in {"idle", "over"})
          /\ \/ pc'[q] = pc[q] /\ kind'[q] = kind[q]
             \/ pc'[q] = "idle" /\ pc[q] = "idle"
             \/ pc'[q] = "over"
      BY <1>2, OthersTake
    <3>2. Absent.how = "absent"
      BY DEF Absent
    <3> QED
      BY <3>1, <3>2 DEF RowAwaits, Idle
  <2> QED
    BY <2>1 DEF RowAwaits
<1> QED
  BY <1>1, <1>2 DEF Next

(* The part of FilesAwait that is about request q. *)
AwaitOf(q) ==
  /\ pc[q] \in {"idle", "forward", "save", "mkdir", "create"} => FilesOf(q, kind[q]) = {}
  /\ pc[q] = "write" => FilesOf(q, kind[q]) \subseteq {Part(q, kind[q], path[q])}
  /\ kind[q] = "request" /\ pc[q] \notin {"done", "over"} => FilesOf(q, "response") = {}
  /\ pc[q] \in {"idle", "forward", "insert"} => kind[q] = "request"
  /\ pc[q] \in {"copy", "finish"} => kind[q] = "response"
  /\ pc[q] = "copy" => FilesOf(q, "response") = {}

LEMMA AwaitAll == FilesAwait <=> \A q \in Requests : AwaitOf(q)
BY DEF FilesAwait, AwaitOf

LEMMA HandlerAwait ==
  ASSUME TypeOK, FilesAwait, NEW r \in Requests, Handler(r)
  PROVE  AwaitOf(r)'
<1> USE DEF TypeOK, AwaitOf, Goto
<1>0. AwaitOf(r) /\ kind[r] \in Kinds
  BY AwaitAll
<1>1. CASE Begin(r) \/ Forwarded(r) \/ SaveName(r) \/ SaveDir(r) \/ Copied(r)
  BY <1>0, <1>1 DEF Begin, Forwarded, SaveName, SaveDir, Copied, FilesOf, handlerVars, diskVars
<1>2. CASE SaveNothing(r) \/ SaveDirFails(r) \/ SaveCreateFails(r) \/ SaveWriteFails(r)
  BY <1>0, <1>2 DEF SaveNothing, SaveDirFails, SaveCreateFails, SaveWriteFails, AfterSave, FilesOf, diskVars
<1>3. CASE SaveCreate(r)
  <2>1. Part(r, kind[r], path[r]).kind = kind[r]
    BY DEF Part
  <2>2. FilesOf(r, kind[r])' \subseteq {Part(r, kind[r], path[r])}
    BY <1>0, <1>3 DEF SaveCreate, FilesOf
  <2>3. kind[r] = "request" => FilesOf(r, "response")' = {}
    BY <1>0, <1>3, <2>1 DEF SaveCreate, FilesOf
  <2>4. pc'[r] = "write" /\ kind' = kind /\ path' = path
    BY <1>3 DEF SaveCreate
  <2> QED
    BY <2>2, <2>3, <2>4 DEF FilesOf
<1>4. CASE SaveWrite(r)
  <2>1. Payload(r, kind[r], path[r]).kind = kind[r]
    BY DEF Payload
  <2>2. kind[r] = "request" => FilesOf(r, "response")' = {}
    BY <1>0, <1>4, <2>1 DEF SaveWrite, FilesOf
  <2> QED
    BY <1>0, <1>4, <2>2 DEF SaveWrite, AfterSave
<1>5. CASE Insert(r)
  BY <1>0, <1>5 DEF Insert, FilesOf, diskVars
<1>6. CASE Finish(r)
  BY <1>6 DEF Finish, Return
<1> QED
  BY <1>1, <1>2, <1>3, <1>4, <1>5, <1>6 DEF Handler

LEMMA FilesAwaitStep ==
  ASSUME TypeOK, Alone, FilesAwait, Next
  PROVE  FilesAwait'
<1>1. ASSUME NEW r \in Requests, Handler(r), NEW q \in Requests
      PROVE  AwaitOf(q)'
  <2>1. CASE q # r
    <3>1. \A k : FilesOf(q, k)' = FilesOf(q, k)
      BY <1>1, <2>1, HandlerLocal DEF FilesOf
    <3>2. pc'[q] = pc[q] /\ kind'[q] = kind[q] /\ path'[q] = path[q]
      BY <1>1, <2>1, HandlerLocal
    <3>3. AwaitOf(q)
      BY AwaitAll
    <3> QED
      BY <3>1, <3>2, <3>3 DEF AwaitOf, FilesOf, Part
  <2>2. CASE q = r
    BY <1>1, <2>2, HandlerAwait
  <2> QED
    BY <2>1, <2>2
<1>2. ASSUME (\E r \in Requests : Delete(r)) \/ Cleanup \/ Startup \/ Crash \/ Tick,
             NEW q \in Requests
      PROVE  AwaitOf(q)'
  <2>1. /\ files' \subseteq files
        /\ \/ pc'[q] = pc[q] /\ kind'[q] = kind[q] /\ path'[q] = path[q]
           \/ /\ kind'[q] = "request"
              /\ \/ pc'[q] = "idle" /\ pc[q] = "idle"
                 \/ pc'[q] = "over"
    BY <1>2, OthersTake
  <2>2. \A k : FilesOf(q, k)' \subseteq FilesOf(q, k)
    BY <2>1 DEF FilesOf
  <2>3. AwaitOf(q)
    BY AwaitAll
  <2>4. CASE pc'[q] = pc[q] /\ kind'[q] = kind[q] /\ path'[q] = path[q]
    BY <2>1, <2>3, <2>4 DEF AwaitOf, FilesOf, Part
  <2>5. CASE kind'[q] = "request" /\ pc'[q] = "idle" /\ pc[q] = "idle"
    BY <2>1, <2>3, <2>5 DEF AwaitOf, FilesOf
  <2>6. CASE kind'[q] = "request" /\ pc'[q] = "over"
    BY <2>6 DEF AwaitOf
  <2> QED
    BY <2>1, <2>4, <2>5, <2>6
<1>3. \A q \in Requests : AwaitOf(q)'
  BY <1>1, <1>2 DEF Next
<1> QED
  BY <1>3 DEF FilesAwait, AwaitOf

LEMMA OneFileStep ==
  ASSUME TypeOK, Alone, FilesAwait, OneFile, Next
  PROVE  OneFile'
<1>1. ASSUME NEW r \in Requests, Handler(r)
      PROVE  OneFile'
  <2>1. CASE SaveCreate(r)
    <3>1. FilesOf(r, kind[r]) = {}
      BY <2>1 DEF SaveCreate, FilesAwait
    <3>2. Part(r, kind[r], path[r]).id = r /\ Part(r, kind[r], path[r]).kind = kind[r]
      BY DEF Part
    <3> QED
      BY <2>1, <3>1, <3>2 DEF SaveCreate, OneFile, FilesOf
  <2>2. CASE SaveWrite(r)
    <3> DEFINE part == Part(r, kind[r], path[r])
               payload == Payload(r, kind[r], path[r])
    <3>1. \A f \in files : f.id = r /\ f.kind = kind[r] => f = part
      BY <2>2 DEF SaveWrite, FilesAwait, FilesOf
    <3>2. payload.id = r /\ payload.kind = kind[r]
      BY DEF Payload
    <3>3. files' = files \/ files' = (files \ {part}) \cup {payload}
      BY <2>2 DEF SaveWrite
    <3> QED
      BY <3>1, <3>2, <3>3 DEF OneFile
  <2>3. CASE files' = files
    BY <2>3 DEF OneFile
  <2> QED
    BY <1>1, <2>1, <2>2, <2>3 DEF Handler, Begin, Forwarded, SaveNothing, SaveName, SaveDir, SaveDirFails, SaveCreateFails,
       SaveWriteFails, Insert, Copied, Finish, diskVars
<1>2. CASE (\E r \in Requests : Delete(r)) \/ Cleanup \/ Startup \/ Crash \/ Tick
  BY <1>2, OthersTake DEF OneFile
<1> QED
  BY <1>1, <1>2 DEF Next

-----------------------------------------------------------------------------
(* Payloads. *)

(* What excuses a file's absence never ceases to. *)
LEMMA ExcuseStays ==
  ASSUME TypeOK, DirsKept, Next
  PROVE  /\ \A q \in Requests : del[q] # "no" => del'[q] # "no"
         /\ \A p \in Paths : p < cutoffDate => p = NoPath \/ p < cutoffDate'
<1> USE DEF handlerVars, deleteVars, cleanVars, repairVars
<1>1. \A q \in Requests : del[q] # "no" => del'[q] # "no"
  <2>1. ASSUME NEW r \in Requests, Delete(r)
        PROVE  \A q \in Requests : del[q] # "no" => del'[q] # "no"
    BY <2>1 DEF TypeOK, Delete, DeleteLookup, DeleteFile, DeleteRow
  <2>2. CASE Crash
    BY <2>2 DEF Crash, TypeOK
  <2>3. CASE (\E r \in Requests : Handler(r)) \/ Cleanup \/ Startup \/ Tick
    <3>1. del' = del
      BY <2>3 DEF Handler, Begin, Forwarded, SaveNothing, SaveName, SaveDir, SaveDirFails, SaveCreate, SaveCreateFails,
         SaveWrite, SaveWriteFails, AfterSave, Insert, Copied, Finish, Cleanup, CleanStart, CleanRows,
         CleanReadDir, CleanReadFails, CleanDate, CleanDir, CleanDone, Startup, RepairQuery, RepairOne,
         Serve, Boot, Tick
    <3> QED
      BY <3>1
  <2> QED
    BY <2>1, <2>2, <2>3 DEF Next
<1>2. \A p \in Paths : p < cutoffDate => p = NoPath \/ p < cutoffDate'
  <2>1. CASE CleanDate
    <3>1. RetentionDays > 0 /\ Past(cutoffDate)
      BY <2>1 DEF CleanDate, DirsKept
    <3>2. cutoffDate' = Cutoff /\ now \in Nat /\ cutoffDate \in Int /\ Cutoff \in Int
      BY <2>1, CutoffFacts DEF CleanDate, TypeOK
    <3>3. cutoffDate <= Cutoff
      BY <3>1, <3>2, PastFacts
    <3> QED
      BY <3>2, <3>3
  <2>2. CASE cutoffDate' = cutoffDate
    BY <2>2
  <2>3. CleanDate \/ cutoffDate' = cutoffDate
    BY DEF Next, Handler, Begin, Forwarded, SaveNothing, SaveName, SaveDir, SaveDirFails, SaveCreate,
       SaveCreateFails, SaveWrite, SaveWriteFails, AfterSave, Insert, Copied, Finish, Delete,
       DeleteLookup, DeleteFile, DeleteRow, Cleanup, CleanStart, CleanRows, CleanReadDir,
       CleanReadFails, CleanDir, CleanDone, Startup, RepairQuery, RepairOne, Serve, Boot, Crash, Tick
  <2> QED
    BY <2>1, <2>2, <2>3
<1> QED
  BY <1>1, <1>2

(* A file goes when its record is deleted, when its day is swept, or when its
   handler replaces it by the complete one. *)
LEMMA FileGoes ==
  ASSUME TypeOK, DirsKept, Next, NEW f \in files, f \notin files'
  PROVE  \/ del'[f.id] # "no"
         \/ f.day < cutoffDate'
         \/ ~ f.whole /\ SaveWrite(f.id)
<1> USE DEF diskVars
<1>0. f.id \in Requests /\ f \in File
  BY DEF TypeOK, File
<1>1. ASSUME NEW r \in Requests, Handler(r)
      PROVE  ~ f.whole /\ SaveWrite(f.id)
  <2>1. CASE SaveCreate(r)
    BY <2>1 DEF SaveCreate
  <2>2. CASE SaveWrite(r)
    <3>1. f = Part(r, kind[r], path[r])
      BY <2>2 DEF SaveWrite
    <3>2. f.id = r /\ f.whole = FALSE
      BY <3>1 DEF Part
    <3> QED
      BY <2>2, <3>2
  <2>3. CASE files' = files
    BY <2>3
  <2> QED
    BY <1>1, <2>1, <2>2, <2>3 DEF Handler, Begin, Forwarded, SaveNothing, SaveName, SaveDir, SaveDirFails, SaveCreateFails,
       SaveWriteFails, Insert, Copied, Finish
<1>2. ASSUME NEW r \in Requests, Delete(r)
      PROVE  del'[f.id] # "no"
  <2>1. DeleteFile(r) /\ f.id = r
    BY <1>2 DEF Delete, DeleteLookup, DeleteFile, DeleteRow
  <2>2. del[r] # "no"
    BY <2>1 DEF DeleteFile
  <2> QED
    BY <2>1, <2>2, ExcuseStays
<1>3. ASSUME Cleanup
      PROVE  f.day < cutoffDate'
  <2>1. CleanDir
    BY <1>3 DEF Cleanup, CleanStart, CleanRows, CleanReadDir, CleanReadFails, CleanDate, CleanDone
  <2> QED
    BY <2>1 DEF CleanDir
<1>4. ~ (Startup \/ Crash \/ Tick)
  BY DEF Startup, RepairQuery, RepairOne, Serve, Boot, Crash, Tick
<1> QED
  BY <1>1, <1>2, <1>3, <1>4 DEF Next

LEMMA GoodStays ==
  ASSUME TypeOK, DirsKept, Next, NEW r \in Requests, NEW k \in Kinds, NEW p \in Paths,
         Good(r, k, p)
  PROVE  p = NoPath \/ Payload(r, k, p) \in files' \/ del'[r] # "no" \/ p < cutoffDate'
<1> DEFINE f == Payload(r, k, p)
<1>1. f.id = r /\ f.day = p /\ f.whole = TRUE
  BY DEF Payload
<1>2. CASE f \in files
  BY <1>1, <1>2, FileGoes
<1>3. CASE p = NoPath \/ del[r] # "no" \/ p < cutoffDate
  BY <1>3, ExcuseStays
<1> QED
  BY <1>2, <1>3 DEF Good

(* The same of the file a handler is writing. *)
LEMMA PartStays ==
  ASSUME TypeOK, DirsKept, Next, NEW r \in Requests, NEW k \in Kinds, NEW p \in Paths,
         p # NoPath, ~ SaveWrite(r),
         Part(r, k, p) \in files \/ del[r] # "no" \/ p < cutoffDate
  PROVE  Part(r, k, p) \in files' \/ del'[r] # "no" \/ p < cutoffDate'
<1> DEFINE f == Part(r, k, p)
<1>1. f.id = r /\ f.day = p
  BY DEF Part
<1>2. CASE f \in files
  BY <1>1, <1>2, FileGoes
<1>3. CASE del[r] # "no" \/ p < cutoffDate
  BY <1>3, ExcuseStays
<1> QED
  BY <1>2, <1>3

(* A path that a step writes into a row was good before. *)
LEMMA NewPaths ==
  ASSUME TypeOK, Alone, FilesAwait, PayloadKept, InHand, Next,
         NEW q \in Requests, NEW k \in Kinds
  PROVE  \E p \in Paths : /\ p = IF k = "request" THEN rows'[q].request ELSE rows'[q].response
                          /\ Good(q, k, p)
<1> DEFINE new == IF k = "request" THEN rows'[q].request ELSE rows'[q].response
<1> SUFFICES new \in Paths /\ Good(q, k, new)
  OBVIOUS
<1>0. rows[q] \in Row /\ rows[q].request \in Paths /\ rows[q].response \in Paths
  BY DEF TypeOK, Row
<1>1. CASE rows'[q] = rows[q]
  BY <1>0, <1>1 DEF PayloadKept, PathOf
<1>2. CASE rows'[q] = Absent
  BY <1>2 DEF Absent, Good
<1>3. CASE Insert(q) /\ rows'[q] # rows[q]
  <2>1. kind[q] = "request" /\ Good(q, "request", path[q]) /\ path[q] \in Paths
    BY <1>3 DEF Insert, FilesAwait, InHand, TypeOK
  <2>2. rows'[q].request = path[q] /\ rows'[q].response = NoPath
    BY <1>3 DEF Insert, TypeOK
  <2> QED
    BY <2>1, <2>2 DEF Good
<1>4. CASE Finish(q) /\ rows'[q] # rows[q]
  <2>1. kind[q] = "response" /\ Good(q, "response", path[q]) /\ path[q] \in Paths
    BY <1>4 DEF Finish, FilesAwait, InHand, TypeOK
  <2>2. Record(q, IF ok[q] THEN "finished" ELSE "failed", path[q])
    BY <1>4 DEF Finish
  <2>3. rows'[q].request = rows[q].request /\ rows'[q].response = path[q]
    BY <2>1, <2>2, RecordType
  <2> QED
    BY <1>0, <2>1, <2>3 DEF PayloadKept, PathOf
<1>5. CASE RepairOne /\ rows'[q] # rows[q]
  <2> PICK f \in FilesOf(q, "response") : f.whole /\ f.day \in Nat /\ Record(q, "repaired", f.day)
    <3> PICK r \in stuck :
          rows' = rows \/ \E f \in FilesOf(r, "response") :
                            f.whole /\ f.day \in Nat /\ Record(r, "repaired", f.day)
      BY <1>5, RepairTurn
    <3> PICK f \in FilesOf(r, "response") : f.whole /\ f.day \in Nat /\ Record(r, "repaired", f.day)
      BY <1>5
    <3>1. r \in Requests
      BY DEF TypeOK
    <3>2. q = r
      BY <1>5, <3>1, RecordType
    <3> QED
      BY <3>2
  <2>1. rows'[q].request = rows[q].request /\ rows'[q].response = f.day
    BY RecordType
  <2>2. f = Payload(q, "response", f.day) /\ f \in files
    BY DEF FilesOf, Payload, TypeOK, File
  <2> QED
    BY <1>0, <2>1, <2>2 DEF PayloadKept, PathOf, Good
<1>6. CASE \E r \in Requests : Handler(r)
  <2> PICK r \in Requests : Handler(r)
    BY <1>6
  <2>1. CASE q # r
    BY <1>1, <2>1, HandlerLocal
  <2>2. CASE Insert(r) \/ Finish(r)
    BY <1>1, <1>3, <1>4, <2>1, <2>2
  <2>3. CASE rows' = rows
    BY <1>1, <2>3
  <2> QED
    BY <2>2, <2>3 DEF Handler, Begin, Forwarded, SaveNothing, SaveName, SaveDir, SaveDirFails, SaveCreate,
       SaveCreateFails, SaveWrite, SaveWriteFails, AfterSave, Copied
<1>7. CASE RepairOne
  BY <1>1, <1>5, <1>7
<1>8. CASE (\E r \in Requests : Delete(r)) \/ Cleanup
  BY <1>1, <1>2, <1>8 DEF TypeOK, Delete, DeleteLookup, DeleteFile, DeleteRow, Cleanup,
     CleanStart, CleanRows, CleanReadDir, CleanReadFails, CleanDate, CleanDir, CleanDone
<1>9. CASE RepairQuery \/ Serve \/ Boot \/ Crash \/ Tick
  BY <1>1, <1>9 DEF RepairQuery, Serve, Boot, Crash, Tick
<1> QED
  BY <1>6, <1>7, <1>8, <1>9 DEF Next, Startup

LEMMA PayloadKeptStep ==
  ASSUME TypeOK, Alone, FilesAwait, DirsKept, PayloadKept, InHand, Next
  PROVE  PayloadKept'
<1> SUFFICES ASSUME NEW q \in Requests, NEW k \in Kinds
             PROVE  Good(q, k, PathOf(q, k))'
  BY DEF PayloadKept
<1> PICK p \in Paths : /\ p = IF k = "request" THEN rows'[q].request ELSE rows'[q].response
                       /\ Good(q, k, p)
  BY NewPaths
<1>1. p = NoPath \/ Payload(q, k, p) \in files' \/ del'[q] # "no" \/ p < cutoffDate'
  BY GoodStays
<1> QED
  BY <1>1 DEF Good, PathOf, Payload

(* The part of InHand that is about request q. *)
HandOf(q) ==
  /\ pc[q] \in {"mkdir", "create", "write"} => path[q] # NoPath
  /\ pc[q] = "write" => \/ Part(q, kind[q], path[q]) \in files
                        \/ del[q] # "no"
                        \/ path[q] < cutoffDate
  /\ pc[q] \in {"insert", "finish"} => Good(q, kind[q], path[q])

(* It survives as long as the handler stands still. *)
LEMMA HandStays ==
  ASSUME TypeOK, DirsKept, InHand, Next, NEW q \in Requests,
         pc'[q] = pc[q], kind'[q] = kind[q], path'[q] = path[q]
  PROVE  HandOf(q)'
<1>1. HandOf(q) /\ kind[q] \in Kinds /\ path[q] \in Paths
  BY DEF InHand, HandOf, TypeOK
<1>2. pc[q] = "write" => ~ SaveWrite(q)
  BY DEF SaveWrite, AfterSave, Goto, TypeOK
<1>3. pc[q] = "write" => \/ Part(q, kind[q], path[q]) \in files'
                         \/ del'[q] # "no"
                         \/ path[q] < cutoffDate'
  BY <1>1, <1>2, PartStays DEF HandOf
<1>4. pc[q] \in {"insert", "finish"} =>
        \/ path[q] = NoPath
        \/ Payload(q, kind[q], path[q]) \in files'
        \/ del'[q] # "no"
        \/ path[q] < cutoffDate'
  BY <1>1, GoodStays DEF HandOf
<1> QED
  BY <1>1, <1>3, <1>4 DEF HandOf, Good, Payload, Part

LEMMA HandlerHand ==
  ASSUME TypeOK, DirsKept, InHand, Next, NEW r \in Requests, Handler(r)
  PROVE  HandOf(r)'
<1> USE DEF TypeOK, Goto
<1>1. CASE Begin(r) \/ Forwarded(r) \/ Copied(r) \/ Finish(r)
  BY <1>1 DEF Begin, Forwarded, Copied, Finish, Return, HandOf
<1>2. CASE SaveNothing(r) \/ SaveDirFails(r) \/ SaveCreateFails(r) \/ SaveWriteFails(r)
  BY <1>2 DEF SaveNothing, SaveDirFails, SaveCreateFails, SaveWriteFails, AfterSave, HandOf, Good
<1>3. CASE SaveName(r) \/ SaveDir(r)
  BY <1>3, MidnightFacts DEF SaveName, SaveDir, InHand, HandOf
<1>4. CASE SaveCreate(r)
  <2>1. path' = path /\ kind' = kind /\ pc'[r] = "write" /\ path[r] # NoPath
    BY <1>4 DEF SaveCreate, InHand
  <2>2. Part(r, kind[r], path[r]) \in files'
    BY <1>4 DEF SaveCreate
  <2> QED
    BY <2>1, <2>2 DEF HandOf, Part
<1>5. CASE SaveWrite(r)
  <2>1. kind' = kind /\ path'[r] = path[r] /\ pc'[r] \in {"insert", "finish"} /\ path[r] \in Paths
    BY <1>5 DEF SaveWrite, AfterSave
  <2>2. \/ Part(r, kind[r], path[r]) \in files
        \/ del[r] # "no"
        \/ path[r] < cutoffDate
    BY <1>5 DEF SaveWrite, InHand
  <2>3. \/ Payload(r, kind[r], path[r]) \in files'
        \/ del'[r] # "no"
        \/ path[r] = NoPath \/ path[r] < cutoffDate'
    BY <1>5, <2>1, <2>2, ExcuseStays DEF SaveWrite
  <2> QED
    BY <2>1, <2>3 DEF HandOf, Good, Payload
<1>6. CASE Insert(r)
  BY <1>6 DEF Insert, HandOf, Good
<1> QED
  BY <1>1, <1>2, <1>3, <1>4, <1>5, <1>6 DEF Handler

LEMMA InHandStep ==
  ASSUME TypeOK, Alone, DirsKept, InHand, Next
  PROVE  InHand'
<1>1. ASSUME NEW r \in Requests, Handler(r), NEW q \in Requests
      PROVE  HandOf(q)'
  <2>1. CASE q # r
    BY <1>1, <2>1, HandlerLocal, HandStays
  <2>2. CASE q = r
    BY <1>1, <2>2, HandlerHand
  <2> QED
    BY <2>1, <2>2
<1>2. ASSUME (\E r \in Requests : Delete(r)) \/ Cleanup \/ Startup \/ Crash \/ Tick,
             NEW q \in Requests
      PROVE  HandOf(q)'
  <2>1. CASE pc'[q] = pc[q] /\ kind'[q] = kind[q] /\ path'[q] = path[q]
    BY <2>1, HandStays
  <2>2. CASE pc'[q] \in {"idle", "over"}
    BY <2>2 DEF HandOf
  <2> QED
    BY <1>2, <2>1, <2>2, OthersTake
<1>3. \A q \in Requests : HandOf(q)'
  BY <1>1, <1>2 DEF Next
<1> QED
  BY <1>3 DEF InHand, HandOf

-----------------------------------------------------------------------------
(* The repair. *)

(* What is settled of request q once the repair has passed it. *)
RepairedOf(q) ==
  q \in StuckRows \ stuck /\ pc[q] = "over" => \A f \in FilesOf(q, "response") : ~ f.whole

(* A step that adds nothing to request q adds nothing to be repaired. *)
LEMMA RepairedFrame ==
  ASSUME TypeOK, NEW q \in Requests, RepairedOf(q), stuck' = stuck,
         rows'[q] \in {rows[q], Absent}, pc'[q] = "over" => pc[q] = "over",
         \A f : f.id = q => (f \in files' => f \in files)
  PROVE  RepairedOf(q)'
<1>1. rows[q].how = "open" /\ rows[q].response = NoPath => q \in StuckRows
  BY DEF StuckRows
<1>2. q \in StuckRows' => rows'[q].how = "open" /\ rows'[q].response = NoPath
  BY DEF StuckRows
<1>3. Absent.how = "absent"
  BY DEF Absent
<1>4. FilesOf(q, "response")' \subseteq FilesOf(q, "response")
  BY DEF FilesOf
<1>5. q \in StuckRows' => q \in StuckRows
  BY <1>1, <1>2, <1>3
<1> QED
  BY <1>4, <1>5 DEF RepairedOf

LEMMA RepairedStep ==
  ASSUME TypeOK, Alone, Repaired, Next
  PROVE  Repaired'
<1> SUFFICES ASSUME phase' \in {"repairing", "serving"}, "repair" \notin missed',
                    NEW q \in Requests
             PROVE  RepairedOf(q)'
  BY DEF Repaired, RepairedOf, StuckRows
<1> USE DEF handlerVars, deleteVars, cleanVars, repairVars, diskVars
<1>1. ASSUME phase \in {"repairing", "serving"}, "repair" \notin missed
      PROVE  RepairedOf(q)
  BY <1>1 DEF Repaired, RepairedOf
<1>2. ASSUME NEW r \in Requests, Handler(r)
      PROVE  RepairedOf(q)'
  <2>0. missed' = missed
    BY <1>2 DEF Handler, Begin, Forwarded, SaveNothing, SaveName, SaveDir, SaveDirFails, SaveCreate, SaveCreateFails,
       SaveWrite, SaveWriteFails, AfterSave, Insert, Copied, Finish
  <2>1. phase = "serving" /\ stuck' = stuck
    BY <1>2, ServingOnly
  <2>2. CASE q # r
    BY <1>1, <1>2, <2>0, <2>1, <2>2, HandlerLocal, RepairedFrame
  <2>3. CASE q = r
    <3>1. pc'[r] # "over"
      BY <1>2 DEF Handler, Begin, Forwarded, SaveNothing, SaveName, SaveDir, SaveDirFails, SaveCreate, SaveCreateFails,
         SaveWrite, SaveWriteFails, AfterSave, Insert, Copied, Finish, Return, Goto, TypeOK
    <3> QED
      BY <2>3, <3>1 DEF RepairedOf
  <2> QED
    BY <2>2, <2>3
<1>3. CASE (\E r \in Requests : Delete(r)) \/ Cleanup
  <2>1. phase = "serving" /\ stuck' = stuck
    BY <1>3, ServingOnly
  <2>2. files' \subseteq files /\ rows'[q] \in {rows[q], Absent} /\ pc' = pc
    BY <1>3 DEF TypeOK, Delete, DeleteLookup, DeleteFile, DeleteRow, Cleanup, CleanStart, CleanRows,
       CleanReadDir, CleanReadFails, CleanDate, CleanDir, CleanDone
  <2>3. "repair" \notin missed
    BY <1>3 DEF Delete, DeleteLookup, DeleteFile, DeleteRow, Cleanup, CleanStart, CleanRows,
       CleanReadDir, CleanReadFails, CleanDate, CleanDir, CleanDone
  <2> QED
    BY <1>1, <2>1, <2>2, <2>3, RepairedFrame
<1>4. CASE RepairQuery
  BY <1>4 DEF RepairQuery, RepairedOf, StuckRows
<1>5. CASE RepairOne
  <2>0. phase = "repairing" /\ UNCHANGED <<pc, files>>
    BY <1>5 DEF Alone, RepairOne
  <2> PICK r \in stuck :
        /\ stuck' = stuck \ {r}
        /\ \/ \E f \in FilesOf(r, "response") :
                f.whole /\ f.day \in Nat /\ Record(r, "repaired", f.day)
                        /\ missed' = missed
           \/ /\ rows' = rows /\ missed' = missed
              /\ \A f \in FilesOf(r, "response") : ~ f.whole
           \/ rows' = rows /\ missed' = missed \cup {"repair"}
    BY <1>5, RepairTurn
  <2>1. missed' = missed /\ r \in Requests
    BY DEF TypeOK
  <2>2. RepairedOf(q)
    BY <1>1, <2>0, <2>1
  <2>3. rows'[q] = rows[q] \/ (q = r /\ rows'[q].how = "repaired")
    BY <2>1, RecordType
  <2>4. CASE q = r
    <3>1. \/ rows'[q].how = "repaired"
          \/ \A f \in FilesOf(q, "response") : ~ f.whole
      BY <2>1, <2>4, RecordType
    <3> QED
      BY <2>0, <3>1 DEF RepairedOf, StuckRows, FilesOf
  <2>5. CASE q # r
    BY <2>0, <2>2, <2>3, <2>5 DEF RepairedOf, StuckRows, FilesOf
  <2> QED
    BY <2>4, <2>5
<1>6. CASE Serve \/ Tick
  BY <1>1, <1>6, RepairedFrame DEF Serve, Tick
<1>7. CASE Boot \/ Crash
  BY <1>7 DEF Boot, Crash
<1> QED
  BY <1>2, <1>3, <1>4, <1>5, <1>6, <1>7 DEF Next, Startup

-----------------------------------------------------------------------------
(* The invariant, and what it gives. *)

LEMMA InitIInv == Init => IInv
<1> SUFFICES ASSUME Init PROVE IInv
  OBVIOUS
<1>1. TypeOK
  BY InitType
<1>2. Absent.how = "absent" /\ Absent.request = NoPath /\ Absent.response = NoPath
  BY DEF Absent
<1>3. PayloadKept /\ InHand
  BY <1>2 DEF Init, PayloadKept, InHand, PathOf, Good
<1>4. RowAwaits /\ FilesAwait /\ OneFile
  BY <1>2 DEF Init, RowAwaits, Idle, FilesAwait, FilesOf, OneFile
<1>5. DirsKept /\ Alone /\ Repaired
  BY <1>2 DEF Init, DirsKept, Past, Alone, StuckRows, Repaired
<1> QED
  BY <1>1, <1>3, <1>4, <1>5 DEF IInv

LEMMA NextIInv == IInv /\ [Next]_vars => IInv'
<1> SUFFICES ASSUME IInv, [Next]_vars PROVE IInv'
  OBVIOUS
<1>1. CASE Next
  <2>1. TypeOK'
    BY <1>1, TypeStep DEF IInv
  <2> QED
    BY <1>1, <2>1, PayloadKeptStep, InHandStep, RowAwaitsStep, FilesAwaitStep, OneFileStep,
       DirsStep, AloneStep, RepairedStep DEF IInv
<1>2. CASE UNCHANGED vars
  <2> USE <1>2 DEF vars, handlerVars, deleteVars, cleanVars, historyVars, repairVars, diskVars
  <2>1. TypeOK'
    BY TypeStep DEF IInv
  <2>2. PayloadKept' /\ InHand'
    BY DEF IInv, PayloadKept, InHand, PathOf, Good, Payload, Part
  <2>3. RowAwaits' /\ FilesAwait' /\ OneFile'
    BY DEF IInv, RowAwaits, Idle, FilesAwait, FilesOf, OneFile, Part
  <2>4. DirsKept' /\ Alone' /\ Repaired'
    BY DEF IInv, DirsKept, Past, Retention, Alone, StuckRows, Repaired, FilesOf
  <2> QED
    BY <2>1, <2>2, <2>3, <2>4 DEF IInv
<1> QED
  BY <1>1, <1>2

(* The inductive invariant holds: rows, files, directories and the steps of
   handler, deletion, cleanup and repair fit together in every state. *)
THEOREM Invariance == Spec => []IInv
BY InitIInv, NextIInv, PTL DEF Spec

(* Every variable keeps its type; a row that is not there names no payload. *)
THEOREM TypeCorrect == Spec => []TypeOK
<1>1. IInv => TypeOK
  BY DEF IInv
<1> QED
  BY <1>1, Invariance, PTL

(* A path in a row (store.go's req_raw_path and resp_raw_path) leads to the
   complete payload, whatever crashed or failed, unless the record's deletion
   was asked for or the payload's day has expired. *)
THEOREM PayloadsStay == Spec => []PayloadKept
<1>1. IInv => PayloadKept
  BY DEF IInv
<1> QED
  BY <1>1, Invariance, PTL

(* A pass of Cleanup without errors leaves no payload of a day that had expired
   when it read the directories; afterwards such a day is there only because a
   handler named it in time and made its directory late (store.go:58-61). *)
THEOREM ExpiredStaysGone == Spec => []SweptStaysSwept
<1>1. IInv => SweptStaysSwept
  BY DEF IInv, DirsKept, SweptStaysSwept
<1> QED
  BY <1>1, Invariance, PTL

(* The proxy does not serve before every response that an earlier life saved is
   in its row, provided the repair met no error. *)
THEOREM RepairBeforeServing == Spec => []RepairedAtStart
<1>1. IInv => RepairedAtStart
  <2> SUFFICES ASSUME IInv, phase = "serving", "repair" \notin missed, NEW r \in StuckRows,
                      NEW f \in files, pc[r] = "over", f.id = r, f.kind = "response"
               PROVE  ~ f.whole
    BY DEF RepairedAtStart
  <2>1. stuck = {} /\ f \in FilesOf(r, "response")
    BY DEF IInv, Alone, FilesOf
  <2> QED
    BY <2>1 DEF IInv, Repaired
<1> QED
  BY <1>1, Invariance, PTL

(* No status is written over another: handler and repair never both finish a
   request. *)
THEOREM StatusesSettle == Spec => StatusSettles
<1> DEFINE Settled == \A r \in Requests : rows[r].how \notin {"absent", "open"} =>
                                            rows'[r].how \in {rows[r].how, "absent"}
<1>1. IInv /\ [Next]_vars => [Settled]_vars
  <2> SUFFICES ASSUME IInv, Next, NEW q \in Requests, rows[q].how \notin {"absent", "open"}
               PROVE  rows'[q].how \in {rows[q].how, "absent"}
    OBVIOUS
  <2>1. TypeOK /\ Alone /\ RowAwaits
    BY DEF IInv
  <2>2. CASE (\E r \in Requests : Delete(r)) \/ Cleanup \/ Startup \/ Crash \/ Tick
    BY <2>1, <2>2, OthersTake DEF Absent
  <2>3. CASE \E r \in Requests : Handler(r)
    <3> PICK r \in Requests : Handler(r)
      BY <2>3
    <3>1. CASE q # r
      BY <2>1, <3>1, HandlerLocal
    <3>2. CASE q = r
      <4>1. Idle(r)
        BY <2>1, <3>2 DEF RowAwaits
      <4>2. Begin(r)
        BY <4>1 DEF Idle, Handler, Forwarded, SaveNothing, SaveName, SaveDir, SaveDirFails, SaveCreate, SaveCreateFails,
           SaveWrite, SaveWriteFails, Insert, Copied, Finish
      <4> QED
        BY <4>2 DEF Begin
    <3> QED
      BY <3>1, <3>2
  <2> QED
    BY <2>2, <2>3 DEF Next
<1> QED
  BY <1>1, Invariance, PTL DEF Spec, StatusSettles

-----------------------------------------------------------------------------
(* The page of a record (RawReader): a path that has been read from a row stays
   as good as it was. *)

(* The readers take no part in what the store does. *)
LEMMA StoreUnchanged == RawSpec => Spec
<1>1. RawInit => Init
  BY DEF RawInit
<1>2. [RawNext]_<<vars, raw>> => [Next]_vars
  BY DEF RawNext, HandleRaw
<1> QED
  BY <1>1, <1>2, PTL DEF RawSpec, Spec

LEMMA NoCallPath == NoCall.path = NoPath /\ NoCall.failed = FALSE
BY DEF NoCall

LEMMA CallFields ==
  ASSUME RawTypeOK, raw # NoCall
  PROVE  raw.id \in Requests /\ raw.kind \in Kinds /\ raw.path \in Paths /\ raw.failed \in BOOLEAN
BY DEF RawTypeOK, Call

(* A call under way keeps what it has, whatever the store does. *)
LEMMA StoreKeepsCall ==
  ASSUME IInv, RawInv, Next, raw' = raw
  PROVE  RawInv'
<1>1. RawTypeOK'
  BY DEF RawInv, RawTypeOK
<1>2. CASE raw = NoCall
  BY <1>1, <1>2, NoCallPath DEF RawInv, ErrorsExplained
<1>3. CASE raw # NoCall
  <2>1. /\ raw.id \in Requests /\ raw.kind \in Kinds /\ raw.path \in Paths
        /\ raw.path # NoPath /\ Good(raw.id, raw.kind, raw.path)
    BY <1>3, CallFields DEF RawInv
  <2>2. TypeOK /\ DirsKept
    BY DEF IInv
  <2>3. \/ raw.path = NoPath \/ Payload(raw.id, raw.kind, raw.path) \in files'
        \/ del'[raw.id] # "no" \/ raw.path < cutoffDate'
    BY <2>1, <2>2, GoodStays
  <2>4. Good(raw.id, raw.kind, raw.path)'
    BY <2>3 DEF Good, Payload
  <2>5. ErrorsExplained'
    BY <2>1, <2>2, ExcuseStays DEF RawInv, ErrorsExplained
  <2> QED
    BY <1>1, <2>1, <2>4, <2>5 DEF RawInv
<1> QED
  BY <1>2, <1>3

LEMMA ReadRowStep ==
  ASSUME IInv, NEW r \in Requests, NEW k \in Kinds, ReadRow(r, k), UNCHANGED vars
  PROVE  RawInv'
<1>1. PathOf(r, k) \in Paths /\ PathOf(r, k) # NoPath
  BY DEF IInv, TypeOK, Row, PathOf, ReadRow
<1>2. /\ raw' \in Call /\ raw'.id = r /\ raw'.kind = k /\ raw'.path = PathOf(r, k)
      /\ raw'.failed = FALSE
  BY <1>1 DEF ReadRow, Call
<1>3. Good(r, k, PathOf(r, k))
  BY DEF IInv, PayloadKept
<1>4. Good(raw.id, raw.kind, raw.path)'
  BY <1>2, <1>3 DEF Good, Payload, vars, deleteVars, cleanVars, diskVars
<1> QED
  BY <1>1, <1>2, <1>4 DEF RawInv, RawTypeOK, ErrorsExplained

(* A failed read: the file was not whole, so that the goodness of the path must
   lie in the record's deletion or the day's expiry. *)
LEMMA ReadFails ==
  ASSUME RawInv, raw # NoCall, raw' = [raw EXCEPT !.failed = TRUE], UNCHANGED vars,
         Payload(raw.id, raw.kind, raw.path) \notin files
  PROVE  RawInv'
<1>1. raw \in Call /\ raw.path # NoPath /\ Good(raw.id, raw.kind, raw.path)
  BY DEF RawInv, RawTypeOK
<1>2. /\ raw' \in Call /\ raw'.id = raw.id /\ raw'.kind = raw.kind /\ raw'.path = raw.path
      /\ raw'.failed = TRUE
  BY <1>1 DEF Call
<1>3. del[raw.id] # "no" \/ raw.path < cutoffDate
  BY <1>1 DEF Good
<1>4. Good(raw.id, raw.kind, raw.path)' /\ ErrorsExplained'
  BY <1>2, <1>3 DEF Good, ErrorsExplained, vars, deleteVars, cleanVars
<1> QED
  BY <1>1, <1>2, <1>4 DEF RawInv, RawTypeOK

LEMMA RawStep == IInv /\ RawInv /\ [RawNext]_<<vars, raw>> => RawInv'
<1> SUFFICES ASSUME IInv, RawInv, [RawNext]_<<vars, raw>>
             PROVE  RawInv'
  OBVIOUS
<1>1. CASE UNCHANGED <<vars, raw>>
  BY <1>1 DEF RawInv, RawTypeOK, ErrorsExplained, Good, Payload, vars, deleteVars, cleanVars,
     diskVars
<1>2. CASE raw' = NoCall
  BY <1>2, NoCallPath DEF RawInv, RawTypeOK, ErrorsExplained
<1>3. CASE Next /\ raw' = raw
  BY <1>3, StoreKeepsCall
<1>4. CASE HandleRaw /\ raw' # NoCall
  <2>1. CASE \E r \in Requests, k \in Kinds : ReadRow(r, k)
    BY <1>4, <2>1, ReadRowStep DEF HandleRaw
  <2>2. CASE ReadFile
    BY <1>4, <2>2, ReadFails DEF HandleRaw, ReadFile, Payload
  <2> QED
    BY <1>4, <2>1, <2>2 DEF HandleRaw, Answer500
<1> QED
  BY <1>1, <1>2, <1>3, <1>4 DEF RawNext

(* A page is refused a payload that its row names only when the record is being
   deleted or its day has expired (handleRaw against SaveRawPayload,
   DeleteRequestByID, Cleanup and RepairStuckRequests), with any number of
   requests and every fault. *)
THEOREM ErrorsAreExplained == RawSpec => []ErrorsExplained
<1>1. RawInit => RawInv
  BY NoCallPath DEF RawInit, RawInv, RawTypeOK, ErrorsExplained
<1>2. RawInv => ErrorsExplained
  BY DEF RawInv
<1> QED
  BY <1>1, <1>2, RawStep, StoreUnchanged, Invariance, PTL DEF RawSpec
=============================================================================
