---------------------------- MODULE RequestStore ----------------------------
(***************************************************************************)
(* A recorded request: its row in the table requests and its two payload   *)
(* files under data/raw/<day>/ (internal/store/store.go), written by the   *)
(* request's own handler (proxy.go), removed by the delete handler and by  *)
(* the hourly cleanup, and repaired when the proxy starts (main.go).       *)
(*                                                                         *)
(* Row and files have no transaction in common.  An action is one SQL      *)
(* statement or one file operation; a crash may come between any two.      *)
(* Time runs in ticks.  The directory of a day is named by the tick of its *)
(* midnight, and a payload path, which for a given request and kind is     *)
(* determined by the day, is that number too; NoPath is the empty string.  *)
(***************************************************************************)
EXTENDS Integers, FiniteSets

CONSTANTS
  Requests,       \* request ids; an id is used once
  TicksPerDay,
  RetentionDays,  \* proxy.retention_days; 0 or less: Cleanup does nothing
  MaxTime,        \* bound: the clock stops there
  Faults          \* what may go wrong, a subset of FaultKinds

FaultKinds ==
  {"crash",         \* the proxy dies, or exits with requests under way
   "diskFull",      \* MkdirAll, Create or a write returns an error
   "removeFails",   \* os.Remove or RemoveAll returns an error
   "readFails",     \* ReadDir returns an error
   "insertBusy", "finishBusy", "deleteBusy", "cleanupBusy", "repairBusy"}
                    \* the statement fails after the retries of RetryWrite

ASSUME TimeAssumption == /\ TicksPerDay \in Nat \ {0}
                         /\ RetentionDays \in Int
                         /\ MaxTime \in Nat
ASSUME FaultsAssumption == Faults \subseteq FaultKinds

NoPath      == -1
Paths       == Nat \cup {NoPath}
Kinds       == {"request", "response"}
Retention   == RetentionDays * TicksPerDay
Midnight(t) == t - (t % TicksPerDay)

VARIABLES
  now,        \* the clock
  phase,      \* of the proxy: "down", "booting", "repairing", "serving"
  pc,         \* where the handler of each request is
  kind,       \* which of its payloads a request saves, or saves next
  ok,         \* a backend answered the request with 200
  started,    \* the local started, later created_at
  path,       \* the payload path in the handler's hands (relPath, reqRawPath,
              \* respRawPath)
  rows,       \* the table requests
  dirs,       \* the day directories below data/raw
  files,      \* the payload files
  del,        \* where DeleteRequestByID is for each request
  found,      \* the payload paths it read from the row
  clean,      \* where Cleanup is: "idle", "rows", "raw", "listed", "sweep"
  cutoff,     \* its local of this name, for the rows; 0 once it is used
  entries,    \* the directories it has read and not yet looked at
  cutoffDate, \* its local of this name, for the directories
  listed,     \* history: the cutoff when the pass read the directories
  swept,      \* history: the same of the last pass that got to its end
  revived,    \* history: the days made, after they had expired, while the
              \* pass under way has the directories
  late,       \* history: the same since the last pass that got to its end did
  stuck,      \* the rows RepairStuckRequests has read and not yet looked at
  missed      \* whether the pass of Cleanup, the repair met an error it skipped

handlerVars == <<pc, kind, ok, started, path>>
deleteVars  == <<del, found>>
historyVars == <<listed, swept, revived, late>>
cleanVars   == <<clean, cutoff, entries, cutoffDate, historyVars>>
repairVars  == <<stuck, missed>>
diskVars    == <<dirs, files>>
vars == <<now, phase, handlerVars, rows, diskVars, deleteVars, cleanVars, repairVars>>

(* The time retention_days ago; nothing here is older than 0. *)
Cutoff == IF now < Retention THEN 0 ELSE now - Retention

Steps == {"idle", "forward", "save", "mkdir", "create", "write", "insert",
          "copy", "finish", "done", "over"}
CleanSteps == {"idle", "rows", "raw", "listed", "sweep"}

(* A row's how tells who wrote its status_code: nobody yet (0), FinishRequest
   with the answer of a backend or with a failure, or the repair. *)
Row  == [how: {"absent", "open", "finished", "failed", "repaired"},
         created: Nat, request: Paths, response: Paths]
File == [id: Requests, kind: Kinds, day: Nat, whole: BOOLEAN]

Nowhere == [k \in Kinds |-> NoPath]
Absent == [how |-> "absent", created |-> 0, request |-> NoPath, response |-> NoPath]
Payload(r, k, d) == [id |-> r, kind |-> k, day |-> d, whole |-> TRUE]
Part(r, k, d)    == [id |-> r, kind |-> k, day |-> d, whole |-> FALSE]

Present(r) == rows[r].how # "absent"
PathOf(r, k) == IF k = "request" THEN rows[r].request ELSE rows[r].response

Init ==
  /\ now = 0
  /\ phase = "booting"
  /\ pc = [r \in Requests |-> "idle"]
  /\ kind = [r \in Requests |-> "request"]
  /\ ok = [r \in Requests |-> FALSE]
  /\ started = [r \in Requests |-> 0]
  /\ path = [r \in Requests |-> NoPath]
  /\ rows = [r \in Requests |-> Absent]
  /\ dirs = {}
  /\ files = {}
  /\ del = [r \in Requests |-> "no"]
  /\ found = [r \in Requests |-> Nowhere]
  /\ clean = "idle"
  /\ cutoff = 0
  /\ entries = {}
  /\ cutoffDate = 0
  /\ listed = 0
  /\ swept = 0
  /\ revived = {}
  /\ late = {}
  /\ stuck = {}
  /\ missed = {}

-----------------------------------------------------------------------------
(* The handler of a request. *)

Goto(r, step) == pc' = [pc EXCEPT ![r] = step]

(* handleProxy is entered: started is the time the row will carry. *)
Begin(r) ==
  /\ phase = "serving"
  /\ pc[r] = "idle"
  /\ started' = [started EXCEPT ![r] = now]
  /\ Goto(r, "forward")
  /\ UNCHANGED <<now, phase, kind, ok, path, rows, diskVars, deleteVars, cleanVars, repairVars>>

(* The failover loop ends, with a 200 or with all backends failed. *)
Forwarded(r) ==
  /\ pc[r] = "forward"
  /\ ok' \in {[ok EXCEPT ![r] = b] : b \in BOOLEAN}
  /\ Goto(r, "save")
  /\ UNCHANGED <<now, phase, kind, started, path, rows, diskVars, deleteVars, cleanVars, repairVars>>

(* What follows SaveRawPayload, which has returned path p ("" after an error). *)
AfterSave(r, p) ==
  /\ path' = [path EXCEPT ![r] = p]
  /\ Goto(r, IF kind[r] = "request" THEN "insert" ELSE "finish")
  /\ UNCHANGED <<now, phase, kind, ok, started, rows, deleteVars, cleanVars, repairVars>>

(* SaveRawPayload with no data. *)
SaveNothing(r) ==
  /\ pc[r] = "save"
  /\ AfterSave(r, NoPath)
  /\ UNCHANGED diskVars

(* SaveRawPayload reads the clock and names the directory of the day ... *)
SaveName(r) ==
  /\ pc[r] = "save"
  /\ path' = [path EXCEPT ![r] = Midnight(now)]
  /\ Goto(r, "mkdir")
  /\ UNCHANGED <<now, phase, kind, ok, started, rows, diskVars, deleteVars, cleanVars, repairVars>>

(* ... which it makes later, and the day may have expired by then. *)
Expired(d) == RetentionDays > 0 /\ d < Cutoff

SaveDir(r) ==
  LET day == path[r] IN
  /\ pc[r] = "mkdir"
  /\ dirs' = dirs \cup {day}
  /\ revived' = IF Expired(day) /\ clean \in {"listed", "sweep"}
                  THEN revived \cup {day} ELSE revived
  /\ late' = IF Expired(day) THEN late \cup {day} ELSE late
  /\ Goto(r, "create")
  /\ UNCHANGED <<now, phase, kind, ok, started, path, rows, files, deleteVars,
                 clean, cutoff, entries, cutoffDate, listed, swept, repairVars>>

SaveDirFails(r) ==
  /\ pc[r] = "mkdir"
  /\ "diskFull" \in Faults
  /\ AfterSave(r, NoPath)
  /\ UNCHANGED diskVars

SaveCreate(r) ==
  /\ pc[r] = "create"
  /\ path[r] \in dirs
  /\ files' = files \cup {Part(r, kind[r], path[r])}
  /\ Goto(r, "write")
  /\ UNCHANGED <<now, phase, kind, ok, started, path, rows, dirs, deleteVars, cleanVars, repairVars>>

(* os.Create fails: the directory has gone, or the disk is full. *)
SaveCreateFails(r) ==
  /\ pc[r] = "create"
  /\ path[r] \notin dirs \/ "diskFull" \in Faults
  /\ AfterSave(r, NoPath)
  /\ UNCHANGED diskVars

(* gzip writes and closes.  A file that was removed meanwhile stays removed. *)
SaveWrite(r) ==
  LET part == Part(r, kind[r], path[r]) IN
  /\ pc[r] = "write"
  /\ files' = IF part \in files
              THEN (files \ {part}) \cup {Payload(r, kind[r], path[r])}
              ELSE files
  /\ AfterSave(r, path[r])
  /\ UNCHANGED dirs

KeepPathBug(r) ==
  /\ pc[r] = "write"
  /\ "diskFull" \in Faults
  /\ AfterSave(r, path[r])
  /\ UNCHANGED diskVars

(* A write fails: the path is not returned, the file stays as it is. *)
SaveWriteFails(r) ==
  /\ pc[r] = "write"
  /\ "diskFull" \in Faults
  /\ AfterSave(r, NoPath)
  /\ UNCHANGED diskVars

(* InsertRequest, whose error is only logged.  After a failed forwarding the
   next step is FinishRequest, after a 200 the copy to the client. *)
Insert(r) ==
  /\ pc[r] = "insert"
  /\ \/ rows' = [rows EXCEPT ![r] = [how |-> "open", created |-> started[r],
                                     request |-> path[r], response |-> NoPath]]
     \/ "insertBusy" \in Faults /\ UNCHANGED rows
  /\ path' = [path EXCEPT ![r] = NoPath]
  /\ kind' = [kind EXCEPT ![r] = "response"]
  /\ Goto(r, IF ok[r] THEN "copy" ELSE "finish")
  /\ UNCHANGED <<now, phase, ok, started, diskVars, deleteVars, cleanVars, repairVars>>

(* streamCopy or streamCopySSE returns, whether the client got all or left. *)
Copied(r) ==
  /\ pc[r] = "copy"
  /\ Goto(r, "save")
  /\ UNCHANGED <<now, phase, kind, ok, started, path, rows, diskVars, deleteVars, cleanVars, repairVars>>

(* An UPDATE of the status and the response's path of a row. *)
Record(r, how, p) ==
  rows' = [rows EXCEPT ![r] = [how |-> how, created |-> @.created,
                               request |-> @.request, response |-> p]]

(* The handler returns, and its locals with it. *)
Return(r) ==
  /\ Goto(r, "done")
  /\ kind' = [kind EXCEPT ![r] = "request"]
  /\ ok' = [ok EXCEPT ![r] = FALSE]
  /\ started' = [started EXCEPT ![r] = 0]
  /\ path' = [path EXCEPT ![r] = NoPath]

FinishUpsertBug(r) ==
  /\ pc[r] = "finish"
  /\ Record(r, rows[r].how, path[r])
  /\ Return(r)
  /\ UNCHANGED <<now, phase, diskVars, deleteVars, cleanVars, repairVars>>

(* FinishRequest: UPDATE ... WHERE id, of no effect on a row that is gone. *)
Finish(r) ==
  /\ pc[r] = "finish"
  /\ IF Present(r)
       THEN \/ Record(r, IF ok[r] THEN "finished" ELSE "failed", path[r])
            \/ "finishBusy" \in Faults /\ UNCHANGED rows
       ELSE UNCHANGED rows
  /\ Return(r)
  /\ UNCHANGED <<now, phase, diskVars, deleteVars, cleanVars, repairVars>>

Handler(r) ==
  \/ Begin(r) \/ Forwarded(r)
  \/ SaveNothing(r) \/ SaveName(r) \/ SaveDir(r) \/ SaveDirFails(r)
  \/ SaveCreate(r) \/ SaveCreateFails(r)
  \/ SaveWrite(r) \/ SaveWriteFails(r)
  \/ Insert(r) \/ Copied(r) \/ Finish(r)

-----------------------------------------------------------------------------
(* DeleteRequestByID.  One call at a time for a request: a second one finds the
   same paths or no row. *)

DeleteLookup(r) ==
  /\ phase = "serving"
  /\ del[r] \in {"no", "over"}
  /\ Present(r)
  /\ del' = [del EXCEPT ![r] = "request"]
  /\ found' = [found EXCEPT ![r] = [k \in Kinds |-> PathOf(r, k)]]
  /\ UNCHANGED <<now, phase, handlerVars, rows, diskVars, cleanVars, repairVars>>

DeleteFile(r) ==
  /\ del[r] \in Kinds
  /\ \/ /\ files' = {f \in files : ~ (f.id = r /\ f.kind = del[r]
                                               /\ f.day = found[r][del[r]])}
        /\ del' = [del EXCEPT ![r] = IF @ = "request" THEN "response" ELSE "row"]
        /\ UNCHANGED found
     \/ /\ "removeFails" \in Faults
        /\ found[r][del[r]] # NoPath
        /\ del' = [del EXCEPT ![r] = "over"]
        /\ found' = [found EXCEPT ![r] = Nowhere]
        /\ UNCHANGED files
  /\ UNCHANGED <<now, phase, handlerVars, rows, dirs, cleanVars, repairVars>>

DeleteRow(r) ==
  /\ del[r] = "row"
  /\ \/ rows' = [rows EXCEPT ![r] = Absent]
     \/ "deleteBusy" \in Faults /\ UNCHANGED rows
  /\ del' = [del EXCEPT ![r] = "over"]
  /\ found' = [found EXCEPT ![r] = Nowhere]
  /\ UNCHANGED <<now, phase, handlerVars, diskVars, cleanVars, repairVars>>

Delete(r) == DeleteLookup(r) \/ DeleteFile(r) \/ DeleteRow(r)

-----------------------------------------------------------------------------
(* Cleanup, called by CleanupLoop when it starts and every hour. *)

CleanStart ==
  /\ phase = "serving"
  /\ clean = "idle"
  /\ RetentionDays > 0
  /\ cutoff' = Cutoff
  /\ clean' = "rows"
  /\ UNCHANGED <<now, phase, handlerVars, rows, diskVars, deleteVars, entries,
                 cutoffDate, historyVars, repairVars>>

(* Rows older than the cutoff go in one statement. *)
CleanRows ==
  /\ clean = "rows"
  /\ \/ rows' = [r \in Requests |->
                   IF Present(r) /\ rows[r].created < cutoff THEN Absent ELSE rows[r]]
     \/ "cleanupBusy" \in Faults /\ UNCHANGED rows
  /\ cutoff' = 0
  /\ clean' = "raw"
  /\ UNCHANGED <<now, phase, handlerVars, diskVars, deleteVars, entries,
                 cutoffDate, historyVars, repairVars>>

(* ReadDir of data/raw ... *)
CleanReadDir ==
  /\ clean = "raw"
  /\ entries' = dirs
  /\ listed' = Cutoff
  /\ clean' = "listed"
  /\ UNCHANGED <<now, phase, handlerVars, rows, diskVars, deleteVars, cutoff,
                 cutoffDate, swept, revived, late, repairVars>>

CleanReadFails ==
  /\ clean = "raw"
  /\ "readFails" \in Faults
  /\ clean' = "idle"
  /\ UNCHANGED <<now, phase, handlerVars, rows, diskVars, deleteVars, cutoff,
                 entries, cutoffDate, historyVars, repairVars>>

(* ... and after it the clock again. *)
CleanDate ==
  /\ clean = "listed"
  /\ cutoffDate' = Cutoff
  /\ clean' = "sweep"
  /\ UNCHANGED <<now, phase, handlerVars, rows, diskVars, deleteVars, cutoff,
                 entries, historyVars, repairVars>>

WholeDayBug ==
  /\ clean = "sweep"
  /\ \E d \in entries :
       /\ entries' = entries \ {d}
       /\ IF d + TicksPerDay < cutoffDate
            THEN /\ dirs' = dirs \ {d}
                 /\ files' = {f \in files : f.day # d}
            ELSE UNCHANGED diskVars
  /\ UNCHANGED <<now, phase, handlerVars, rows, deleteVars, clean, cutoff,
                 cutoffDate, historyVars, repairVars>>

(* RemoveAll of a day whose midnight lies before the cutoff; errors are not
   looked at. *)
CleanDir ==
  /\ clean = "sweep"
  /\ \E d \in entries :
       /\ entries' = entries \ {d}
       /\ IF d < cutoffDate
            THEN \/ /\ dirs' = dirs \ {d}
                    /\ files' = {f \in files : f.day # d}
                    /\ UNCHANGED missed
                 \/ /\ "removeFails" \in Faults
                    /\ missed' = missed \cup {"sweep"}
                    /\ UNCHANGED diskVars
            ELSE UNCHANGED <<diskVars, missed>>
  /\ UNCHANGED <<now, phase, handlerVars, rows, deleteVars, clean, cutoff,
                 cutoffDate, historyVars, stuck>>

CleanDone ==
  /\ clean = "sweep"
  /\ entries = {}
  /\ clean' = "idle"
  /\ IF "sweep" \in missed
       THEN UNCHANGED <<swept, late>>
       ELSE swept' = listed /\ late' = revived
  /\ listed' = 0 /\ revived' = {}
  /\ missed' = missed \ {"sweep"}
  /\ UNCHANGED <<now, phase, handlerVars, rows, diskVars, deleteVars, cutoff,
                 entries, cutoffDate, stuck>>

Cleanup == \/ CleanStart \/ CleanRows \/ CleanReadDir \/ CleanReadFails
           \/ CleanDate \/ CleanDir \/ CleanDone

-----------------------------------------------------------------------------
(* The start of the proxy: RepairStuckRequests runs to its end before main
   listens and starts CleanupLoop. *)

StuckRows == {r \in Requests : rows[r].how = "open" /\ rows[r].response = NoPath}

RepairWhileServingBug ==
  /\ phase \in {"booting", "serving"}
  /\ stuck = {}
  /\ stuck' = StuckRows
  /\ phase' = IF phase = "booting" THEN "repairing" ELSE phase
  /\ missed' = missed \ {"repair"}
  /\ UNCHANGED <<now, handlerVars, rows, diskVars, deleteVars, cleanVars>>

(* The query; if it fails, main goes on without a repair. *)
RepairQuery ==
  /\ phase = "booting"
  /\ \/ stuck' = StuckRows /\ missed' = missed \ {"repair"}
     \/ /\ "repairBusy" \in Faults
        /\ missed' = missed \cup {"repair"}
        /\ UNCHANGED stuck
  /\ phase' = "repairing"
  /\ UNCHANGED <<now, handlerVars, rows, diskVars, deleteVars, cleanVars>>

(* One stuck row: if its response was saved (and unzips), the row gets status
   200, the metadata in it and its path; otherwise it stays as it is. *)
RepairOne ==
  /\ \E r \in stuck :
       LET saved == {f \in files : f.id = r /\ f.kind = "response" /\ f.whole} IN
       /\ stuck' = stuck \ {r}
       /\ \/ /\ \E f \in saved : Record(r, "repaired", f.day)
             /\ UNCHANGED missed
          \/ saved = {} /\ UNCHANGED <<rows, missed>>
          \/ /\ saved # {} /\ "repairBusy" \in Faults
             /\ missed' = missed \cup {"repair"}
             /\ UNCHANGED rows
  /\ UNCHANGED <<now, phase, handlerVars, diskVars, deleteVars, cleanVars>>

ServeEarlyBug ==
  /\ phase = "repairing"
  /\ phase' = "serving"
  /\ UNCHANGED <<now, handlerVars, rows, diskVars, deleteVars, cleanVars, repairVars>>

Serve ==
  /\ phase = "repairing"
  /\ stuck = {}
  /\ phase' = "serving"
  /\ UNCHANGED <<now, handlerVars, rows, diskVars, deleteVars, cleanVars, repairVars>>

(* Everything in memory is lost; rows and files stay. *)
Crash ==
  /\ "crash" \in Faults
  /\ phase # "down"
  /\ phase' = "down"
  /\ pc' = [r \in Requests |-> IF pc[r] = "idle" THEN "idle" ELSE "over"]
  /\ kind' = [r \in Requests |-> "request"]
  /\ ok' = [r \in Requests |-> FALSE]
  /\ started' = [r \in Requests |-> 0]
  /\ path' = [r \in Requests |-> NoPath]
  /\ del' = [r \in Requests |-> IF del[r] = "no" THEN "no" ELSE "over"]
  /\ clean' = "idle"
  /\ cutoff' = 0
  /\ entries' = {}
  /\ stuck' = {}
  /\ found' = [r \in Requests |-> Nowhere]
  /\ listed' = 0 /\ revived' = {}
  /\ missed' = missed \ {"sweep"}
  /\ UNCHANGED <<now, rows, diskVars, cutoffDate, swept, late>>

Boot ==
  /\ phase = "down"
  /\ phase' = "booting"
  /\ UNCHANGED <<now, handlerVars, rows, diskVars, deleteVars, cleanVars, repairVars>>

Startup == RepairQuery \/ RepairOne \/ Serve \/ Boot

Tick ==
  /\ now < MaxTime
  /\ now' = now + 1
  /\ UNCHANGED <<phase, handlerVars, rows, diskVars, deleteVars, cleanVars, repairVars>>

Next ==
  \/ \E r \in Requests : Handler(r) \/ Delete(r)
  \/ Cleanup
  \/ Startup
  \/ Crash
  \/ Tick

Spec == Init /\ [][Next]_vars

-----------------------------------------------------------------------------
(* Types; a row that is not there names no payload. *)
TypeOK ==
  /\ now \in Nat
  /\ phase \in {"down", "booting", "repairing", "serving"}
  /\ pc \in [Requests -> Steps]
  /\ kind \in [Requests -> Kinds]
  /\ ok \in [Requests -> BOOLEAN]
  /\ started \in [Requests -> Nat]
  /\ path \in [Requests -> Paths]
  /\ rows \in [Requests -> Row]
  /\ \A r \in Requests : rows[r].how = "absent" => rows[r] = Absent
  /\ dirs \subseteq Nat
  /\ files \subseteq File
  /\ del \in [Requests -> Kinds \cup {"no", "row", "over"}]
  /\ found \in [Requests -> [Kinds -> Paths]]
  /\ clean \in CleanSteps
  /\ cutoff \in Int /\ cutoffDate \in Int
  /\ entries \subseteq Nat
  /\ listed \in Int /\ swept \in Int
  /\ revived \subseteq Nat /\ late \subseteq Nat
  /\ stuck \subseteq Requests
  /\ missed \subseteq {"sweep", "repair"}

(* A path p is good while the whole payload is there, unless somebody has asked
   for the record's deletion or the day of the file has passed the cutoff. *)
Good(r, k, p) ==
  \/ p = NoPath
  \/ Payload(r, k, p) \in files
  \/ del[r] # "no"
  \/ p < cutoffDate

(* The page opens what a row names: whatever crashed, failed or ran at the same
   time, it is there and complete, short of deletion and expiry. *)
PayloadKept == \A r \in Requests, k \in Kinds : Good(r, k, PathOf(r, k))

(* A pass of Cleanup without errors leaves no payload of a day that had
   expired when it read the directories, whether a row leads to it or not; an
   expired day comes back only through a handler that named it in time and made
   its directory late, and the next such pass takes that away too. *)
SweptStaysSwept == \A f \in files : f.day >= swept \/ f.day \in late

(* At most one file holds a payload, so that the directory findRawPayloadPath
   looks into first does not matter. *)
OneFile == \A f, g \in files : f.id = g.id /\ f.kind = g.kind => f = g

(* When the proxy serves after a repair without errors, no request of an earlier life is still shown as under
   way although its response was saved. *)
RepairedAtStart ==
  phase = "serving" /\ "repair" \notin missed =>
    \A r \in StuckRows, f \in files :
      pc[r] = "over" /\ f.id = r /\ f.kind = "response" => ~ f.whole

(* A status, once written, is not written again: the repair and the handler
   never both finish a request. *)
StatusSettles ==
  [][\A r \in Requests : rows[r].how \notin {"absent", "open"} =>
       rows'[r].how \in {rows[r].how, "absent"}]_vars

-----------------------------------------------------------------------------
(* The inductive invariant. *)

Idle(r)   == pc[r] \in {"idle", "over", "done"}   \* no handler at work on r
Past(c)   == c <= 0 \/ (RetentionDays > 0 /\ c <= now - Retention)
FilesOf(r, k) == {f \in files : f.id = r /\ f.kind = k}

(* What a handler has in hands: a day, the file it writes, then a path as
   good as the row's. *)
InHand ==
  \A r \in Requests :
    /\ pc[r] \in {"mkdir", "create", "write"} => path[r] # NoPath
    /\ pc[r] = "write" => \/ Part(r, kind[r], path[r]) \in files
                          \/ del[r] # "no"
                          \/ path[r] < cutoffDate
    /\ pc[r] \in {"insert", "finish"} => Good(r, kind[r], path[r])

(* The row a handler will write is not finished, nor inserted twice. *)
RowAwaits ==
  \A r \in Requests :
    /\ ~ Idle(r) => rows[r].how \in {"absent", "open"}
    /\ pc[r] \in {"idle", "forward"} \/ (kind[r] = "request" /\ ~ Idle(r))
         => rows[r].how = "absent"

(* A payload is not on disk before its handler has created it. *)
FilesAwait ==
  \A r \in Requests :
    /\ pc[r] \in {"idle", "forward", "save", "mkdir", "create"} => FilesOf(r, kind[r]) = {}
    /\ pc[r] = "write" => FilesOf(r, kind[r]) \subseteq {Part(r, kind[r], path[r])}
    /\ kind[r] = "request" /\ pc[r] \notin {"done", "over"} => FilesOf(r, "response") = {}
    /\ pc[r] \in {"idle", "forward", "insert"} => kind[r] = "request"
    /\ pc[r] \in {"copy", "finish"} => kind[r] = "response"
    /\ pc[r] = "copy" => FilesOf(r, "response") = {}

(* No directory that remains lies before the cutoff of the last complete pass,
   nor before the one of the pass under way unless that has still to look at
   it, but for those that were made late. *)
DirsKept ==
  /\ \A f \in files : f.day \in dirs
  /\ \A d \in dirs : d >= swept \/ d \in late
  /\ Past(cutoff) /\ Past(cutoffDate) /\ Past(listed) /\ Past(swept)
  /\ clean # "idle" => RetentionDays > 0
  /\ clean = "sweep" => listed <= cutoffDate
  /\ clean \in {"listed", "sweep"} /\ "sweep" \notin missed =>
       \A d \in dirs : d >= listed \/ d \in entries \/ d \in revived

(* Nothing else runs until the repair is done, which leaves behind it no row
   that it could have put right. *)
Alone ==
  /\ phase # "serving" =>
       /\ \A r \in Requests : pc[r] \in {"idle", "over"}
       /\ \A r \in Requests : del[r] \in {"no", "over"}
       /\ clean = "idle"
  /\ phase # "repairing" => stuck = {}
  /\ stuck \subseteq StuckRows

Repaired ==
  phase \in {"repairing", "serving"} /\ "repair" \notin missed =>
    \A r \in StuckRows \ stuck :
      pc[r] = "over" => \A f \in FilesOf(r, "response") : ~ f.whole

IInv ==
  /\ TypeOK
  /\ PayloadKept /\ InHand
  /\ RowAwaits
  /\ FilesAwait /\ OneFile
  /\ DirsKept
  /\ Alone
  /\ Repaired

-----------------------------------------------------------------------------
(* README.md:385 says that data past retention_days is removed: a row within
   the retention still has its payload. *)
RetainedHasPayload ==
  \A r \in Requests, k \in Kinds :
    /\ Present(r)
    /\ del[r] = "no"
    /\ rows[r].created >= now - Retention
    /\ PathOf(r, k) # NoPath
    => Payload(r, k, PathOf(r, k)) \in files
=============================================================================
