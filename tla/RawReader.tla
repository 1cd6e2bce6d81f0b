------------------------------ MODULE RawReader ------------------------------
(***************************************************************************)
(* The page of a recorded request opens one of its payloads                *)
(* (router.go/handleRaw) while handlers, deletion, cleanup, crashes and    *)
(* repair go on as in RequestStore.  The row is read first, the file that  *)
(* it names later, with nothing to hold the two together.                  *)
(*                                                                         *)
(* One call at a time: a call changes nothing that another one reads.      *)
(***************************************************************************)
EXTENDS RequestStore

VARIABLE raw    \* the call under way and the path it has from the row; it
                \* stays failed until its 500 is written

Call   == [id: Requests, kind: Kinds, path: Paths, failed: BOOLEAN]
NoCall == [path |-> NoPath, failed |-> FALSE]

RawInit == Init /\ raw = NoCall

(* GetRequestByID.  Without a row, or with "" for a path, the answer is 404 at
   once and nothing changes. *)
ReadRow(r, k) ==
  /\ phase = "serving"
  /\ raw = NoCall
  /\ Present(r) /\ PathOf(r, k) # NoPath
  /\ raw' = [id |-> r, kind |-> k, path |-> PathOf(r, k), failed |-> FALSE]

(* ReadGzipFile: a payload that is whole is sent, whatever becomes of its name
   once the file is open; what is there in part breaks off, unless the rest is
   written before it is read; a file that is gone is an error. *)
ReadFile ==
  LET named(whole) == [id |-> raw.id, kind |-> raw.kind, day |-> raw.path, whole |-> whole] IN
  /\ raw # NoCall /\ ~raw.failed
  /\ \/ /\ named(TRUE) \in files \/ named(FALSE) \in files
        /\ raw' = NoCall
     \/ /\ named(TRUE) \notin files
        /\ raw' = [raw EXCEPT !.failed = TRUE]

(* The error is sent. *)
Answer500 == raw.failed /\ raw' = NoCall

HandleRaw ==
  /\ (\E r \in Requests, k \in Kinds : ReadRow(r, k)) \/ ReadFile \/ Answer500
  /\ UNCHANGED vars

RawNext ==
  \/ HandleRaw
  \/ Next /\ raw' = IF phase' = "down" THEN NoCall ELSE raw

RawSpec == RawInit /\ [][RawNext]_<<vars, raw>>

RawTypeOK == raw \in Call \cup {NoCall}

(* The page gets an error for a payload it was offered only if that record's
   deletion was asked for or its day has expired meanwhile: never because of
   the order in which handler, cleanup and repair write rows and files. *)
ErrorsExplained == raw.failed => del[raw.id] # "no" \/ raw.path < cutoffDate

(* Inductive with the invariant of RequestStore: what a call holds is as good
   as a row's path. *)
RawInv ==
  /\ RawTypeOK
  /\ raw # NoCall => raw.path # NoPath /\ Good(raw.id, raw.kind, raw.path)
  /\ ErrorsExplained
=============================================================================
