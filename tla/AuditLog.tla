----------------------------- MODULE AuditLog -----------------------------
(***************************************************************************)
(* The audit log of face-api (bbolt bucket "Audit"): a sequence of stored  *)
(* entries, oldest first, and the queries AuditRepository answers from it. *)
(* Each query runs in one bbolt read transaction, so it sees one value of  *)
(* the log.  Times are kept with RFC3339's resolution: whole seconds.      *)
(***************************************************************************)
EXTENDS Integers, Sequences, SequencesExt

\* An entry is a record with the fields
\*   endpoint, name, matched, status, face, embedded, sec
\* where embedded says whether the embedding was stored with it (a promotion
\* needs it) and status is the empty string where the writer set none.
Nobody == 0              \* Name "" or "Unknown"

Endpoint == {"enroll", "recognize", "stream-check"}
Status   == {"matched", "not_matched", "no_face"}

\* Mutant of DefaultStatus: one reader takes a missing status for "not_matched".
DefaultStatus_OneDiffers ==
    [Recent                  |-> "matched",
     ListPaginated           |-> "matched",
     CountRecognizeEntries   |-> "matched",
     ComputeRecognizeSummary |-> "matched",
     ListRecognizeCount      |-> "matched",
     ListRecognizePage       |-> "matched",
     ListUnmatched           |-> "not_matched",
     ComputeStats            |-> "matched"]

\* What each reader of the log takes a missing status for, every one in a
\* statement of its own; ListRecognizeEntries reads the log twice.
DefaultStatus ==
    [Recent                  |-> "matched",
     ListPaginated           |-> "matched",
     CountRecognizeEntries   |-> "matched",
     ComputeRecognizeSummary |-> "matched",
     ListRecognizeCount      |-> "matched",
     ListRecognizePage       |-> "matched",
     ListUnmatched           |-> "matched",
     ComputeStats            |-> "matched"]

Readers == DOMAIN DefaultStatus

\* The status entry e has for a reader.
ReadStatus(reader, e) == IF e.status = "" THEN DefaultStatus[reader] ELSE e.status

\* The indices Recent(n) returns; the highest index is the newest entry.
RecentIndices(log, n) == {i \in DOMAIN log : i > Len(log) - n}

\* Mutant of IsNewestAt: the newest entry, whatever its time.
IsNewestAt_AnyTime(log, n, sec, i) == i \in RecentIndices(log, n) /\ i = Len(log)

\* The entry a promotion takes: the newest of the recent ones whose time,
\* to the second, is the requested one.
IsNewestAt(log, n, sec, i) ==
    /\ i \in RecentIndices(log, n)
    /\ log[i].sec = sec
    /\ \A j \in RecentIndices(log, n) : log[j].sec = sec => j <= i

\* The number of entries that read back with a status.
CountWith(reader, log, status) ==
    Cardinality({i \in DOMAIN log : ReadStatus(reader, log[i]) = status})

\* The scan of ComputeStats; time 0 stands for "never matched".
StatsOf(log) ==
    [checks     |-> Len(log),
     matched    |-> CountWith("ComputeStats", log, "matched"),
     notMatched |-> CountWith("ComputeStats", log, "not_matched"),
     noFace     |-> CountWith("ComputeStats", log, "no_face"),
     last       |-> Max({0} \cup {log[i].sec : i \in
                           {j \in DOMAIN log :
                               ReadStatus("ComputeStats", log[j]) = "matched"}})]

\* Does a reader take e for an entry of the recognize listing?
Recognized(reader, e) ==
    e.endpoint = "recognize" /\ ReadStatus(reader, e) # "no_face"

\* CountRecognizeEntries.
RecognizeCount(log) ==
    Cardinality({i \in DOMAIN log : Recognized("CountRecognizeEntries", log[i])})

\* ComputeRecognizeSummary.
RecognizeSummary(log) ==
    LET reader == "ComputeRecognizeSummary"
        tally(S) == Cardinality({i \in DOMAIN log :
                       Recognized(reader, log[i]) /\ ReadStatus(reader, log[i]) \in S})
    IN  [total      |-> tally(Status),
         matched    |-> tally({"matched"}),
         notMatched |-> tally({"not_matched"})]

\* GetAuditFace: the first entry from the end of the log with that time.
FaceAt(log, sec) == Max({i \in DOMAIN log : log[i].sec = sec})
=============================================================================
