----------------------------- MODULE Statistics -----------------------------
(***************************************************************************)
(* What the statistics page promises to any number of callers: every       *)
(* answer is the statistics of the log as it was at some instant, never    *)
(* made up of two logs and never of a cleared cache.  Answers may go back, *)
(* but only while counts race: what was answered while no other count was  *)
(* waiting to be answered is settled, and no later answer to anyone        *)
(* forgets an entry it has counted.  AuditRepository, with its cache,      *)
(* implements this specification.                                          *)
(***************************************************************************)
EXTENDS Integers, Sequences

CONSTANTS
    Callers,      \* goroutines asking for the statistics
    Entries,      \* the audit entries that get appended
    MaxLog,       \* bound on the length of the log
    StatsOf(_)    \* the statistics of a log; their checks are its length

VARIABLES
    log,          \* oldest entry first
    counting,     \* the callers that have counted and are not answered yet
    answer,       \* what the statistics page showed last, to whomever
    settled       \* how many entries the last settled answer counted

Init ==
    /\ log = <<>>
    /\ counting = {}
    /\ answer = StatsOf(<<>>)
    /\ settled = 0

AppendEntry ==
    /\ Len(log) < MaxLog
    /\ \E e \in Entries : log' = Append(log, e)
    /\ UNCHANGED <<counting, answer, settled>>

Count(c) ==
    /\ c \notin counting
    /\ counting' = counting \cup {c}
    /\ UNCHANGED <<log, answer, settled>>

\* c is answered, from its own count or from somebody's earlier one.
Answer(c) ==
    /\ \E n \in settled .. Len(log) :
          /\ answer' = StatsOf(SubSeq(log, 1, n))
          /\ settled' = IF counting \subseteq {c} THEN n ELSE settled
    /\ counting' = counting \ {c}
    /\ UNCHANGED log

Next == AppendEntry \/ \E c \in Callers : Count(c) \/ Answer(c)

Spec == Init /\ [][Next]_<<log, counting, answer, settled>>
=============================================================================
