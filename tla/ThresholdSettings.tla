------------------------- MODULE ThresholdSettings -------------------------
(***************************************************************************)
(* The face-match threshold: the live value in FaceServiceImpl, the stored *)
(* one in the bbolt bucket "Settings", and the requests that set it.       *)
(*                                                                         *)
(* SetThreshold validates, then saves in one bbolt transaction, and only   *)
(* then takes s.mu to write the live value, so requests of two clients can *)
(* pass each other between Save and the mutex.  Thresholds are hundredths; *)
(* NaN is what a form field "NaN" parses to.                               *)
(***************************************************************************)
EXTENDS Integers

CONSTANTS
    Setters,      \* goroutines serving a settings request
    Inputs,       \* the values they are sent
    NaN,          \* the float that compares false with everything
    Default,      \* THRESHOLD from the environment, or 0.45
    NoSettings    \* nothing is stored yet

ASSUME ThresholdAssumption ==
    /\ NaN \notin Int
    /\ NoSettings \notin Int \cup {NaN}
    /\ Inputs \subseteq Int \cup {NaN}
    /\ Default \in 0..100

VARIABLES
    stored,   \* Settings.Threshold in the database file, or NoSettings
    live,     \* FaceServiceImpl.threshold
    pc,       \* where each SetThreshold call is
    value,    \* the argument of each call
    written,  \* history: every value that was ever stored
    inForce   \* history: every value that was ever live

vars == <<stored, live, pc, value, written, inForce>>

\* Strictly between 0 and 1, as WithSettingsRepo asks of a stored value.
InOpenRange(v) == v \in 1..99

\* Mutant of Rejected: the upper bound is forgotten.
Rejected_NoUpperBound(v) == v # NaN /\ v <= 0

\* v <= 0 || v >= 1, which is false of NaN.
Rejected(v) == v # NaN /\ ~InOpenRange(v)

\* New and WithSettingsRepo: a valid stored value wins over the environment.
LiveAfterStart(s) ==
    IF s # NoSettings /\ s # NaN /\ InOpenRange(s) THEN s ELSE Default

Init ==
    /\ stored = NoSettings
    /\ live = LiveAfterStart(stored)
    /\ pc = [c \in Setters |-> "idle"]
    /\ value = [c \in Setters |-> Default]
    /\ written = {}
    /\ inForce = {live}

\* SetThreshold(v) with a valid v; an invalid one returns an error at once.
Validate(c) ==
    /\ pc[c] = "idle"
    /\ \E v \in Inputs :
          /\ ~Rejected(v)
          /\ value' = [value EXCEPT ![c] = v]
    /\ pc' = [pc EXCEPT ![c] = "save"]
    /\ UNCHANGED <<stored, live, written, inForce>>

\* Mutant of Save: a format that can hold any float.
Save_AnyFloat(c) ==
    /\ pc[c] = "save"
    /\ stored' = value[c]
    /\ written' = written \cup {value[c]}
    /\ pc' = [pc EXCEPT ![c] = "publish"]
    /\ UNCHANGED <<live, value, inForce>>

\* settings.Save: json.Marshal has no representation of NaN.
Save(c) ==
    /\ pc[c] = "save"
    /\ value[c] # NaN
    /\ stored' = value[c]
    /\ written' = written \cup {value[c]}
    /\ pc' = [pc EXCEPT ![c] = "publish"]
    /\ UNCHANGED <<live, value, inForce>>

\* The call returns; value is set back, nobody reads it before the next one.
Return(c) ==
    /\ pc' = [pc EXCEPT ![c] = "idle"]
    /\ value' = [value EXCEPT ![c] = Default]

\* Mutant of SaveFails: the live value is written although Save failed.
SaveFails_GoesOn(c) ==
    /\ pc[c] = "save"
    /\ pc' = [pc EXCEPT ![c] = "publish"]
    /\ UNCHANGED <<stored, live, value, written, inForce>>

\* The error of a failed Marshal or transaction is returned; live stays.
SaveFails(c) ==
    /\ pc[c] = "save"
    /\ Return(c)
    /\ UNCHANGED <<stored, live, written, inForce>>

\* Mutant of Publish: the value is on disk, and live only after the next start.
Publish_NextStart(c) ==
    /\ pc[c] = "publish"
    /\ Return(c)
    /\ UNCHANGED <<stored, live, written, inForce>>

\* s.mu.Lock(); s.threshold = v; s.mu.Unlock()
Publish(c) ==
    /\ pc[c] = "publish"
    /\ live' = value[c]
    /\ inForce' = inForce \cup {value[c]}
    /\ Return(c)
    /\ UNCHANGED <<stored, written>>

\* The process dies and starts again on the same file.
Restart ==
    /\ live' = LiveAfterStart(stored)
    /\ inForce' = inForce \cup {LiveAfterStart(stored)}
    /\ pc' = [c \in Setters |-> "idle"]
    /\ value' = [c \in Setters |-> Default]
    /\ UNCHANGED <<stored, written>>

Next ==
    \/ \E c \in Setters : Validate(c) \/ Save(c) \/ SaveFails(c) \/ Publish(c)
    \/ Restart

Spec == Init /\ [][Next]_vars
-----------------------------------------------------------------------------
TypeOK ==
    /\ stored \in Int \cup {NoSettings}
    /\ live \in Int
    /\ pc \in [Setters -> {"idle", "save", "publish"}]
    /\ value \in [Setters -> Int \cup {NaN}]
    /\ written \subseteq Int
    /\ inForce \subseteq Int

\* The threshold that recognition compares with is a number that came from the
\* environment or was on disk before: no failed, rejected or NaN setting and no
\* crash ever leaves another one.
LiveWasPersisted == live = Default \/ (live \in written /\ InOpenRange(live))

\* What the next start will use is what the service uses now, unless a
\* SetThreshold call is under way.
QuietMeansPersistent ==
    (\A c \in Setters : pc[c] = "idle") => live = LiveAfterStart(stored)
=============================================================================
