---------------------------- MODULE FaceService ----------------------------
(***************************************************************************)
(* FaceServiceImpl: the requests of face-api that read and write the       *)
(* enrolled users and the audit log, run by any number of HTTP handlers    *)
(* and by the MQTT worker at once.                                         *)
(*                                                                         *)
(* One bbolt transaction (db.View or db.Update) is one step, and so is     *)
(* taking s.mu; everything a handler computes between two of these is part *)
(* of the step before it.  Enroll, promote and the two deletions hold s.mu *)
(* from "read" to their answer; recognition and stream checks never take   *)
(* it.  Each transaction may fail, and the process may crash at any point: *)
(* users and audit are on disk and survive, everything else does not.      *)
(***************************************************************************)
EXTENDS Enrollment, AuditLog

CONSTANTS
    Clients,      \* goroutines serving requests
    Ops,          \* the operations these clients use
    InitUsers,    \* the stored records a name may start with
    Score,        \* Score[f][g]: cosine similarity, in hundredths
    Threshold,    \* similarity needed for a match, in hundredths
    RecentLimit,  \* how many entries a promotion looks at (10000)
    NoFace,       \* an image in which no face is detected
    Free,         \* the mutex has no owner
    MaxAudit,     \* bound: no new audited request beyond this log length
    MaxSec        \* bound on the clock

NoScore == -100   \* the -1.0 that BestEmbeddingScore starts from
Unknown == -1     \* a time no audit entry has

AllOps == {"enroll", "promote", "delete-user", "delete-picture",
           "recognize", "stream-check"}
Writers == {"enroll", "promote", "delete-user", "delete-picture"}

ASSUME ServiceAssumption ==
    /\ Ops \subseteq AllOps
    /\ InitUsers \subseteq User \cup {NoUser}
    /\ Threshold \in 0..100
    /\ RecentLimit \in Nat
    /\ MaxAudit \in Nat
    /\ MaxSec \in Nat
    /\ NoFace \notin Faces
    /\ Free \notin Clients

VARIABLES
    users,   \* bucket Faces: name -> record
    audit,   \* bucket Audit: entries, oldest first
    now,     \* wall clock, in seconds
    mu,      \* owner of FaceServiceImpl.mu
    pc,      \* where each client's handler is
    req,     \* each handler's parameters and locals
    draft,   \* the record a handler is about to save
    reply    \* how each client's last request was answered

vars == <<users, audit, now, mu, pc, req, draft, reply>>

Request == [op : Ops \cup {"none"}, name : Names \cup {Nobody},
            face : Faces \cup {NoFace}, index : Nat, sec : Int]

Call(op, name, face, index, sec) ==
    [op |-> op, name |-> name, face |-> face, index |-> index, sec |-> sec]

NoRequest == Call("none", Nobody, NoFace, 0, Unknown)

Entry == [endpoint : Endpoint, name : Names \cup {Nobody}, matched : BOOLEAN,
          status : Status \cup {""}, face : Faces \cup {NoFace},
          embedded : BOOLEAN, sec : Int]

Init ==
    /\ users \in [Names -> InitUsers]
    /\ audit = <<>>
    /\ now = 0
    /\ mu = Free
    /\ pc = [c \in Clients |-> "idle"]
    /\ req = [c \in Clients |-> NoRequest]
    /\ draft = [c \in Clients |-> NoUser]
    /\ reply = [c \in Clients |-> "none"]
-----------------------------------------------------------------------------
\* c's request r begins, at its first step of the given name.
Begin(c, r, step) ==
    /\ pc[c] = "idle"
    /\ r.op \in Ops
    /\ pc' = [pc EXCEPT ![c] = step]
    /\ req' = [req EXCEPT ![c] = r]
    /\ reply' = [reply EXCEPT ![c] = "none"]
    /\ UNCHANGED <<users, audit, now, mu, draft>>

\* c's handler returns, and its locals go.
Return(c, answer) ==
    /\ pc' = [pc EXCEPT ![c] = "idle"]
    /\ req' = [req EXCEPT ![c] = NoRequest]
    /\ draft' = [draft EXCEPT ![c] = NoUser]
    /\ reply' = [reply EXCEPT ![c] = answer]

GoTo(c, step) == pc' = [pc EXCEPT ![c] = step]

RoomInLog == Len(audit) < MaxAudit

\* EnrollImage up to s.mu.Lock(): the crop has been computed.
StartEnroll(c) ==
    /\ RoomInLog
    /\ \E n \in Names, f \in Faces :
          Begin(c, Call("enroll", n, f, 0, Unknown), "lock")

\* DetectAndCrop fails in an enroll or recognize, or with a connection error in
\* a stream check: the request is answered, and nothing is logged.
RejectImage(c) ==
    /\ pc[c] = "idle"
    /\ Ops \cap {"enroll", "recognize", "stream-check"} # {}
    /\ reply' = [reply EXCEPT ![c] = "failed"]
    /\ UNCHANGED <<users, audit, now, mu, pc, req, draft>>

StartRecognize(c) ==
    /\ RoomInLog
    /\ \E f \in Faces :
          Begin(c, Call("recognize", Nobody, f, 0, Unknown), "list")

\* A frame without a face goes to the audit log straight away.
StartStreamCheck(c) ==
    /\ RoomInLog
    /\ \/ \E f \in Faces :
             Begin(c, Call("stream-check", Nobody, f, 0, Unknown), "list")
       \/ Begin(c, Call("stream-check", Nobody, NoFace, 0, now), "append")

\* The client picked audit entry i (0: it sends a time of no entry); only the
\* entry's time, in seconds, travels with the request.
StartPromote(c) ==
    \E n \in Names, i \in {0} \cup DOMAIN audit :
       Begin(c, Call("promote", n, NoFace, i, IF i = 0 THEN Unknown ELSE audit[i].sec),
             "find")

StartDeleteUser(c) ==
    \E n \in Names :
       Begin(c, Call("delete-user", n, NoFace, 0, Unknown), "lock")

\* The index counts from 0 and comes from a page listed earlier.
StartDeletePicture(c) ==
    \E n \in Names, i \in 0..MaxPicturesPerUser :
       Begin(c, Call("delete-picture", n, NoFace, i, Unknown), "lock")
-----------------------------------------------------------------------------
\* PromoteFromAudit's first transaction, before the mutex: Recent(RecentLimit)
\* and the first entry, newest first, with the requested time.
FindEntry(c) ==
    /\ pc[c] = "find"
    /\ \/ \E i \in DOMAIN audit :
             /\ IsNewestAt(audit, RecentLimit, req[c].sec, i)
             /\ audit[i].embedded
             /\ GoTo(c, "lock")
             /\ req' = [req EXCEPT ![c].face = audit[i].face]
             /\ UNCHANGED <<draft, reply>>
       \/ Return(c, "failed")    \* no such entry, no embedding, or the read failed
    /\ UNCHANGED <<users, audit, now, mu>>

\* Mutant of Acquire: the handler goes on without waiting for the mutex.
Acquire_NoWait(c) ==
    /\ pc[c] = "lock"
    /\ mu' = c
    /\ GoTo(c, "read")
    /\ UNCHANGED <<users, audit, now, req, draft, reply>>

\* s.mu.Lock()
Acquire(c) ==
    /\ pc[c] = "lock"
    /\ mu = Free
    /\ mu' = c
    /\ GoTo(c, "read")
    /\ UNCHANGED <<users, audit, now, req, draft, reply>>

\* Mutant of Release: an early return without Unlock.
Release_Leaks(c, answer) ==
    /\ mu' = IF answer = "failed" THEN mu ELSE Free
    /\ Return(c, answer)

\* Returning from a handler that holds the mutex: the deferred Unlock runs,
\* on the error paths and on a panic too.
Release(c, answer) ==
    /\ mu' = Free
    /\ Return(c, answer)

\* GetByName and the picture limit, in EnrollImage and PromoteFromAudit.
ReadForAdd(c) ==
    LET u == users[req[c].name] IN
    /\ pc[c] = "read"
    /\ req[c].op \in {"enroll", "promote"}
    /\ \/ /\ HasRoom(u)
          /\ GoTo(c, "save")
          /\ draft' = [draft EXCEPT ![c] = WithFace(u, req[c].face)]
          /\ UNCHANGED <<mu, req, reply>>
       \/ Release(c, "failed")    \* the limit is reached, or the read failed
    /\ UNCHANGED <<users, audit, now>>

\* GetByName and the index check of DeletePicture, which looks at Embeddings
\* only; slicing a shorter Pictures list at that index panics.
ReadForDeletePicture(c) ==
    LET u == users[req[c].name] IN
    /\ pc[c] = "read"
    /\ req[c].op = "delete-picture"
    /\ \/ /\ u # NoUser
          /\ req[c].index < Len(u.embeddings)
          /\ req[c].index < Len(u.pictures)
          /\ GoTo(c, "save")
          /\ draft' = [draft EXCEPT ![c] = WithoutPicture(u, req[c].index)]
          /\ UNCHANGED <<mu, req, reply>>
       \/ /\ u # NoUser
          /\ req[c].index < Len(u.embeddings)
          /\ req[c].index >= Len(u.pictures)
          /\ Release(c, "panic")
       \/ Release(c, "failed")    \* no such user or picture, or the read failed
    /\ UNCHANGED <<users, audit, now>>

\* Exists, in DeleteUser.
ReadForDeleteUser(c) ==
    /\ pc[c] = "read"
    /\ req[c].op = "delete-user"
    /\ \/ /\ users[req[c].name] # NoUser
          /\ GoTo(c, "save")
          /\ draft' = [draft EXCEPT ![c] = NoUser]
          /\ UNCHANGED <<mu, req, reply>>
       \/ Release(c, "failed")    \* no such user, or the read failed
    /\ UNCHANGED <<users, audit, now>>

\* Mutant of Save: EnrollImage unlocks before it writes the audit entry.
Save_UnlocksEarly(c) ==
    /\ pc[c] = "save"
    /\ users' = [users EXCEPT ![req[c].name] = draft[c]]
    /\ IF req[c].op = "enroll"
         THEN /\ GoTo(c, "append")
              /\ req' = [req EXCEPT ![c].sec = now]
              /\ mu' = Free
              /\ UNCHANGED <<draft, reply>>
         ELSE Release(c, "ok")
    /\ UNCHANGED <<audit, now>>

\* users.Save or users.Delete; only EnrollImage goes on to the audit log.
Save(c) ==
    /\ pc[c] = "save"
    /\ users' = [users EXCEPT ![req[c].name] = draft[c]]
    /\ IF req[c].op = "enroll"
         THEN /\ GoTo(c, "append")
              /\ req' = [req EXCEPT ![c].sec = now]
              /\ UNCHANGED <<mu, draft, reply>>
         ELSE Release(c, "ok")
    /\ UNCHANGED <<audit, now>>

SaveFails(c) ==
    /\ pc[c] = "save"
    /\ Release(c, "failed")
    /\ UNCHANGED <<users, audit, now>>
-----------------------------------------------------------------------------
\* BestEmbeddingScore of the record stored under n; -1.0 for no record.
UserScore(n, f) ==
    IF users[n] = NoUser
      THEN NoScore
      ELSE Max({NoScore} \cup {Score[f][g] : g \in ToSet(users[n].embeddings)})

\* The scan in key order keeps the first user with the strictly highest score
\* above -1.0, and nobody if there is none.
IsBest(n, f) ==
    IF n = Nobody
      THEN \A m \in Names : UserScore(m, f) = NoScore
      ELSE /\ UserScore(n, f) > NoScore
           /\ \A m \in Names : UserScore(m, f) <= UserScore(n, f)
           /\ \A m \in Names : m < n => UserScore(m, f) < UserScore(n, f)

\* ListAll and the comparison with the threshold; Threshold >= 0 > NoScore, so
\* matched goes with a name.
Match(c) ==
    /\ pc[c] = "list"
    /\ \E n \in Names \cup {Nobody} :
          /\ IsBest(n, req[c].face)
          /\ req' = [req EXCEPT
                ![c].name = IF n # Nobody /\ UserScore(n, req[c].face) >= Threshold
                              THEN n ELSE Nobody,
                ![c].sec = now]
    /\ GoTo(c, "append")
    /\ UNCHANGED <<users, audit, now, mu, draft, reply>>

ListFails(c) ==
    /\ pc[c] = "list"
    /\ Return(c, "failed")
    /\ UNCHANGED <<users, audit, now, mu>>

\* Mutant of EntryOf: a status that is not one of the three.
EntryOf_WrongStatus(r, sec) ==
    [endpoint |-> r.op, name |-> r.name, matched |-> r.name # Nobody,
     status   |-> IF r.op = "stream-check" THEN "unmatched" ELSE "",
     face     |-> r.face,
     embedded |-> r.op # "enroll" /\ r.face # NoFace,
     sec      |-> sec]

\* The entry each operation writes.  EnrollImage and RecognizeImage leave
\* Status unset; EnrollImage and the no-face path store no embedding.
EntryOf(r, sec) ==
    [endpoint |-> r.op, name |-> r.name, matched |-> r.name # Nobody,
     status   |-> CASE r.op # "stream-check" -> ""
                    [] r.op = "stream-check" /\ r.face = NoFace -> "no_face"
                    [] r.op = "stream-check" /\ r.face # NoFace ->
                         IF r.name # Nobody THEN "matched" ELSE "not_matched",
     face     |-> r.face,
     embedded |-> r.op # "enroll" /\ r.face # NoFace,
     sec      |-> sec]

\* audit.Append: time.Now() was read at some moment since the previous step.
AppendEntry(c) ==
    /\ pc[c] = "append"
    /\ \E sec \in req[c].sec..now : audit' = Append(audit, EntryOf(req[c], sec))
    /\ IF req[c].op = "enroll" THEN Release(c, "ok")
                               ELSE Return(c, "ok") /\ UNCHANGED mu
    /\ UNCHANGED <<users, now>>

\* Enroll reports the error although the picture is saved; the others drop it.
AppendFails(c) ==
    /\ pc[c] = "append"
    /\ IF req[c].op = "enroll" THEN Release(c, "failed")
                               ELSE Return(c, "ok") /\ UNCHANGED mu
    /\ UNCHANGED <<users, audit, now>>
-----------------------------------------------------------------------------
\* The process dies and restarts on the same database file.
Crash ==
    /\ mu' = Free
    /\ pc' = [c \in Clients |-> "idle"]
    /\ req' = [c \in Clients |-> NoRequest]
    /\ draft' = [c \in Clients |-> NoUser]
    /\ reply' = [c \in Clients |-> "none"]
    /\ UNCHANGED <<users, audit, now>>

Tick ==
    /\ now < MaxSec
    /\ now' = now + 1
    /\ UNCHANGED <<users, audit, mu, pc, req, draft, reply>>

Start(c) ==
    \/ StartEnroll(c)
    \/ RejectImage(c)
    \/ StartRecognize(c)
    \/ StartStreamCheck(c)
    \/ StartPromote(c)
    \/ StartDeleteUser(c)
    \/ StartDeletePicture(c)

\* The steps of a handler that is running.
Serve(c) ==
    \/ FindEntry(c)
    \/ Acquire(c)
    \/ ReadForAdd(c)
    \/ ReadForDeletePicture(c)
    \/ ReadForDeleteUser(c)
    \/ Save(c)
    \/ SaveFails(c)
    \/ Match(c)
    \/ ListFails(c)
    \/ AppendEntry(c)
    \/ AppendFails(c)

Next ==
    \/ \E c \in Clients : Start(c) \/ Serve(c)
    \/ Crash
    \/ Tick

Spec == Init /\ [][Next]_vars

\* A running handler keeps running, and sync.Mutex hands the lock to a waiter
\* that has waited for a millisecond (starvation mode), so nobody waits forever.
Fairness ==
    \A c \in Clients : WF_vars(Serve(c)) /\ SF_vars(Acquire(c))

LiveSpec == Spec /\ Fairness
-----------------------------------------------------------------------------
TypeOK ==
    /\ users \in [Names -> User \cup {NoUser}]
    /\ audit \in Seq(Entry)
    /\ now \in 0..MaxSec
    /\ mu \in Clients \cup {Free}
    /\ pc \in [Clients -> {"idle", "find", "list", "lock", "read", "save", "append"}]
    /\ req \in [Clients -> Request]
    /\ draft \in [Clients -> User \cup {NoUser}]
    /\ reply \in [Clients -> {"none", "ok", "failed", "panic"}]

InCriticalSection(c) ==
    \/ pc[c] \in {"read", "save"}
    \/ pc[c] = "append" /\ req[c].op = "enroll"

\* At most one handler is between s.mu.Lock() and its deferred Unlock, and it
\* is the owner: the mutex is neither leaked on an error path nor given twice.
MutexHeldByHandler ==
    \A c \in Clients : mu = c <=> InCriticalSection(c)

\* The record a handler is about to save was computed from what the bucket
\* holds at that moment, so Save never overwrites somebody else's change.
DraftIsCurrent ==
    \A c \in Clients : pc[c] = "save" =>
       LET u == users[req[c].name] IN
       CASE req[c].op \in {"enroll", "promote"} ->
              HasRoom(u) /\ draft[c] = WithFace(u, req[c].face)
         [] req[c].op = "delete-picture" ->
              /\ u # NoUser
              /\ req[c].index < Len(u.embeddings)
              /\ req[c].index < Len(u.pictures)
              /\ draft[c] = WithoutPicture(u, req[c].index)
         [] req[c].op = "delete-user" -> u # NoUser /\ draft[c] = NoUser
         [] OTHER -> FALSE

\* Nobody ever has more than MaxPicturesPerUser embeddings, however many
\* enrollments and promotions of one name run at once.  Of pictures there may be
\* more, by as many as some record has had too many since the backfill: the limit
\* is tested on Embeddings only, and no operation makes up a difference.
PicturesBounded ==
    \A n \in Names : users[n] # NoUser =>
       /\ Bounded(users[n])
       /\ \/ Surplus(users[n]) = 0
          \/ \E u \in InitUsers \ {NoUser} : Surplus(users[n]) = Surplus(u)

\* Where every stored record starts aligned, embeddings and pictures stay
\* index-aligned through every mix of enrollments, promotions and deletions.
PicturesAligned ==
    \A n \in Names : users[n] # NoUser => Aligned(users[n])

\* When an enroll entry reaches the audit log, the user it names is enrolled
\* and the newest picture is the logged face: nobody removed, deleted or
\* covered it between EnrollImage's Save and its Append.
EnrollEntryDescribesGallery ==
    [][\A i \in DOMAIN audit' \ DOMAIN audit :
          LET e == audit'[i] IN
          e.endpoint = "enroll" =>
             /\ users[e.name] # NoUser
             /\ Last(users[e.name].pictures) = e.face
             /\ Last(users[e.name].embeddings) = e.face]_audit

Gallery == INSTANCE UserGallery WITH gallery <- users

\* The detailed service implements the atomic gallery.
ImplementsGallery == Gallery!Spec

\* Every request is answered: no error path or panic leaves s.mu locked, and
\* no handler waits for it forever.
RequestsAnswered == \A c \in Clients : pc[c] # "idle" ~> pc[c] = "idle"

\* Deleting a picture never panics: the index check on Embeddings is enough
\* where every record starts aligned.
NoPanic == \A c \in Clients : reply[c] # "panic"

\* The face a promotion is about to enroll is that of the audit entry the client
\* picked, unless another entry was written within the same second: entries that
\* arrive while the promotion runs do not shift it to another face.
PromotesPickedEntryOfUniqueTime ==
    \A c \in Clients :
       (pc[c] = "save" /\ req[c].op = "promote") =>
          LET i == req[c].index IN
          /\ i \in DOMAIN audit
          /\ (\A j \in DOMAIN audit : audit[j].sec = audit[i].sec => j = i)
                => req[c].face = audit[i].face

\* An entry that some reader takes for "matched" is of a face that matched.
MatchedMeansMatched ==
    \A i \in DOMAIN audit, reader \in Readers :
       ReadStatus(reader, audit[i]) = "matched" => audit[i].matched
=============================================================================
