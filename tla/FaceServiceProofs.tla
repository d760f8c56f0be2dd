------------------------- MODULE FaceServiceProofs -------------------------
(***************************************************************************)
(* Theorems about FaceService, for any sets of clients, names, faces and   *)
(* operations, any picture limit and any length of the audit log.          *)
(***************************************************************************)
EXTENDS FaceService, EnrollmentProofs

(***************************************************************************)
(* The inductive invariant.  What it says of one handler depends only on   *)
(* that handler's step p, request r and draft d, and on the stored users.  *)
(***************************************************************************)
Steps == {"idle", "find", "list", "lock", "read", "save", "append"}
Replies == {"none", "ok", "failed", "panic"}
StoredUser == User \cup {NoUser}

\* What each step of a handler knows about the request it serves.
Locals(p, r) ==
    /\ p = "find" => r.op = "promote"
    /\ p = "list" => r.op \in {"recognize", "stream-check"}
    /\ p = "append" => r.op \in {"enroll", "recognize", "stream-check"}
    /\ p \in {"lock", "read", "save"} => r.op \in Writers
    /\ r.op \in Writers => r.name \in Names
    /\ r.op = "enroll" => r.face \in Faces
    /\ r.op = "promote" /\ p # "find" => r.face \in Faces

\* Between s.mu.Lock() and the deferred Unlock.
Critical(p, r) == p \in {"read", "save"} \/ (p = "append" /\ r.op = "enroll")

\* The draft is what the operation makes of the stored record.
Current(p, r, d, us) ==
    p = "save" =>
      /\ r.op \in {"enroll", "promote"} =>
            HasRoom(us[r.name]) /\ d = WithFace(us[r.name], r.face)
      /\ r.op = "delete-picture" =>
            /\ us[r.name] # NoUser
            /\ r.index < Len(us[r.name].embeddings)
            /\ r.index < Len(us[r.name].pictures)
            /\ d = WithoutPicture(us[r.name], r.index)
      /\ r.op = "delete-user" => us[r.name] # NoUser /\ d = NoUser

\* Between EnrollImage's Save and its Append, the newest stored picture of the
\* user is the one that is about to be logged.
Saved(p, r, us) ==
    (p = "append" /\ r.op = "enroll") =>
      /\ us[r.name] # NoUser
      /\ Last(us[r.name].pictures) = r.face
      /\ Last(us[r.name].embeddings) = r.face

Handler(p, r, d, us) == Locals(p, r) /\ Current(p, r, d, us) /\ Saved(p, r, us)

\* An entry that can be promoted holds a face.
EmbeddedHaveFace ==
    \A i \in DOMAIN audit : audit[i].embedded => audit[i].face \in Faces

IndInv ==
    /\ TypeOK
    /\ EmbeddedHaveFace
    /\ \A c \in Clients : mu = c <=> Critical(pc[c], req[c])
    /\ \A c \in Clients : Handler(pc[c], req[c], draft[c], users)

\* A step of one client c that sets its step, request, draft and reply to
\* p, r, d and a keeps what the invariant says of every client, if it holds of
\* c afterwards, the mutex passes only between c and nobody, and the users are
\* written only by the owner of the mutex.
LEMMA ClientStep ==
    ASSUME IndInv,
           NEW c \in Clients, NEW p \in Steps, NEW r \in Request,
           NEW d \in StoredUser, NEW a \in Replies,
           pc' = [pc EXCEPT ![c] = p],
           req' = [req EXCEPT ![c] = r],
           draft' = [draft EXCEPT ![c] = d],
           reply' = [reply EXCEPT ![c] = a],
           mu' = mu \/ (mu \in {c, Free} /\ mu' \in {c, Free}),
           users' = users \/ (mu = c /\ users' \in [Names -> StoredUser]),
           mu' = c <=> Critical(p, r),
           Handler(p, r, d, users'),
           audit' \in Seq(Entry), EmbeddedHaveFace', now' = now
    PROVE  IndInv'
<1>1. /\ pc \in [Clients -> Steps]
      /\ req \in [Clients -> Request]
      /\ draft \in [Clients -> StoredUser]
      /\ reply \in [Clients -> Replies]
      /\ mu \in Clients \cup {Free}
      /\ users \in [Names -> StoredUser]
  BY DEF IndInv, TypeOK, Steps, Replies, StoredUser
<1>2. /\ pc' \in [Clients -> Steps]
      /\ req' \in [Clients -> Request]
      /\ draft' \in [Clients -> StoredUser]
      /\ reply' \in [Clients -> Replies]
      /\ mu' \in Clients \cup {Free}
      /\ users' \in [Names -> StoredUser]
  BY <1>1
<1>3. ASSUME NEW e \in Clients
      PROVE  /\ mu' = e <=> Critical(pc'[e], req'[e])
             /\ Handler(pc'[e], req'[e], draft'[e], users')
  <2>1. /\ mu = e <=> Critical(pc[e], req[e])
        /\ Handler(pc[e], req[e], draft[e], users)
    BY DEF IndInv
  <2>2. CASE e = c
    <3>1. pc'[e] = p /\ req'[e] = r /\ draft'[e] = d
      BY <1>1, <2>2
    <3> QED BY <2>2, <3>1
  <2>3. CASE e # c
    <3>1. pc'[e] = pc[e] /\ req'[e] = req[e] /\ draft'[e] = draft[e]
      BY <1>1, <2>3
    <3>2. mu' = e <=> mu = e
      BY <2>3, ServiceAssumption
    <3>3. CASE users' = users
      BY <2>1, <3>1, <3>2, <3>3
    <3>4. CASE mu = c
      <4>1. ~Critical(pc[e], req[e])
        BY <2>1, <2>3, <3>4
      <4>2. Handler(pc[e], req[e], draft[e], users')
        BY <2>1, <4>1 DEF Handler, Critical, Current, Saved
      <4> QED BY <2>1, <3>1, <3>2, <4>2
    <3> QED BY <3>3, <3>4
  <2> QED BY <2>2, <2>3
<1>4. TypeOK'
  BY <1>2 DEF IndInv, TypeOK, Steps, Replies, StoredUser
<1> QED BY <1>3, <1>4 DEF IndInv

\* The same for a step that leaves the users and the audit log alone.
LEMMA QuietStep ==
    ASSUME IndInv,
           NEW c \in Clients, NEW p \in Steps, NEW r \in Request,
           NEW d \in StoredUser, NEW a \in Replies,
           pc' = [pc EXCEPT ![c] = p],
           req' = [req EXCEPT ![c] = r],
           draft' = [draft EXCEPT ![c] = d],
           reply' = [reply EXCEPT ![c] = a],
           mu' = mu \/ (mu \in {c, Free} /\ mu' \in {c, Free}),
           mu' = c <=> Critical(p, r),
           Handler(p, r, d, users),
           UNCHANGED <<users, audit, now>>
    PROVE  IndInv'
<1>1. audit' \in Seq(Entry) /\ EmbeddedHaveFace' /\ now' = now /\ users' = users
  BY DEF IndInv, TypeOK, EmbeddedHaveFace
<1> QED BY <1>1, ClientStep

\* Starting a request, at a step outside the critical section.
LEMMA BeginStep ==
    ASSUME IndInv, NEW c \in Clients, NEW r \in Request, NEW p \in Steps,
           Begin(c, r, p), Locals(p, r), ~Critical(p, r)
    PROVE  IndInv'
<1>1. /\ draft' = [draft EXCEPT ![c] = draft[c]]
      /\ draft[c] \in StoredUser
      /\ reply' = [reply EXCEPT ![c] = "none"]
      /\ "none" \in Replies
  BY DEF Begin, IndInv, TypeOK, StoredUser, Replies
<1>2. mu' = mu /\ mu # c
  BY DEF Begin, IndInv, Critical
<1>3. Handler(p, r, draft[c], users)
  BY DEF Critical, Handler, Current, Saved
<1> QED BY <1>1, <1>2, <1>3, QuietStep DEF Begin

\* An answer without any other effect, from inside or outside the critical
\* section.
LEMMA ReturnStep ==
    ASSUME IndInv, NEW c \in Clients, NEW a \in Replies,
           Return(c, a),
           mu' = IF mu = c THEN Free ELSE mu,
           audit' \in Seq(Entry), EmbeddedHaveFace',
           users' = users \/ (mu = c /\ users' \in [Names -> StoredUser]),
           now' = now
    PROVE  IndInv'
<1>1. NoRequest \in Request /\ "idle" \in Steps /\ NoUser \in StoredUser
  BY ServiceAssumption DEF NoRequest, Call, Request, Steps, StoredUser, Unknown
<1>2. ~Critical("idle", NoRequest) /\ Handler("idle", NoRequest, NoUser, users')
  BY ServiceAssumption
     DEF Critical, Handler, Locals, Current, Saved, NoRequest, Call, Writers
<1>3. mu' # c /\ (mu' = mu \/ (mu \in {c, Free} /\ mu' \in {c, Free}))
  BY ServiceAssumption
<1> QED BY <1>1, <1>2, <1>3, ClientStep DEF Return

\* Every request that begins is well formed and outside the critical section.
LEMMA StartPreserves ==
    ASSUME IndInv, NEW c \in Clients, Start(c)
    PROVE  IndInv'
<1> USE DEF Locals, Critical, Writers, Steps, Request, Call, Nobody, Unknown
<1>1. CASE StartEnroll(c)
  <2>1. PICK n \in Names, f \in Faces :
           Begin(c, Call("enroll", n, f, 0, Unknown), "lock")
    BY <1>1 DEF StartEnroll
  <2> DEFINE r == Call("enroll", n, f, 0, Unknown)
  <2>2. r.op \in Ops
    BY <2>1 DEF Begin
  <2>3. r \in Request /\ Locals("lock", r) /\ ~Critical("lock", r)
    BY <2>1, <2>2
  <2> QED BY <2>1, <2>3, BeginStep
<1>2. CASE RejectImage(c)
  <2>1. /\ audit' \in Seq(Entry) /\ reply' \in [Clients -> Replies]
        /\ reply \in [Clients -> Replies]
    BY <1>2 DEF RejectImage, IndInv, TypeOK, Replies
  <2>2. TypeOK'
    BY <1>2, <2>1 DEF RejectImage, IndInv, TypeOK, Replies
  <2> QED BY <1>2, <2>2 DEF RejectImage, IndInv, EmbeddedHaveFace
<1>3. CASE StartRecognize(c)
  <2>1. PICK f \in Faces :
           Begin(c, Call("recognize", Nobody, f, 0, Unknown), "list")
    BY <1>3 DEF StartRecognize
  <2> DEFINE r == Call("recognize", Nobody, f, 0, Unknown)
  <2>2. r.op \in Ops
    BY <2>1 DEF Begin
  <2>3. r \in Request /\ Locals("list", r) /\ ~Critical("list", r)
    BY <2>1, <2>2
  <2> QED BY <2>1, <2>3, BeginStep
<1>4. CASE StartStreamCheck(c)
  <2>1. CASE \E f \in Faces :
           Begin(c, Call("stream-check", Nobody, f, 0, Unknown), "list")
    <3>1. PICK f \in Faces :
             Begin(c, Call("stream-check", Nobody, f, 0, Unknown), "list")
      BY <2>1
    <3> DEFINE r == Call("stream-check", Nobody, f, 0, Unknown)
    <3>2. r.op \in Ops
      BY <3>1 DEF Begin
    <3>3. r \in Request /\ Locals("list", r) /\ ~Critical("list", r)
      BY <3>1, <3>2
    <3> QED BY <3>1, <3>3, BeginStep
  <2>2. CASE Begin(c, Call("stream-check", Nobody, NoFace, 0, now), "append")
    <3> DEFINE r == Call("stream-check", Nobody, NoFace, 0, now)
    <3>1. r.op \in Ops /\ now \in Int
      BY <2>2, ServiceAssumption DEF Begin, IndInv, TypeOK
    <3>2. r \in Request /\ Locals("append", r) /\ ~Critical("append", r)
      BY <3>1
    <3> QED BY <2>2, <3>2, BeginStep
  <2> QED BY <1>4, <2>1, <2>2 DEF StartStreamCheck
<1>5. CASE StartPromote(c)
  <2>1. PICK n \in Names, i \in {0} \cup DOMAIN audit :
           Begin(c, Call("promote", n, NoFace, i,
                         IF i = 0 THEN Unknown ELSE audit[i].sec), "find")
    BY <1>5 DEF StartPromote
  <2> DEFINE sec == IF i = 0 THEN Unknown ELSE audit[i].sec
             r == Call("promote", n, NoFace, i, sec)
  <2>2. r.op \in Ops
    BY <2>1 DEF Begin
  <2>3. i \in Nat /\ (i # 0 => audit[i] \in Entry)
    BY <2>1, ElementOfSeq DEF IndInv, TypeOK
  <2>4. sec \in Int
    <3>1. CASE i = 0
      BY <3>1
    <3>2. CASE i # 0
      <4>1. audit[i].sec \in Int
        BY <2>3, <3>2 DEF Entry
      <4> QED BY <3>2, <4>1
    <3> QED BY <3>1, <3>2
  <2>5. r \in Request
    BY <2>1, <2>2, <2>3, <2>4
  <2>6. Locals("find", r) /\ ~Critical("find", r)
    BY <2>1
  <2> QED BY <2>1, <2>5, <2>6, BeginStep
<1>6. CASE StartDeleteUser(c)
  <2>1. PICK n \in Names :
           Begin(c, Call("delete-user", n, NoFace, 0, Unknown), "lock")
    BY <1>6 DEF StartDeleteUser
  <2> DEFINE r == Call("delete-user", n, NoFace, 0, Unknown)
  <2>2. r.op \in Ops
    BY <2>1 DEF Begin
  <2>3. r \in Request /\ Locals("lock", r) /\ ~Critical("lock", r)
    BY <2>1, <2>2
  <2> QED BY <2>1, <2>3, BeginStep
<1>7. CASE StartDeletePicture(c)
  <2>1. PICK n \in Names, i \in 0..MaxPicturesPerUser :
           Begin(c, Call("delete-picture", n, NoFace, i, Unknown), "lock")
    BY <1>7 DEF StartDeletePicture
  <2> DEFINE r == Call("delete-picture", n, NoFace, i, Unknown)
  <2>2. r.op \in Ops
    BY <2>1 DEF Begin
  <2>3. r \in Request /\ Locals("lock", r) /\ ~Critical("lock", r)
    BY <2>1, <2>2, EnrollmentAssumption
  <2> QED BY <2>1, <2>3, BeginStep
<1> QED BY <1>1, <1>2, <1>3, <1>4, <1>5, <1>6, <1>7 DEF Start

\* The parts of the invariant that a running handler uses.
LEMMA RunningHandler ==
    ASSUME IndInv, NEW c \in Clients
    PROVE  /\ pc[c] \in Steps /\ req[c] \in Request
           /\ draft[c] \in StoredUser /\ reply[c] \in Replies
           /\ pc = [pc EXCEPT ![c] = pc[c]]
           /\ req = [req EXCEPT ![c] = req[c]]
           /\ draft = [draft EXCEPT ![c] = draft[c]]
           /\ reply = [reply EXCEPT ![c] = reply[c]]
           /\ mu = c <=> Critical(pc[c], req[c])
           /\ Handler(pc[c], req[c], draft[c], users)
           /\ users \in [Names -> StoredUser]
           /\ audit \in Seq(Entry) /\ now \in Int
BY ServiceAssumption DEF IndInv, TypeOK, Steps, Replies, StoredUser

\* Finding the audit entry to promote hands the handler a face and no lock.
LEMMA FindEntryPreserves ==
    ASSUME IndInv, NEW c \in Clients, FindEntry(c)
    PROVE  IndInv'
<1>1. pc[c] = "find" /\ UNCHANGED <<users, audit, now, mu>> /\ mu # c
  BY RunningHandler DEF FindEntry, Critical
<1>2. CASE Return(c, "failed")
  <2>1. audit' \in Seq(Entry) /\ EmbeddedHaveFace'
    BY <1>1 DEF IndInv, TypeOK, EmbeddedHaveFace
  <2> QED BY <1>1, <1>2, <2>1, ReturnStep DEF Replies
<1>3. CASE \E i \in DOMAIN audit :
              /\ audit[i].embedded
              /\ GoTo(c, "lock")
              /\ req' = [req EXCEPT ![c].face = audit[i].face]
              /\ UNCHANGED <<draft, reply>>
  <2>1. PICK i \in DOMAIN audit :
           /\ audit[i].embedded
           /\ GoTo(c, "lock")
           /\ req' = [req EXCEPT ![c].face = audit[i].face]
           /\ UNCHANGED <<draft, reply>>
    BY <1>3
  <2> DEFINE r == [req[c] EXCEPT !.face = audit[i].face]
  <2>2. audit[i].face \in Faces
    BY <2>1 DEF IndInv, EmbeddedHaveFace
  <2>3. r \in Request
    BY <2>2, RunningHandler DEF Request
  <2>4. r.op = "promote" /\ r.name \in Names /\ r.face \in Faces
    BY <1>1, <2>2, RunningHandler DEF Handler, Locals, Request, Writers
  <2>5. ~Critical("lock", r) /\ Handler("lock", r, draft[c], users)
    BY <2>4 DEF Critical, Handler, Locals, Current, Saved, Writers
  <2>6. /\ pc' = [pc EXCEPT ![c] = "lock"] /\ "lock" \in Steps
        /\ req' = [req EXCEPT ![c] = r]
        /\ draft' = [draft EXCEPT ![c] = draft[c]]
        /\ reply' = [reply EXCEPT ![c] = reply[c]]
    BY <2>1, RunningHandler DEF GoTo, Steps
  <2> HIDE DEF r
  <2> QED BY <1>1, <2>3, <2>5, <2>6, RunningHandler, QuietStep
<1> QED BY <1>2, <1>3 DEF FindEntry

\* s.mu.Lock() makes the handler the owner of a mutex nobody had.
LEMMA AcquirePreserves ==
    ASSUME IndInv, NEW c \in Clients, Acquire(c)
    PROVE  IndInv'
<1>1. /\ pc[c] = "lock" /\ mu = Free /\ mu' = c
      /\ UNCHANGED <<users, audit, now, req, draft, reply>>
      /\ pc' = [pc EXCEPT ![c] = "read"] /\ "read" \in Steps
  BY DEF Acquire, GoTo, Steps
<1>2. Critical("read", req[c]) /\ Handler("read", req[c], draft[c], users)
  BY <1>1, RunningHandler DEF Critical, Handler, Locals, Current, Saved
<1> QED BY <1>1, <1>2, RunningHandler, QuietStep

\* Answering and unlocking without any other effect.
LEMMA ReleaseStep ==
    ASSUME IndInv, NEW c \in Clients, NEW a \in Replies,
           Release(c, a), Critical(pc[c], req[c]),
           UNCHANGED <<users, audit, now>>
    PROVE  IndInv'
<1>1. mu = c
  BY RunningHandler
<1>2. audit' \in Seq(Entry) /\ EmbeddedHaveFace'
  BY DEF IndInv, TypeOK, EmbeddedHaveFace
<1> QED BY <1>1, <1>2, ReturnStep DEF Release

\* Going from "read" to "save" with a draft made of the stored record.
LEMMA DraftStep ==
    ASSUME IndInv, NEW c \in Clients, NEW d \in StoredUser,
           pc[c] = "read", GoTo(c, "save"),
           draft' = [draft EXCEPT ![c] = d],
           UNCHANGED <<mu, req, reply, users, audit, now>>,
           Current("save", req[c], d, users)
    PROVE  IndInv'
<1>1. Critical("read", req[c]) /\ Critical("save", req[c]) /\ "save" \in Steps
  BY DEF Critical, Steps
<1>2. Handler("save", req[c], d, users)
  BY RunningHandler DEF Handler, Locals, Saved
<1>3. mu' = c
  BY <1>1, RunningHandler
<1> QED BY <1>1, <1>2, <1>3, RunningHandler, QuietStep DEF GoTo

\* The draft of an enrollment or promotion is the stored record and one face more.
LEMMA ReadForAddPreserves ==
    ASSUME IndInv, NEW c \in Clients, ReadForAdd(c)
    PROVE  IndInv'
<1> DEFINE u == users[req[c].name]
<1>1. /\ pc[c] = "read" /\ req[c].op \in {"enroll", "promote"}
      /\ UNCHANGED <<users, audit, now>>
  BY DEF ReadForAdd
<1>2. req[c].name \in Names /\ req[c].face \in Faces /\ u \in StoredUser
  BY <1>1, RunningHandler DEF Handler, Locals, Writers
<1>3. CASE Release(c, "failed")
  BY <1>1, <1>3, ReleaseStep DEF Critical, Replies
<1>4. CASE /\ HasRoom(u)
           /\ GoTo(c, "save")
           /\ draft' = [draft EXCEPT ![c] = WithFace(u, req[c].face)]
           /\ UNCHANGED <<mu, req, reply>>
  <2>1. WithFace(u, req[c].face) \in StoredUser
    BY <1>2, WithFaceProperties DEF StoredUser
  <2>2. Current("save", req[c], WithFace(u, req[c].face), users)
    BY <1>1, <1>4 DEF Current
  <2> QED BY <1>1, <1>4, <2>1, <2>2, DraftStep
<1> QED BY <1>3, <1>4 DEF ReadForAdd

\* The draft of a picture deletion is the stored record without that picture,
\* also when the read ends in a panic that unlocks.
LEMMA ReadForDeletePicturePreserves ==
    ASSUME IndInv, NEW c \in Clients, ReadForDeletePicture(c)
    PROVE  IndInv'
<1> DEFINE u == users[req[c].name]
<1>1. /\ pc[c] = "read" /\ req[c].op = "delete-picture"
      /\ UNCHANGED <<users, audit, now>>
  BY DEF ReadForDeletePicture
<1>2. req[c].name \in Names /\ req[c].index \in Nat /\ u \in StoredUser
  BY <1>1, RunningHandler DEF Handler, Locals, Writers, Request
<1>3. CASE Release(c, "failed") \/ Release(c, "panic")
  BY <1>1, <1>3, ReleaseStep DEF Critical, Replies
<1>4. CASE /\ u # NoUser
           /\ req[c].index < Len(u.embeddings)
           /\ req[c].index < Len(u.pictures)
           /\ GoTo(c, "save")
           /\ draft' = [draft EXCEPT ![c] = WithoutPicture(u, req[c].index)]
           /\ UNCHANGED <<mu, req, reply>>
  <2>1. WithoutPicture(u, req[c].index) \in StoredUser
    BY <1>2, <1>4, WithoutPictureProperties DEF StoredUser
  <2>2. Current("save", req[c], WithoutPicture(u, req[c].index), users)
    BY <1>1, <1>4 DEF Current
  <2> QED BY <1>1, <1>4, <2>1, <2>2, DraftStep
<1> QED BY <1>3, <1>4 DEF ReadForDeletePicture

\* The deletion of a user goes on only for a user that is stored.
LEMMA ReadForDeleteUserPreserves ==
    ASSUME IndInv, NEW c \in Clients, ReadForDeleteUser(c)
    PROVE  IndInv'
<1>1. /\ pc[c] = "read" /\ req[c].op = "delete-user"
      /\ UNCHANGED <<users, audit, now>>
  BY DEF ReadForDeleteUser
<1>2. CASE Release(c, "failed")
  BY <1>1, <1>2, ReleaseStep DEF Critical, Replies
<1>3. CASE /\ users[req[c].name] # NoUser
           /\ GoTo(c, "save")
           /\ draft' = [draft EXCEPT ![c] = NoUser]
           /\ UNCHANGED <<mu, req, reply>>
  BY <1>1, <1>3, DraftStep DEF Current, StoredUser
<1> QED BY <1>2, <1>3 DEF ReadForDeleteUser

\* What a Save writes: the record its operation makes of the stored one, which
\* is what the bucket still holds.
LEMMA SaveWritesCurrent ==
    ASSUME IndInv, NEW c \in Clients, Save(c)
    PROVE  /\ mu = c /\ req[c].op \in Writers /\ req[c].name \in Names
           /\ draft[c] \in StoredUser
           /\ users' = [users EXCEPT ![req[c].name] = draft[c]]
           /\ users'[req[c].name] = draft[c]
           /\ Current("save", req[c], draft[c], users)
           /\ req[c].op \in {"enroll", "promote"} => req[c].face \in Faces
<1>1. pc[c] = "save" /\ users' = [users EXCEPT ![req[c].name] = draft[c]]
  BY DEF Save
<1> QED BY <1>1, RunningHandler DEF Critical, Handler, Locals, Writers

\* Saving the draft keeps every other draft and every pending audit entry true.
LEMMA SavePreserves ==
    ASSUME IndInv, NEW c \in Clients, Save(c)
    PROVE  IndInv'
<1>1. pc[c] = "save" /\ UNCHANGED <<audit, now>>
  BY DEF Save
<1>2. mu = c /\ users' \in [Names -> StoredUser] /\ users'[req[c].name] = draft[c]
  BY SaveWritesCurrent, RunningHandler
<1>3. audit' \in Seq(Entry) /\ EmbeddedHaveFace'
  BY <1>1 DEF IndInv, TypeOK, EmbeddedHaveFace
<1>4. CASE req[c].op # "enroll"
  <2>1. Release(c, "ok")
    BY <1>4 DEF Save
  <2> QED BY <1>1, <1>2, <1>3, <2>1, ReturnStep DEF Release, Replies
<1>5. CASE req[c].op = "enroll"
  <2> DEFINE r == [req[c] EXCEPT !.sec = now]
  <2>1. /\ GoTo(c, "append")
        /\ req' = [req EXCEPT ![c].sec = now]
        /\ UNCHANGED <<mu, draft, reply>>
    BY <1>5 DEF Save
  <2>2. r \in Request
    BY RunningHandler DEF Request
  <2>3. r.op = "enroll" /\ r.name = req[c].name /\ r.face = req[c].face
    BY <1>5, RunningHandler DEF Request
  <2>4. r.name \in Names /\ r.face \in Faces
    BY <1>5, <2>3, SaveWritesCurrent
  <2>5. users[r.name] \in StoredUser
    BY <2>4, RunningHandler
  <2>6. draft[c] = WithFace(users[r.name], r.face)
    BY <1>5, <2>3, SaveWritesCurrent DEF Current
  <2>7. Saved("append", r, users')
    <3>1. users'[r.name] = WithFace(users[r.name], r.face)
      BY <1>2, <2>3, <2>6
    <3>2. /\ WithFace(users[r.name], r.face) # NoUser
          /\ Last(WithFace(users[r.name], r.face).pictures) = r.face
          /\ Last(WithFace(users[r.name], r.face).embeddings) = r.face
      BY <2>4, <2>5, WithFaceProperties DEF StoredUser
    <3> QED BY <3>1, <3>2 DEF Saved
  <2>8. Critical("append", r) /\ Handler("append", r, draft[c], users')
    BY <2>3, <2>4, <2>7 DEF Critical, Handler, Locals, Current, Writers
  <2>9. /\ pc' = [pc EXCEPT ![c] = "append"] /\ "append" \in Steps
        /\ req' = [req EXCEPT ![c] = r]
        /\ draft' = [draft EXCEPT ![c] = draft[c]]
        /\ reply' = [reply EXCEPT ![c] = reply[c]]
    BY <2>1, RunningHandler DEF GoTo, Steps
  <2> HIDE DEF r
  <2> QED BY <1>1, <1>2, <1>3, <2>1, <2>2, <2>8, <2>9, RunningHandler, ClientStep
<1> QED BY <1>4, <1>5

\* A failed Save unlocks and changes nothing.
LEMMA SaveFailsPreserves ==
    ASSUME IndInv, NEW c \in Clients, SaveFails(c)
    PROVE  IndInv'
BY ReleaseStep DEF SaveFails, Critical, Replies

\* A recognition writes only its own name and time.
LEMMA MatchPreserves ==
    ASSUME IndInv, NEW c \in Clients, Match(c)
    PROVE  IndInv'
<1>1. /\ pc[c] = "list" /\ GoTo(c, "append")
      /\ UNCHANGED <<users, audit, now, mu, draft, reply>>
  BY DEF Match
<1>2. PICK n \in Names \cup {Nobody} :
         req' = [req EXCEPT
            ![c].name = IF n # Nobody /\ UserScore(n, req[c].face) >= Threshold
                          THEN n ELSE Nobody,
            ![c].sec = now]
  BY DEF Match
<1> DEFINE name == IF n # Nobody /\ UserScore(n, req[c].face) >= Threshold
                     THEN n ELSE Nobody
           r == [req[c] EXCEPT !.name = name, !.sec = now]
<1>3. name \in Names \cup {Nobody} /\ now \in Int
  BY RunningHandler
<1>4. req' = [req EXCEPT ![c] = r]
  BY <1>2, RunningHandler
<1> HIDE DEF name
<1>5. r \in Request /\ r.op = req[c].op
  BY <1>3, RunningHandler DEF Request
<1>6. r.op \in {"recognize", "stream-check"}
  BY <1>1, <1>5, RunningHandler DEF Handler, Locals
<1>7. ~Critical("append", r) /\ Handler("append", r, draft[c], users)
  BY <1>6 DEF Critical, Handler, Locals, Current, Saved, Writers
<1>8. mu # c
  BY <1>1, RunningHandler DEF Critical
<1>9. /\ pc' = [pc EXCEPT ![c] = "append"] /\ "append" \in Steps
      /\ draft' = [draft EXCEPT ![c] = draft[c]]
      /\ reply' = [reply EXCEPT ![c] = reply[c]]
  BY <1>1, RunningHandler DEF GoTo, Steps
<1> HIDE DEF r
<1> QED BY <1>1, <1>4, <1>5, <1>7, <1>8, <1>9, RunningHandler, QuietStep

\* A failed ListAll ends a request that holds no lock.
LEMMA ListFailsPreserves ==
    ASSUME IndInv, NEW c \in Clients, ListFails(c)
    PROVE  IndInv'
<1>1. pc[c] = "list" /\ Return(c, "failed") /\ UNCHANGED <<users, audit, now, mu>>
  BY DEF ListFails
<1>2. audit' \in Seq(Entry) /\ EmbeddedHaveFace' /\ mu # c
  BY <1>1, RunningHandler DEF IndInv, TypeOK, EmbeddedHaveFace, Critical
<1> QED BY <1>1, <1>2, ReturnStep DEF Replies

\* The handlers that append: enroll unlocks, the others hold no lock.
LEMMA AppendReturns ==
    ASSUME IndInv, NEW c \in Clients, pc[c] = "append", NEW a \in Replies,
           \/ req[c].op = "enroll" /\ Release(c, a)
           \/ req[c].op # "enroll" /\ Return(c, "ok") /\ UNCHANGED mu,
           audit' \in Seq(Entry), EmbeddedHaveFace',
           UNCHANGED <<users, now>>
    PROVE  IndInv'
<1>1. mu = c <=> req[c].op = "enroll"
  BY RunningHandler DEF Critical
<1>2. CASE req[c].op = "enroll"
  BY <1>1, <1>2, ReturnStep DEF Release
<1>3. CASE req[c].op # "enroll"
  BY <1>1, <1>3, ReturnStep DEF Replies
<1> QED BY <1>2, <1>3

\* The entry of a handler at "append" is well formed.
LEMMA EntryOfType ==
    ASSUME IndInv, NEW c \in Clients, pc[c] = "append", NEW sec \in Int
    PROVE  /\ EntryOf(req[c], sec) \in Entry
           /\ EntryOf(req[c], sec).embedded => EntryOf(req[c], sec).face \in Faces
           /\ EntryOf(req[c], sec).endpoint = req[c].op
           /\ EntryOf(req[c], sec).name = req[c].name
           /\ EntryOf(req[c], sec).face = req[c].face
<1> DEFINE r == req[c]
           e == EntryOf(r, sec)
<1>1. r.name \in Names \cup {Nobody} /\ r.face \in Faces \cup {NoFace}
  BY RunningHandler DEF Request
<1>2. r.op \in Endpoint
  BY RunningHandler DEF Handler, Locals, Endpoint
<1>3. /\ e.endpoint = r.op /\ e.name = r.name /\ e.face = r.face /\ e.sec = sec
      /\ e.matched = (r.name # Nobody)
      /\ e.embedded = (r.op # "enroll" /\ r.face # NoFace)
  BY DEF EntryOf
<1>4. e.status \in Status \cup {""}
  BY <1>2 DEF EntryOf, Status, Endpoint
<1>5. e = [endpoint |-> e.endpoint, name |-> e.name, matched |-> e.matched,
           status |-> e.status, face |-> e.face, embedded |-> e.embedded,
           sec |-> e.sec]
  BY DEF EntryOf
<1>6. e.matched \in BOOLEAN /\ e.embedded \in BOOLEAN
  BY <1>3
<1>7. e.embedded => e.face \in Faces
  BY <1>1, <1>3
<1> HIDE DEF e
<1>8. e \in Entry
  BY <1>1, <1>2, <1>3, <1>4, <1>5, <1>6 DEF Entry
<1> QED BY <1>3, <1>7, <1>8 DEF e

\* Appending an entry keeps the audit log well typed and unlocks after an enroll.
LEMMA AppendEntryPreserves ==
    ASSUME IndInv, NEW c \in Clients, AppendEntry(c)
    PROVE  IndInv'
<1>1. pc[c] = "append" /\ UNCHANGED <<users, now>>
  BY DEF AppendEntry
<1>2. PICK sec \in req[c].sec..now : audit' = Append(audit, EntryOf(req[c], sec))
  BY DEF AppendEntry
<1> DEFINE e == EntryOf(req[c], sec)
<1>3. sec \in Int
  BY <1>2, RunningHandler DEF Request
<1>4. e \in Entry /\ (e.embedded => e.face \in Faces)
  BY <1>1, <1>3, EntryOfType
<1> HIDE DEF e
<1>5. audit' = Append(audit, e) /\ audit \in Seq(Entry)
  BY <1>2, RunningHandler DEF e
<1>6. audit' \in Seq(Entry)
  BY <1>4, <1>5
<1>7. \A i \in DOMAIN audit' : (i \in DOMAIN audit /\ audit'[i] = audit[i]) \/ audit'[i] = e
  BY <1>4, <1>5
<1>8. EmbeddedHaveFace'
  BY <1>4, <1>7 DEF IndInv, EmbeddedHaveFace
<1>9. \/ req[c].op = "enroll" /\ Release(c, "ok")
      \/ req[c].op # "enroll" /\ Return(c, "ok") /\ UNCHANGED mu
  BY DEF AppendEntry
<1> QED BY <1>1, <1>6, <1>8, <1>9, AppendReturns DEF Replies

\* A failed Append unlocks after an enroll and leaves the picture saved.
LEMMA AppendFailsPreserves ==
    ASSUME IndInv, NEW c \in Clients, AppendFails(c)
    PROVE  IndInv'
<1>1. pc[c] = "append" /\ UNCHANGED <<users, audit, now>>
  BY DEF AppendFails
<1>2. audit' \in Seq(Entry) /\ EmbeddedHaveFace'
  BY <1>1 DEF IndInv, TypeOK, EmbeddedHaveFace
<1>3. \/ req[c].op = "enroll" /\ Release(c, "failed")
      \/ req[c].op # "enroll" /\ Return(c, "ok") /\ UNCHANGED mu
  BY DEF AppendFails
<1> QED BY <1>1, <1>2, <1>3, AppendReturns DEF Replies

\* After a restart no request is under way and nobody owns the mutex.
LEMMA CrashPreserves == IndInv /\ Crash => IndInv'
<1> SUFFICES ASSUME IndInv, Crash PROVE IndInv'
  OBVIOUS
<1>1. /\ mu' = Free
      /\ \A c \in Clients : pc'[c] = "idle" /\ req'[c] = NoRequest /\ draft'[c] = NoUser
      /\ UNCHANGED <<users, audit, now>>
  BY DEF Crash
<1>2. NoRequest \in Request
  BY DEF NoRequest, Call, Request, Unknown
<1>3. TypeOK'
  BY <1>1, <1>2 DEF Crash, IndInv, TypeOK
<1>4. ~Critical("idle", NoRequest) /\ Handler("idle", NoRequest, NoUser, users')
  BY DEF Critical, Handler, Locals, Current, Saved, NoRequest, Call, Writers
<1>5. \A c \in Clients : mu' = c <=> Critical(pc'[c], req'[c])
  BY <1>1, <1>4, ServiceAssumption
<1>6. \A c \in Clients : Handler(pc'[c], req'[c], draft'[c], users')
  BY <1>1, <1>4
<1>7. EmbeddedHaveFace'
  BY <1>1 DEF IndInv, EmbeddedHaveFace
<1> QED BY <1>3, <1>5, <1>6, <1>7 DEF IndInv

\* The invariant holds when the process first starts.
LEMMA InitIndInv == Init => IndInv
<1> SUFFICES ASSUME Init PROVE IndInv
  OBVIOUS
<1>1. /\ mu = Free /\ audit = <<>>
      /\ \A c \in Clients : pc[c] = "idle" /\ req[c] = NoRequest /\ draft[c] = NoUser
  BY DEF Init
<1>2. NoRequest \in Request
  BY DEF NoRequest, Call, Request, Unknown
<1>3. users \in [Names -> User \cup {NoUser}] /\ now \in 0..MaxSec
  BY ServiceAssumption DEF Init
<1>4. audit \in Seq(Entry) /\ EmbeddedHaveFace
  BY <1>1 DEF EmbeddedHaveFace
<1>5. TypeOK
  BY <1>1, <1>2, <1>3, <1>4 DEF Init, TypeOK
<1>6. ~Critical("idle", NoRequest) /\ Handler("idle", NoRequest, NoUser, users)
  BY DEF Critical, Handler, Locals, Current, Saved, NoRequest, Call, Writers
<1>7. \A c \in Clients : mu = c <=> Critical(pc[c], req[c])
  BY <1>1, <1>6, ServiceAssumption
<1>8. \A c \in Clients : Handler(pc[c], req[c], draft[c], users)
  BY <1>1, <1>6
<1> QED BY <1>4, <1>5, <1>7, <1>8 DEF IndInv

\* Every step of the service keeps the invariant.
LEMMA NextPreserves == IndInv /\ [Next]_vars => IndInv'
<1> SUFFICES ASSUME IndInv, [Next]_vars PROVE IndInv'
  OBVIOUS
<1>1. ASSUME NEW c \in Clients, Start(c) PROVE IndInv'
  BY <1>1, StartPreserves
<1>2. ASSUME NEW c \in Clients, Serve(c) PROVE IndInv'
  BY <1>2, FindEntryPreserves, AcquirePreserves, ReadForAddPreserves,
     ReadForDeletePicturePreserves, ReadForDeleteUserPreserves, SavePreserves,
     SaveFailsPreserves, MatchPreserves, ListFailsPreserves,
     AppendEntryPreserves, AppendFailsPreserves DEF Serve
<1>3. CASE Crash
  BY <1>3, CrashPreserves
<1>4. CASE Tick
  <2>1. now' \in 0..MaxSec
    BY <1>4, ServiceAssumption DEF Tick, IndInv, TypeOK
  <2>2. TypeOK'
    BY <1>4, <2>1 DEF Tick, IndInv, TypeOK
  <2> QED BY <1>4, <2>2 DEF Tick, IndInv, EmbeddedHaveFace
<1>5. CASE UNCHANGED vars
  BY <1>5 DEF vars, IndInv, TypeOK, EmbeddedHaveFace
<1> QED BY <1>1, <1>2, <1>3, <1>4, <1>5 DEF Next

\* The inductive invariant holds in every reachable state.
LEMMA IndInvHolds == Spec => []IndInv
BY InitIndInv, NextPreserves, PTL DEF Spec

(***************************************************************************)
(* The theorems.                                                           *)
(***************************************************************************)

\* Every variable keeps its type: in particular what is stored under a name is
\* always a well-formed record, whatever runs concurrently or crashes.
THEOREM TypeCorrectness == Spec => []TypeOK
<1>1. IndInv => TypeOK
  BY DEF IndInv
<1> QED BY <1>1, IndInvHolds, PTL

\* s.mu is held exactly by the handler that is between Lock and Unlock: mutual
\* exclusion, and no leaked lock after an error, a panic or a crash.
THEOREM MutexCorrectness == Spec => []MutexHeldByHandler
<1>1. IndInv => MutexHeldByHandler
  BY DEF IndInv, MutexHeldByHandler, InCriticalSection, Critical
<1> QED BY <1>1, IndInvHolds, PTL

\* No lost update: what a handler is about to save was computed from the record
\* that is stored at that moment.
THEOREM DraftsAreCurrent == Spec => []DraftIsCurrent
<1>1. IndInv => DraftIsCurrent
  <2> SUFFICES ASSUME IndInv, NEW c \in Clients, pc[c] = "save"
               PROVE  LET u == users[req[c].name] IN
                      CASE req[c].op \in {"enroll", "promote"} ->
                             HasRoom(u) /\ draft[c] = WithFace(u, req[c].face)
                        [] req[c].op = "delete-picture" ->
                             /\ u # NoUser
                             /\ req[c].index < Len(u.embeddings)
                             /\ req[c].index < Len(u.pictures)
                             /\ draft[c] = WithoutPicture(u, req[c].index)
                        [] req[c].op = "delete-user" -> u # NoUser /\ draft[c] = NoUser
                        [] OTHER -> FALSE
    BY DEF DraftIsCurrent
  <2>1. Current("save", req[c], draft[c], users) /\ req[c].op \in Writers
    BY RunningHandler DEF Handler, Locals
  <2> QED BY <2>1 DEF Current, Writers
<1> QED BY <1>1, IndInvHolds, PTL

\* An enroll entry that reaches the audit log names a user whose newest picture
\* and embedding are the logged face.
THEOREM EnrollEntriesDescribeGallery == Spec => EnrollEntryDescribesGallery
<1> DEFINE A == \A i \in DOMAIN audit' \ DOMAIN audit :
                   LET e == audit'[i] IN
                   e.endpoint = "enroll" =>
                      /\ users[e.name] # NoUser
                      /\ Last(users[e.name].pictures) = e.face
                      /\ Last(users[e.name].embeddings) = e.face
<1>1. IndInv /\ [Next]_vars => [A]_audit
  <2> SUFFICES ASSUME IndInv, [Next]_vars, audit' # audit PROVE A
    OBVIOUS
  <2>1. PICK c \in Clients : AppendEntry(c)
    BY DEF Next, vars, Start, Serve, StartEnroll, RejectImage, StartRecognize,
           StartStreamCheck, StartPromote, StartDeleteUser, StartDeletePicture,
           Begin, FindEntry, Acquire, ReadForAdd, ReadForDeletePicture,
           ReadForDeleteUser, Save, SaveFails, Match, ListFails, AppendFails,
           Crash, Tick
  <2>2. PICK sec \in req[c].sec..now : audit' = Append(audit, EntryOf(req[c], sec))
    BY <2>1 DEF AppendEntry
  <2> DEFINE e == EntryOf(req[c], sec)
  <2>3. pc[c] = "append" /\ sec \in Int
    BY <2>1, <2>2, RunningHandler DEF AppendEntry, Request
  <2>4. e \in Entry /\ e.endpoint = req[c].op /\ e.name = req[c].name /\ e.face = req[c].face
    BY <2>3, EntryOfType
  <2>5. Saved("append", req[c], users)
    BY <2>3, RunningHandler DEF Handler
  <2> HIDE DEF e
  <2>6. \A i \in DOMAIN audit' \ DOMAIN audit : audit'[i] = e
    <3>1. audit' = Append(audit, e) /\ audit \in Seq(Entry)
      BY <2>2, RunningHandler DEF e
    <3> QED BY <2>4, <3>1
  <2> QED BY <2>4, <2>5, <2>6 DEF Saved
<1> QED BY <1>1, IndInvHolds, PTL DEF Spec, EnrollEntryDescribesGallery

\* Only a Save changes what is stored.
LEMMA OnlySaveWrites ==
    ASSUME [Next]_vars, users' # users
    PROVE  \E c \in Clients : Save(c)
BY DEF Next, vars, Start, Serve, StartEnroll, RejectImage, StartRecognize,
       StartStreamCheck, StartPromote, StartDeleteUser, StartDeletePicture,
       Begin, FindEntry, Acquire, ReadForAdd, ReadForDeletePicture,
       ReadForDeleteUser, SaveFails, Match, ListFails, AppendEntry, AppendFails,
       Crash, Tick

\* One operation on the record stored under n.
AtomicChange(n) ==
    /\ users' = [users EXCEPT ![n] = users'[n]]
    /\ users[n] \in StoredUser
    /\ \/ users'[n] = NoUser /\ users[n] # NoUser
       \/ HasRoom(users[n]) /\ \E f \in Faces : users'[n] = WithFace(users[n], f)
       \/ /\ users[n] # NoUser
          /\ \E index \in Nat :
                /\ index < Len(users[n].embeddings)
                /\ index < Len(users[n].pictures)
                /\ users'[n] = WithoutPicture(users[n], index)

\* A change of the stored users is one operation on one stored record.
LEMMA UsersChangeAtomically ==
    ASSUME IndInv, [Next]_vars, users' # users
    PROVE  \E n \in Names : AtomicChange(n)
<1>1. PICK c \in Clients : Save(c)
  BY OnlySaveWrites
<1> DEFINE n == req[c].name
<1>2. /\ n \in Names /\ users' = [users EXCEPT ![n] = draft[c]] /\ users'[n] = draft[c]
      /\ req[c].op \in Writers
      /\ Current("save", req[c], draft[c], users)
      /\ req[c].op \in {"enroll", "promote"} => req[c].face \in Faces
  BY <1>1, SaveWritesCurrent
<1>3. users[n] \in StoredUser /\ req[c].index \in Nat
  BY <1>2, RunningHandler DEF Request
<1>4. CASE req[c].op \in {"enroll", "promote"}
  BY <1>2, <1>3, <1>4 DEF Current, AtomicChange
<1>5. CASE req[c].op = "delete-picture"
  BY <1>2, <1>3, <1>5 DEF Current, AtomicChange
<1>6. CASE req[c].op = "delete-user"
  BY <1>2, <1>3, <1>6 DEF Current, AtomicChange
<1> QED BY <1>2, <1>4, <1>5, <1>6 DEF Writers

\* A record that kept the limit and a surplus it may have.
BoundedRecord(u) ==
    /\ Bounded(u)
    /\ Surplus(u) = 0 \/ \E v \in InitUsers \ {NoUser} : Surplus(u) = Surplus(v)

\* If no stored record has too many embeddings at the start, none ever has, and
\* whatever the pictures of the records at the start are, no record ever has
\* more pictures beyond its embeddings than one of those had.
THEOREM PicturesStayBounded ==
    ASSUME \A u \in InitUsers : u # NoUser => Bounded(u)
    PROVE  Spec => []PicturesBounded
<1>1. Init => PicturesBounded
  <2> SUFFICES ASSUME Init, NEW n \in Names, users[n] # NoUser PROVE BoundedRecord(users[n])
    BY DEF PicturesBounded, BoundedRecord
  <2>1. users[n] \in InitUsers \ {NoUser}
    BY DEF Init
  <2> QED BY <2>1 DEF BoundedRecord
<1>2. PicturesBounded /\ IndInv /\ [Next]_vars => PicturesBounded'
  <2> SUFFICES ASSUME PicturesBounded, IndInv, [Next]_vars, users' # users
               PROVE  PicturesBounded'
    BY DEF PicturesBounded
  <2>1. PICK n \in Names : AtomicChange(n)
    BY UsersChangeAtomically
  <2>2. users[n] # NoUser => BoundedRecord(users[n])
    BY DEF PicturesBounded, BoundedRecord
  <2>3. users'[n] # NoUser => BoundedRecord(users'[n])
    <3>1. ASSUME HasRoom(users[n]), NEW f \in Faces, users'[n] = WithFace(users[n], f)
          PROVE  BoundedRecord(users'[n])
      <4>1. /\ Bounded(users'[n])
            /\ Surplus(users'[n]) = 0 \/ (users[n] # NoUser /\ Surplus(users'[n]) = Surplus(users[n]))
        BY <2>1, <3>1, WithFaceProperties DEF StoredUser, AtomicChange
      <4> QED BY <2>2, <4>1 DEF BoundedRecord
    <3>2. ASSUME users[n] # NoUser, NEW index \in Nat,
                 index < Len(users[n].embeddings), index < Len(users[n].pictures),
                 users'[n] = WithoutPicture(users[n], index)
          PROVE  BoundedRecord(users'[n])
      <4>1. users[n] \in User
        BY <2>1, <3>2 DEF StoredUser, AtomicChange
      <4>2. Bounded(users'[n]) /\ Surplus(users'[n]) = Surplus(users[n])
        BY <2>2, <3>2, <4>1, WithoutPictureProperties DEF BoundedRecord
      <4> QED BY <2>2, <3>2, <4>2 DEF BoundedRecord
    <3> QED BY <2>1, <3>1, <3>2 DEF AtomicChange
  <2>4. \A m \in Names : m # n => users'[m] = users[m]
    BY <2>1 DEF IndInv, TypeOK, AtomicChange
  <2>5. ASSUME NEW m \in Names, users'[m] # NoUser PROVE BoundedRecord(users'[m])
    BY <2>3, <2>4, <2>5 DEF PicturesBounded, BoundedRecord
  <2> QED BY <2>5 DEF PicturesBounded, BoundedRecord
<1> QED BY <1>1, <1>2, IndInvHolds, PTL DEF Spec

\* If every stored record is index-aligned at the start, every record always is.
THEOREM PicturesStayAligned ==
    ASSUME \A u \in InitUsers : u # NoUser => Aligned(u)
    PROVE  Spec => []PicturesAligned
<1>1. Init => PicturesAligned
  BY DEF Init, PicturesAligned
<1>2. PicturesAligned /\ IndInv /\ [Next]_vars => PicturesAligned'
  <2> SUFFICES ASSUME PicturesAligned, IndInv, [Next]_vars, users' # users
               PROVE  PicturesAligned'
    BY DEF PicturesAligned
  <2>1. PICK n \in Names : AtomicChange(n)
    BY UsersChangeAtomically
  <2>2. users[n] # NoUser => Aligned(users[n])
    BY DEF PicturesAligned
  <2>3. users'[n] # NoUser => Aligned(users'[n])
    BY <2>1, <2>2, WithFaceProperties, WithoutPictureProperties DEF StoredUser, AtomicChange
  <2>4. \A m \in Names : m # n => users'[m] = users[m]
    BY <2>1 DEF IndInv, TypeOK, AtomicChange
  <2> QED BY <2>3, <2>4 DEF PicturesAligned
<1> QED BY <1>1, <1>2, IndInvHolds, PTL DEF Spec

\* The service implements the atomic gallery: every step of any handler is one
\* whole gallery operation on the record stored at that instant, or leaves the
\* stored users alone.
THEOREM ServiceImplementsGallery == Spec => ImplementsGallery
<1>1. Init => Gallery!Init
  BY DEF Init, Gallery!Init
<1>2. IndInv /\ [Next]_vars => [Gallery!Next]_users
  <2> SUFFICES ASSUME IndInv, [Next]_vars, users' # users PROVE Gallery!Next
    OBVIOUS
  <2>1. PICK n \in Names : AtomicChange(n)
    BY UsersChangeAtomically
  <2>2. CASE users'[n] = NoUser /\ users[n] # NoUser
    BY <2>1, <2>2 DEF Gallery!Next, Gallery!RemoveUser, AtomicChange
  <2>3. ASSUME HasRoom(users[n]), NEW f \in Faces, users'[n] = WithFace(users[n], f)
        PROVE  Gallery!Next
    BY <2>1, <2>3
       DEF Gallery!Next, Gallery!AddPicture, Gallery!HasRoom, Gallery!WithFace,
           HasRoom, WithFace, AtomicChange
  <2>4. ASSUME users[n] # NoUser, NEW index \in Nat,
               index < Len(users[n].embeddings), index < Len(users[n].pictures),
               users'[n] = WithoutPicture(users[n], index)
        PROVE  Gallery!Next
    <3>1. index \in 0..Len(users[n].pictures) - 1
      <4>1. Len(users[n].pictures) \in Nat
        BY <2>1, <2>4 DEF StoredUser, User, AtomicChange
      <4> QED BY <2>4, <4>1
    <3>2. Gallery!RemovePicture(n)
      <4>1. Gallery!WithoutPicture(users[n], index) = WithoutPicture(users[n], index)
        BY DEF Gallery!WithoutPicture, WithoutPicture, Gallery!RemoveAt, RemoveAt
      <4>2. users' = [users EXCEPT ![n] = Gallery!WithoutPicture(users[n], index)]
        BY <2>1, <2>4, <4>1 DEF AtomicChange
      <4> QED BY <2>4, <3>1, <4>2 DEF Gallery!RemovePicture
    <3> QED BY <3>2 DEF Gallery!Next
  <2> QED BY <2>1, <2>2, <2>3, <2>4 DEF AtomicChange
<1> QED BY <1>1, <1>2, IndInvHolds, PTL DEF Spec, ImplementsGallery, Gallery!Spec

\* Where every record starts aligned, deleting a picture never panics: the index
\* check on Embeddings is enough.
THEOREM DeletionsNeverPanic ==
    ASSUME \A u \in InitUsers : u # NoUser => Aligned(u)
    PROVE  Spec => []NoPanic
<1>1. Init => NoPanic
  BY DEF Init, NoPanic
<1>2. NoPanic /\ PicturesAligned /\ IndInv /\ [Next]_vars => NoPanic'
  <2> SUFFICES ASSUME NoPanic, PicturesAligned, IndInv, [Next]_vars, NEW d \in Clients,
                      reply'[d] # reply[d]
               PROVE  reply'[d] # "panic"
    BY DEF NoPanic
  <2>1. reply \in [Clients -> Replies]
    BY DEF IndInv, TypeOK, Replies
  <2>2. CASE Crash
    BY <2>2 DEF Crash
  <2>3. ASSUME NEW c \in Clients, NEW a, a # "panic", reply' = [reply EXCEPT ![c] = a]
        PROVE  reply'[d] # "panic"
    BY <2>1, <2>3
  <2>4. ASSUME NEW c \in Clients, ReadForDeletePicture(c)
        PROVE  reply'[d] # "panic"
    <3>1. pc[c] = "read" /\ req[c].op \in Writers
      BY <2>4, RunningHandler DEF ReadForDeletePicture, Handler, Locals
    <3>2. req[c].name \in Names
      BY <3>1, RunningHandler DEF Handler, Locals
    <3>3. users[req[c].name] # NoUser =>
             Len(users[req[c].name].embeddings) = Len(users[req[c].name].pictures)
      BY <3>2 DEF PicturesAligned, Aligned
    <3>4. users[req[c].name] # NoUser =>
             Len(users[req[c].name].embeddings) \in Nat /\ req[c].index \in Nat
      BY <3>2, RunningHandler DEF StoredUser, User, Request
    <3>5. UNCHANGED reply \/ Release(c, "failed")
      BY <2>4, <3>3, <3>4 DEF ReadForDeletePicture
    <3> QED BY <2>3, <3>5 DEF Release, Return
  <2>5. ASSUME NEW c \in Clients, Start(c) PROVE reply'[d] # "panic"
    BY <2>3, <2>5 DEF Start, StartEnroll, RejectImage, StartRecognize, StartStreamCheck,
         StartPromote, StartDeleteUser, StartDeletePicture, Begin
  <2>6. ASSUME NEW c \in Clients, Serve(c) PROVE reply'[d] # "panic"
    BY <2>3, <2>4, <2>6 DEF Serve, FindEntry, Acquire, ReadForAdd, ReadForDeleteUser,
         Save, SaveFails, Match, ListFails, AppendEntry, AppendFails, Release, Return
  <2> QED BY <2>2, <2>5, <2>6 DEF Next, Tick, vars
<1>3. Spec => []PicturesAligned
  BY PicturesStayAligned
<1> QED BY <1>1, <1>2, <1>3, IndInvHolds, PTL DEF Spec
-----------------------------------------------------------------------------
\* The entry a promotion was asked for.

\* No other entry of the log has the time of entry i.
OnlyOfItsTime(log, i) == \A j \in DOMAIN log : log[j].sec = log[i].sec => j = i

\* What a promotion at step p knows of the entry its client picked: its time,
\* and, once it has looked, its face.
Picked(p, r, log) ==
    /\ p = "append" => r.sec >= 0
    /\ p # "idle" /\ r.op = "promote" =>
          \/ p = "find" /\ r.sec = Unknown
          \/ /\ r.index \in DOMAIN log
             /\ r.sec = log[r.index].sec
             /\ p # "find" /\ OnlyOfItsTime(log, r.index) => r.face = log[r.index].face

PickInv ==
    /\ now >= 0
    /\ \A i \in DOMAIN audit : audit[i].sec >= 0
    /\ \A c \in Clients : Picked(pc[c], req[c], audit)

\* One handler's step that leaves the log alone.
LEMMA PickStep ==
    ASSUME IndInv, PickInv, NEW c \in Clients, NEW p, NEW r,
           pc' = [pc EXCEPT ![c] = p], req' = [req EXCEPT ![c] = r],
           UNCHANGED <<audit, now>>, Picked(p, r, audit)
    PROVE  PickInv'
<1>1. pc \in [Clients -> Steps] /\ req \in [Clients -> Request]
  BY DEF IndInv, TypeOK, Steps
<1>2. \A d \in Clients : Picked(pc'[d], req'[d], audit)
  BY <1>1 DEF PickInv
<1> QED BY <1>2 DEF PickInv, Picked, OnlyOfItsTime

\* A newer entry does not change what was picked.
LEMMA PickedGrows ==
    ASSUME NEW log \in Seq(Entry), NEW e, NEW p, NEW r, Picked(p, r, log)
    PROVE  Picked(p, r, Append(log, e))
<1>1. /\ \A j \in DOMAIN log : j \in DOMAIN Append(log, e) /\ Append(log, e)[j] = log[j]
  OBVIOUS
<1>2. ASSUME NEW i \in DOMAIN log, OnlyOfItsTime(Append(log, e), i) PROVE OnlyOfItsTime(log, i)
  BY <1>1, <1>2 DEF OnlyOfItsTime
<1> QED BY <1>1, <1>2 DEF Picked

LEMMA PickInvPreserved == IndInv /\ PickInv /\ [Next]_vars => PickInv'
<1> SUFFICES ASSUME IndInv, PickInv, [Next]_vars PROVE PickInv'
  OBVIOUS
<1>0. /\ pc \in [Clients -> Steps] /\ req \in [Clients -> Request] /\ audit \in Seq(Entry)
      /\ now \in Int /\ now >= 0
      /\ \A c \in Clients : Picked(pc[c], req[c], audit) /\ Locals(pc[c], req[c])
  BY ServiceAssumption DEF IndInv, TypeOK, Steps, PickInv, Handler
\* The request returns, or a new one begins that is not a promotion.
<1>1. \A log : Picked("idle", NoRequest, log)
  BY DEF Picked, NoRequest, Call
<1>2. ASSUME NEW c \in Clients, NEW a, Return(c, a), UNCHANGED <<audit, now>>
      PROVE  PickInv'
  BY <1>1, <1>2, PickStep DEF Return
<1>3. ASSUME NEW c \in Clients, Start(c) PROVE PickInv'
  <2>1. ASSUME NEW r, NEW p, Begin(c, r, p), r.op # "promote", p = "append" => r.sec >= 0
        PROVE  PickInv'
    BY <2>1, PickStep DEF Begin, Picked
  <2>2. CASE StartPromote(c)
    <3>1. PICK n \in Names, i \in {0} \cup DOMAIN audit :
             Begin(c, Call("promote", n, NoFace, i, IF i = 0 THEN Unknown ELSE audit[i].sec), "find")
      BY <2>2 DEF StartPromote
    <3> DEFINE r == Call("promote", n, NoFace, i, IF i = 0 THEN Unknown ELSE audit[i].sec)
    <3>2. /\ r.index = i /\ (IF i = 0 THEN r.sec = Unknown ELSE r.sec = audit[i].sec)
      BY DEF Call
    <3>3. Picked("find", r, audit)
      BY <3>2 DEF Picked
    <3> QED BY <3>1, <3>3, PickStep DEF Begin
  <2>3. CASE RejectImage(c)
    BY <2>3 DEF RejectImage, PickInv
  <2>4. CASE StartStreamCheck(c)
    BY <1>0, <2>1, <2>4 DEF StartStreamCheck, Call
  <2>5. CASE StartEnroll(c) \/ StartRecognize(c) \/ StartDeleteUser(c) \/ StartDeletePicture(c)
    BY <2>1, <2>5 DEF StartEnroll, StartRecognize, StartDeleteUser, StartDeletePicture, Call
  <2> QED BY <1>3, <2>2, <2>3, <2>4, <2>5 DEF Start
<1>4. ASSUME NEW c \in Clients, FindEntry(c) PROVE PickInv'
  <2>1. CASE Return(c, "failed")
    BY <1>2, <1>4, <2>1 DEF FindEntry
  <2>2. CASE ~Return(c, "failed")
    <3>1. PICK j \in DOMAIN audit :
             /\ IsNewestAt(audit, RecentLimit, req[c].sec, j)
             /\ GoTo(c, "lock")
             /\ req' = [req EXCEPT ![c].face = audit[j].face]
      BY <1>4, <2>2 DEF FindEntry
    <3> DEFINE r == [req[c] EXCEPT !.face = audit[j].face]
    <3>2. pc[c] = "find" /\ UNCHANGED <<audit, now>>
      BY <1>4 DEF FindEntry
    <3>3. audit[j].sec = req[c].sec /\ audit[j].sec >= 0
      BY <3>1 DEF IsNewestAt, PickInv
    <3>4. req[c].op = "promote"
      BY <1>0, <3>2 DEF Locals
    <3>5. req[c].index \in DOMAIN audit /\ req[c].sec = audit[req[c].index].sec
      BY <1>0, <3>2, <3>3, <3>4 DEF Picked, Unknown
    <3>6. r.index = req[c].index /\ r.sec = req[c].sec /\ r.face = audit[j].face
          /\ req' = [req EXCEPT ![c] = r]
      BY <1>0, <3>1 DEF Request
    <3>7. OnlyOfItsTime(audit, req[c].index) => j = req[c].index
      BY <3>3, <3>5 DEF OnlyOfItsTime
    <3> HIDE DEF r
    <3>8. Picked("lock", r, audit)
      BY <3>5, <3>6, <3>7 DEF Picked
    <3> QED BY <3>1, <3>2, <3>6, <3>8, PickStep DEF GoTo
  <2> QED BY <2>1, <2>2
\* The request goes on, and has its entry.
<1>5. ASSUME NEW c \in Clients, NEW p \in {"read", "save"}, pc[c] \in {"lock", "read"},
             pc' = [pc EXCEPT ![c] = p], UNCHANGED <<audit, now, req>>
      PROVE  PickInv'
  <2>1. Picked(p, req[c], audit)
    BY <1>0, <1>5 DEF Picked
  <2>2. req' = [req EXCEPT ![c] = req[c]]
    BY <1>0, <1>5
  <2> QED BY <1>5, <2>1, <2>2, PickStep
<1>6. ASSUME NEW c \in Clients,
             Acquire(c) \/ ReadForAdd(c) \/ ReadForDeletePicture(c) \/ ReadForDeleteUser(c)
      PROVE  PickInv'
  BY <1>2, <1>5, <1>6
     DEF Acquire, ReadForAdd, ReadForDeletePicture, ReadForDeleteUser, GoTo, Release
\* An operation that is logged knows its time.
<1>7. ASSUME NEW c \in Clients, NEW n \in Names \cup {Nobody}, req[c].op # "promote",
             pc' = [pc EXCEPT ![c] = "append"], UNCHANGED <<audit, now>>,
             req' = [req EXCEPT ![c].name = n, ![c].sec = now]
      PROVE  PickInv'
  <2> DEFINE r == [req[c] EXCEPT !.name = n, !.sec = now]
  <2>1. r.op = req[c].op /\ r.sec = now
    BY <1>0 DEF Request
  <2>2. Picked("append", r, audit)
    BY <1>0, <1>7, <2>1 DEF Picked
  <2>3. req' = [req EXCEPT ![c] = r]
    BY <1>0, <1>7 DEF Request
  <2> QED BY <1>7, <2>2, <2>3, PickStep
<1>8. ASSUME NEW c \in Clients, Save(c) PROVE PickInv'
  <2>1. CASE req[c].op = "enroll"
    <3> DEFINE r == [req[c] EXCEPT !.sec = now]
    <3>1. r.op = req[c].op /\ r.sec = now
      BY <1>0 DEF Request
    <3>2. Picked("append", r, audit)
      BY <1>0, <2>1, <3>1 DEF Picked
    <3>3. req' = [req EXCEPT ![c] = r]
      BY <1>8, <2>1 DEF Save
    <3> QED BY <1>8, <2>1, <3>2, <3>3, PickStep DEF Save, GoTo
  <2>2. CASE req[c].op # "enroll"
    BY <1>2, <1>8, <2>2 DEF Save, Release
  <2> QED BY <2>1, <2>2
<1>9. ASSUME NEW c \in Clients, Match(c) PROVE PickInv'
  <2>1. PICK n \in Names \cup {Nobody} : req' = [req EXCEPT ![c].name = n, ![c].sec = now]
    BY <1>9 DEF Match
  <2>2. req[c].op # "promote"
    BY <1>0, <1>9 DEF Match, Locals
  <2> QED BY <1>7, <1>9, <2>1, <2>2 DEF Match, GoTo
<1>10. ASSUME NEW c \in Clients, SaveFails(c) \/ ListFails(c) \/ AppendFails(c) PROVE PickInv'
  BY <1>2, <1>10 DEF SaveFails, ListFails, AppendFails, Release
<1>11. ASSUME NEW c \in Clients, AppendEntry(c) PROVE PickInv'
  <2>1. PICK sec \in req[c].sec..now : audit' = Append(audit, EntryOf(req[c], sec))
    BY <1>11 DEF AppendEntry
  <2>2. req[c].sec >= 0 /\ req[c].sec \in Int
    BY <1>0, <1>11 DEF AppendEntry, Picked, Request
  <2> DEFINE e == EntryOf(req[c], sec)
  <2>3. e.sec >= 0
    <3>1. sec >= 0
      BY <1>0, <2>2
    <3>2. e.sec = sec
      BY DEF EntryOf
    <3> QED BY <3>1, <3>2
  <2> HIDE DEF e
  <2>4. \A i \in DOMAIN audit' : audit'[i].sec >= 0
    <3>1. audit' = Append(audit, e)
      BY <2>1 DEF e
    <3>2. \A i \in DOMAIN audit' : audit'[i] = e \/ (i \in DOMAIN audit /\ audit'[i] = audit[i])
      BY <1>0, <3>1
    <3> QED BY <2>3, <3>2 DEF PickInv
  <2>5. /\ pc' = [pc EXCEPT ![c] = "idle"] /\ req' = [req EXCEPT ![c] = NoRequest]
        /\ now' = now
    BY <1>11 DEF AppendEntry, Release, Return
  <2>6. ASSUME NEW d \in Clients PROVE Picked(pc'[d], req'[d], audit')
    <3>1. audit' = Append(audit, e)
      BY <2>1 DEF e
    <3>2. CASE d = c
      BY <1>0, <1>1, <2>5, <3>2
    <3>3. CASE d # c
      BY <1>0, <2>5, <3>1, <3>3, PickedGrows
    <3> QED BY <3>2, <3>3
  <2> QED BY <2>4, <2>5, <2>6 DEF PickInv, Picked, OnlyOfItsTime
<1>12. CASE Crash
  BY <1>1, <1>12 DEF Crash, PickInv, Picked, OnlyOfItsTime, NoRequest, Call
<1>13. CASE Tick \/ UNCHANGED vars
  BY <1>0, <1>13 DEF Tick, vars, PickInv, Picked, OnlyOfItsTime
<1> QED BY <1>3, <1>4, <1>6, <1>8, <1>9, <1>10, <1>11, <1>12, <1>13 DEF Next, Serve

\* The face that a promotion enrolls is that of the entry the client picked in
\* the audit log, unless that entry shares its second with another one: entries
\* logged while the promotion runs never shift it to another face.
THEOREM PromotionsTakePickedEntry == Spec => []PromotesPickedEntryOfUniqueTime
<1>1. Init => PickInv
  BY DEF Init, PickInv, Picked, NoRequest, Call
<1>2. PickInv => PromotesPickedEntryOfUniqueTime
  BY DEF PickInv, Picked, OnlyOfItsTime, PromotesPickedEntryOfUniqueTime
<1> QED BY <1>1, <1>2, PickInvPreserved, IndInvHolds, PTL DEF Spec
=============================================================================
