-------------------------- MODULE LifecycleProofs --------------------------
(***************************************************************************)
(* Theorems about Lifecycle, for any databases an earlier version may have *)
(* left, any users, images and handlers, and any lengths of the audit log  *)
(* and of the list of entries that get thumbnails.  Facts that would be    *)
(* proved by induction are proved by looking at the least counterexample,  *)
(* which exists by LeastNumber.                                            *)
(***************************************************************************)
EXTENDS Lifecycle, SequenceTheorems, WellFoundedInduction, TLAPS

\* A set of natural numbers has a least one.
LEMMA LeastNumber ==
    ASSUME NEW S, S \subseteq Nat, S # {}
    PROVE  \E m \in S : \A k \in S : m <= k
<1> DEFINE R == {p \in Nat \X Nat : p[1] < p[2]}
<1>1. IsWellFoundedOn(R, Nat)
  BY NatLessThanWellFounded DEF OpToRel
<1> HIDE DEF R
<1>2. PICK m \in S : \A k \in S : ~(<<k, m>> \in R)
  BY <1>1, WFMin
<1>3. ASSUME NEW k \in S PROVE m <= k
  <2>1. <<k, m>> \notin R /\ k \in Nat /\ m \in Nat
    BY <1>2
  <2>2. ~(k < m)
    BY <2>1 DEF R
  <2> QED BY <2>1, <2>2
<1> QED BY <1>3

\* A set of positions has a last one.
LEMMA LastExists ==
    ASSUME NEW m \in Nat, NEW T, T \subseteq 1..m, T # {}
    PROVE  \E i \in T : \A j \in T : j <= i
<1> DEFINE D == {m - i : i \in T}
<1>1. D \subseteq Nat /\ D # {}
  <2>1. \A i \in T : i \in Int /\ i <= m
    OBVIOUS
  <2>2. \A i \in T : m - i \in Nat
    BY <2>1
  <2> QED BY <2>2
<1>2. PICK d \in D : \A e \in D : d <= e
  <2> HIDE DEF D
  <2> QED BY <1>1, LeastNumber
<1>3. PICK i \in T : d = m - i
  BY <1>2
<1>4. ASSUME NEW j \in T PROVE j <= i
  <2>1. d <= m - j
    BY <1>2
  <2> QED BY <1>3, <2>1
<1> QED BY <1>4

\* g is a on 0, and each of its values up to n follows from the one before.
Recursive(g, n, V, a, F) ==
    g \in [0..n -> V] /\ g[0] = a /\ \A k \in 1..n : g[k] = F[k][g[k - 1]]

\* There is such a function.
LEMMA RecursionExists ==
    ASSUME NEW n \in Nat, NEW V, NEW a \in V, NEW F \in [1..n -> [V -> V]]
    PROVE  \E g : Recursive(g, n, V, a, F)
<1> DEFINE Solves(g, m) == g[0] = a /\ \A k \in 1..m : g[k] = F[k][g[k - 1]]
           Bad == {m \in 0..n : ~(\E g \in [0..m -> V] : Solves(g, m))}
<1>1. Bad = {}
  <2> SUFFICES ASSUME Bad # {} PROVE FALSE
    OBVIOUS
  <2>1. PICK m \in Bad : \A j \in Bad : m <= j
    <3>1. Bad \subseteq Nat
      OBVIOUS
    <3> HIDE DEF Bad
    <3> QED BY <3>1, LeastNumber
  <2>2. m \in 0..n /\ ~(\E g \in [0..m -> V] : Solves(g, m))
    BY <2>1
  <2>3. CASE m = 0
    <3> DEFINE g == [k \in 0..0 |-> a]
    <3>1. g \in [0..0 -> V] /\ g[0] = a
      OBVIOUS
    <3>2. Solves(g, 0)
      BY <3>1
    <3> QED BY <2>2, <2>3, <3>1, <3>2
  <2>4. CASE m # 0
    <3>1. m \in 1..n /\ m - 1 \in 0..n /\ m - 1 \notin Bad
      <4>1. m \in 1..n /\ m - 1 \in 0..n /\ ~(m <= m - 1)
        BY <2>2, <2>4
      <4> HIDE DEF Bad
      <4> QED BY <4>1, <2>1
    <3>2. PICK g \in [0..m - 1 -> V] : Solves(g, m - 1)
      BY <3>1
    <3> DEFINE h == [k \in 0..m |-> IF k = m THEN F[m][g[m - 1]] ELSE g[k]]
    <3>3. F[m][g[m - 1]] \in V
      <4>1. g[m - 1] \in V
        BY <3>1, <3>2
      <4> QED BY <3>1, <4>1
    <3>4. h \in [0..m -> V]
      BY <3>1, <3>3
    <3>5. h[m] = F[m][g[m - 1]] /\ \A k \in 0..m - 1 : h[k] = g[k]
      BY <3>1
    <3> HIDE DEF h
    <3>6. h[0] = a
      BY <3>1, <3>2, <3>5
    <3>7. ASSUME NEW k \in 1..m PROVE h[k] = F[k][h[k - 1]]
      <4>1. h[k - 1] = g[k - 1]
        BY <3>1, <3>5
      <4>2. CASE k = m
        BY <3>5, <4>1, <4>2
      <4>3. CASE k # m
        <5>1. k \in 1..m - 1 /\ h[k] = g[k]
          BY <3>1, <3>5, <4>3
        <5> QED BY <3>2, <4>1, <5>1
      <4> QED BY <4>2, <4>3
    <3> QED BY <2>2, <3>4, <3>6, <3>7
  <2> QED BY <2>3, <2>4
<1>2. n \notin Bad
  <2> HIDE DEF Bad
  <2> QED BY <1>1
<1> QED BY <1>2 DEF Recursive
-----------------------------------------------------------------------------
\* The pictures that are recovered.

\* A group of images that is not more than full.
Groups == {p \in Seq(Images) : Len(p) <= MaxPicturesPerUser}

\* A turn of the loop adds an image of the log, or nothing.
LEMMA GroupTurn ==
    ASSUME NEW l \in Seq(StoredEntry), NEW n \in Names, NEW i \in DOMAIN l,
           NEW p \in Groups
    PROVE  Group(l, n, i, p) \in Groups
<1>1. MaxPicturesPerUser \in Nat /\ p \in Seq(Images) /\ Len(p) <= MaxPicturesPerUser
  BY MigrationAssumption DEF Groups
<1>2. CASE IsEnrollOf(l[i], n) /\ Len(p) < MaxPicturesPerUser
  <2>1. l[i].image \in Images
    <3>1. l[i] \in StoredEntry
      OBVIOUS
    <3> QED BY <1>2, <3>1 DEF IsEnrollOf, StoredEntry
  <2>2. Append(p, l[i].image) \in Seq(Images) /\ Len(Append(p, l[i].image)) = Len(p) + 1
    BY <1>1, <2>1
  <2> QED BY <1>1, <1>2, <2>2 DEF Group, Groups
<1>3. CASE ~(IsEnrollOf(l[i], n) /\ Len(p) < MaxPicturesPerUser)
  BY <1>3 DEF Group
<1> QED BY <1>2, <1>3

\* So a user gets images, and no more than a user may have pictures.
LEMMA RecoveredGroup ==
    ASSUME NEW l \in Seq(StoredEntry), NEW n \in Names
    PROVE  Recovered(l, n) \in Groups
<1> DEFINE m == Len(l)
           F == [k \in 1..m |-> [p \in Groups |-> Group(l, n, m - k + 1, p)]]
           Body(g) == [k \in 0..m |-> IF k = 0 THEN <<>> ELSE Group(l, n, m - k + 1, g[k - 1])]
<1>1. m \in Nat /\ <<>> \in Groups
  BY MigrationAssumption DEF Groups
<1>2. F \in [1..m -> [Groups -> Groups]]
  <2> SUFFICES ASSUME NEW k \in 1..m, NEW p \in Groups
               PROVE  Group(l, n, m - k + 1, p) \in Groups
    OBVIOUS
  <2>1. m - k + 1 \in DOMAIN l
    BY <1>1
  <2> QED BY <2>1, GroupTurn
<1>3. PICK g : Recursive(g, m, Groups, <<>>, F)
  <2> HIDE DEF m, F
  <2> QED BY <1>1, <1>2, RecursionExists
<1>4. \A k \in 1..m : g[k] = Group(l, n, m - k + 1, g[k - 1])
  <2> SUFFICES ASSUME NEW k \in 1..m PROVE g[k] = Group(l, n, m - k + 1, g[k - 1])
    OBVIOUS
  <2>1. g[k - 1] \in Groups
    BY <1>1, <1>3 DEF Recursive
  <2> QED BY <1>3, <2>1 DEF Recursive
<1>5. g = Body(g)
  BY <1>3, <1>4 DEF Recursive
<1> DEFINE h == Grouped(l, n)
<1>6. h = CHOOSE f : f = Body(f)
  BY DEF Grouped
<1>7. h = Body(h)
  <2> HIDE DEF Body, h
  <2> QED BY <1>5, <1>6
<1>8. h[0] = <<>> /\ \A k \in 1..m : h[k] = Group(l, n, m - k + 1, h[k - 1])
  <2>1. Body(h)[0] = <<>>
    BY <1>1
  <2>2. ASSUME NEW k \in 1..m PROVE Body(h)[k] = Group(l, n, m - k + 1, h[k - 1])
    <3>1. k \in 0..m /\ k # 0
      BY <1>1
    <3> QED BY <3>1
  <2> HIDE DEF Body, h
  <2> QED BY <1>7, <2>1, <2>2
<1> DEFINE Bad == {k \in 0..m : h[k] \notin Groups}
<1>9. Bad = {}
  <2> SUFFICES ASSUME Bad # {} PROVE FALSE
    OBVIOUS
  <2>1. PICK k \in Bad : \A j \in Bad : k <= j
    <3>1. Bad \subseteq Nat
      OBVIOUS
    <3> HIDE DEF Bad
    <3> QED BY <3>1, LeastNumber
  <2>2. k \in 1..m /\ k - 1 \in 0..m /\ ~(k <= k - 1) /\ h[k] \notin Groups
    <3> HIDE DEF h
    <3> QED BY <1>1, <1>8, <2>1
  <2>3. h[k - 1] \in Groups
    BY <2>1, <2>2
  <2>4. m - k + 1 \in DOMAIN l
    BY <1>1, <2>2
  <2> HIDE DEF h
  <2> QED BY <1>8, <2>2, <2>3, <2>4, GroupTurn
<1> QED BY <1>1, <1>9 DEF Recovered
-----------------------------------------------------------------------------
\* The log.

\* What a thumbnail writer does to one entry.
LEMMA ThumbnailSet ==
    ASSUME NEW l \in Seq(StoredEntry), NEW i \in DOMAIN l,
           NEW m, m = SetFaceThumb(l, l[i].sec, l[i].image)
    PROVE  /\ m \in Seq(StoredEntry) /\ DOMAIN m = DOMAIN l /\ Len(m) = Len(l)
           /\ ThumbsFit(l) => ThumbsFit(m)
           /\ ~NeedsThumb(m[i])
           /\ \A j \in DOMAIN l : NeedsThumb(m[j]) => NeedsThumb(l[j])
           /\ \A j \in DOMAIN l, n \in Names : IsEnrollOf(m[j], n) <=> IsEnrollOf(l[j], n)
<1>1. m = [j \in DOMAIN l |->
              IF l[j].sec = l[i].sec /\ l[j].image = l[i].image
                THEN [l[j] EXCEPT !.thumb = ThumbOf(l[i].image)] ELSE l[j]]
  BY DEF SetFaceThumb
<1>2. \A j \in DOMAIN l : l[j] \in StoredEntry
  OBVIOUS
<1>3. ThumbOf(l[i].image) \in Images \cup {None}
  BY MigrationAssumption DEF ThumbOf
<1>4. DOMAIN m = 1..Len(l) /\ \A j \in DOMAIN l : m[j] \in StoredEntry
  <2>1. ASSUME NEW e \in StoredEntry PROVE [e EXCEPT !.thumb = ThumbOf(l[i].image)] \in StoredEntry
    BY <1>3 DEF StoredEntry
  <2>2. ASSUME NEW j \in DOMAIN l PROVE m[j] \in StoredEntry
    BY <1>1, <1>2, <2>1
  <2> QED BY <1>1, <2>2
<1>5. m \in Seq(StoredEntry) /\ DOMAIN m = DOMAIN l /\ Len(m) = Len(l)
  BY <1>1, <1>4
<1>6. ASSUME NEW j \in DOMAIN l
      PROVE  /\ m[j].image = l[j].image /\ m[j].endpoint = l[j].endpoint /\ m[j].name = l[j].name
             /\ m[j].thumb = l[j].thumb \/ m[j].thumb = ThumbOf(l[j].image)
  BY <1>1, <1>2 DEF StoredEntry
<1>7. m[i].thumb = ThumbOf(l[i].image)
  BY <1>1, <1>2 DEF StoredEntry
<1>8. ThumbsFit(l) => ThumbsFit(m)
  BY <1>5, <1>6 DEF ThumbsFit, ThumbOf
<1>9. ~NeedsThumb(m[i]) /\ \A j \in DOMAIN l : NeedsThumb(m[j]) => NeedsThumb(l[j])
  BY <1>6, <1>7 DEF NeedsThumb
<1> QED BY <1>5, <1>6, <1>8, <1>9 DEF IsEnrollOf

\* The listed entries without their thumbnail are frames after the first k entries.
OnlyFrames(l, k) == \A j \in Listed(l) : NeedsThumb(l[j]) => j > k /\ ~l[j].face

\* An entry the service appends is a frame or brings its own thumbnail.
LEMMA EntryAppended ==
    ASSUME NEW l \in Seq(StoredEntry), NEW k \in 0..Len(l), NEW e \in StoredEntry,
           e.thumb = ThumbOf(e.image) \/ (e.thumb = None /\ ~e.face),
           NEW m, m = Append(l, e)
    PROVE  /\ m \in Seq(StoredEntry) /\ k \in 0..Len(m)
           /\ ThumbsFit(l) => ThumbsFit(m)
           /\ OnlyFrames(l, k) => OnlyFrames(m, k)
<1>1. /\ m \in Seq(StoredEntry) /\ Len(m) = Len(l) + 1
      /\ \A j \in DOMAIN m : (j \in DOMAIN l /\ m[j] = l[j]) \/ (j = Len(l) + 1 /\ m[j] = e)
  OBVIOUS
<1>2. ThumbsFit(l) => ThumbsFit(m)
  BY <1>1, MigrationAssumption DEF ThumbsFit, ThumbOf
<1>3. ASSUME OnlyFrames(l, k), NEW j \in Listed(m), NeedsThumb(m[j])
      PROVE  j > k /\ ~m[j].face
  <2>1. CASE j = Len(l) + 1 /\ m[j] = e
    <3>1. ~e.face
      BY <1>3, <2>1 DEF NeedsThumb
    <3>2. j > k
      BY <2>1
    <3> QED BY <2>1, <3>1, <3>2
  <2>2. CASE j \in DOMAIN l /\ m[j] = l[j]
    <3>1. j \in Listed(l)
      BY <1>1, <1>3, <2>2, MigrationAssumption DEF Listed
    <3> QED BY <1>3, <2>2, <3>1 DEF OnlyFrames
  <2> QED BY <1>1, <2>1, <2>2, <1>3 DEF Listed
<1>4. k \in 0..Len(m)
  BY <1>1
<1> QED BY <1>1, <1>2, <1>3, <1>4 DEF OnlyFrames

\* The two kinds of entries.
LEMMA EntriesOfService ==
    ASSUME NEW m \in Images \cup {None}, NEW sec \in Seconds
    PROVE  /\ \A op \in {"enroll", "scan"}, n \in Names \cup {None} :
                /\ FaceEntry(op, n, m, sec) \in StoredEntry
                /\ FaceEntry(op, n, m, sec).thumb = ThumbOf(FaceEntry(op, n, m, sec).image)
           /\ FrameEntry(m, sec) \in StoredEntry
           /\ FrameEntry(m, sec).thumb = None /\ ~FrameEntry(m, sec).face
<1>1. sec \in Nat
  BY LifecycleAssumption
<1>2. ThumbOf(m) \in Images \cup {None}
  BY DEF ThumbOf
<1> QED BY <1>1, <1>2 DEF FaceEntry, FrameEntry, StoredEntry
-----------------------------------------------------------------------------
\* The inductive invariant.

\* A record that is stored can be given a time.
UsersOK ==
    /\ users = [n \in Names |-> users[n]]
    /\ \A n \in Names : users[n] # NoUser => "updated" \in DOMAIN users[n]

LogOK ==
    /\ log \in Seq(StoredEntry)
    /\ ThumbsFit(log)
    /\ at \in 0..Len(log)
    /\ served \in 0..Len(log)

\* A request between two steps: an enrollment whose user is saved leaves a
\* record that no start will change.
HandlerOK(h, us) ==
    /\ h \in [at : {"idle", "infer", "save", "append", "frame"}, op : {"none", "enroll", "scan"},
              name : Names \cup {None}, image : Images \cup {None}]
    /\ h.at # "idle" => h.op # "none"
    /\ h.op = "enroll" => h.name \in Names
    /\ h.at = "save" => h.op = "enroll"
    /\ h.at = "frame" => h.op = "scan"
    /\ h.op # "none" => h.image \in Images
    /\ h.at = "append" /\ h.op = "enroll" => ~NeedsPictures(us[h.name])

HandlersOK ==
    /\ handler = [c \in Clients |-> handler[c]]
    /\ \A c \in Clients : HandlerOK(handler[c], users)
    /\ phase \in {"down", "users", "thumbs"} => \A c \in Clients : handler[c] = Idle

\* What this version has saved is never given pictures again.
WrittenOK == written \subseteq Names /\ \A n \in written : ~NeedsPictures(users[n])

\* No user waits for pictures that the log has.
NoneWaits == \A n \in Names : NeedsPictures(users[n]) => \A i \in DOMAIN log : ~IsEnrollOf(log[i], n)

Running == {"serving", "stopping", "draining", "closed"}

\* What the parts of a start that are over have achieved, unless a write failed.
StartOK ==
    /\ phase \in {"down", "users", "thumbs"} \cup Running
    /\ phase \in {"thumbs"} \cup Running /\ ~failed => NoneWaits
    /\ phase = "thumbs" /\ ~failed => \A j \in Listed(log) : j > at => ~NeedsThumb(log[j])
    /\ phase \in Running /\ ~failed => OnlyFrames(log, served)

\* Who may run before the server listens, when the bridge has been stopped and
\* when Shutdown is over.
StopOK ==
    /\ worker \in {"none", "connecting", "idle", "check", "gone"}
    /\ phase \in {"down", "users", "thumbs"} => worker \in {"none", "connecting"}
    /\ phase \in {"draining", "closed"} /\ worker \in {"connecting", "idle", "check"} => early
    /\ phase = "closed" => elapsed = Grace \/ \A c \in Clients : handler[c] = Idle

LifeInv == UsersOK /\ LogOK /\ HandlersOK /\ WrittenOK /\ StartOK /\ StopOK

\* The stored users and the log stay.
LEMMA DiskStays ==
    ASSUME UsersOK, ThumbsFit(log), WrittenOK, UNCHANGED <<users, log, written>>
    PROVE  UsersOK' /\ ThumbsFit(log)' /\ WrittenOK' /\ (NoneWaits' <=> NoneWaits)
           /\ Listed(log)' = Listed(log) /\ log' = log
  BY DEF UsersOK, ThumbsFit, WrittenOK, NoneWaits, Listed, NeedsPictures, IsEnrollOf

\* One handler goes on, while nothing is written.
LEMMA OneHandler ==
    ASSUME HandlersOK, NEW c \in Clients, NEW h, handler' = [handler EXCEPT ![c] = h],
           HandlerOK(h, users), UNCHANGED <<users, phase>>, phase \notin {"down", "users", "thumbs"}
    PROVE  HandlersOK'
<1>1. \A d \in Clients : handler'[d] = IF d = c THEN h ELSE handler[d]
  BY DEF HandlersOK
<1>2. \A g : HandlerOK(g, users') <=> HandlerOK(g, users)
  BY DEF HandlerOK, NeedsPictures
<1> QED BY <1>1, <1>2 DEF HandlersOK

\* All handlers stay, and records only change into ones that a start leaves alone.
LEMMA HandlersStay ==
    ASSUME HandlersOK, UNCHANGED handler,
           \A n \in Names : users'[n] = users[n] \/ ~NeedsPictures(users'[n]),
           phase' \in {"down", "users", "thumbs"} => \A c \in Clients : handler[c] = Idle
    PROVE  HandlersOK'
<1>1. ASSUME NEW h, HandlerOK(h, users) PROVE HandlerOK(h, users')
  BY <1>1 DEF HandlerOK, NeedsPictures
<1> QED BY <1>1 DEF HandlersOK

\* A user is saved or deleted by the service.
LEMMA UserSaved ==
    ASSUME LifeInv, NEW n \in Names, NEW u, users' = [users EXCEPT ![n] = u],
           u # NoUser => "updated" \in DOMAIN u /\ u.updated,
           written' = written \cup {n}, UNCHANGED log
    PROVE  /\ UsersOK' /\ WrittenOK' /\ ThumbsFit(log)' /\ log' \in Seq(StoredEntry)
           /\ NoneWaits => NoneWaits'
           /\ \A m \in Names : users'[m] = users[m] \/ ~NeedsPictures(users'[m])
           /\ ~NeedsPictures(users'[n])
<1>1. \A m \in Names : users'[m] = IF m = n THEN u ELSE users[m]
  BY DEF LifeInv, UsersOK
<1>2. ~NeedsPictures(u)
  BY DEF NeedsPictures
<1>3. UsersOK'
  BY <1>1 DEF LifeInv, UsersOK
<1>4. WrittenOK'
  BY <1>1, <1>2 DEF LifeInv, WrittenOK, NeedsPictures
<1>5. ThumbsFit(log)' /\ log' \in Seq(StoredEntry)
  BY DEF LifeInv, LogOK, ThumbsFit
<1>6. NoneWaits => NoneWaits'
  BY <1>1, <1>2 DEF NoneWaits, NeedsPictures, IsEnrollOf
<1> QED BY <1>1, <1>2, <1>3, <1>4, <1>5, <1>6
-----------------------------------------------------------------------------
\* Each action keeps the invariant.

\* Nothing is written, and main goes on or the process ends.
LEMMA NothingWritten ==
    ASSUME LifeInv, UNCHANGED disk, at' \in 0..Len(log), served' \in 0..Len(log),
           HandlersOK', StopOK',
           \/ UNCHANGED <<phase, failed, at, served>>
           \/ phase \in Running /\ phase' \in Running /\ UNCHANGED <<failed, served>>
           \/ phase' \in {"down", "users"}
    PROVE  LifeInv'
<1> USE DEF disk
<1>1. UsersOK' /\ ThumbsFit(log)' /\ WrittenOK' /\ (NoneWaits' <=> NoneWaits)
      /\ Listed(log)' = Listed(log) /\ log' = log
  BY DiskStays DEF LifeInv, LogOK
<1>2. LogOK'
  BY <1>1 DEF LifeInv, LogOK
<1>3. StartOK'
  BY <1>1 DEF LifeInv, StartOK, Running, OnlyFrames
<1> QED BY <1>1, <1>2, <1>3 DEF LifeInv

LEMMA OpenPreserves == LifeInv /\ Open => LifeInv'
<1> SUFFICES ASSUME LifeInv, Open PROVE LifeInv'
  OBVIOUS
<1>1. HandlersOK'
  BY HandlersStay DEF Open, LifeInv, HandlersOK, disk
<1>2. StopOK'
  BY DEF Open, LifeInv, StopOK
<1> QED BY <1>1, <1>2, NothingWritten DEF Open, start, LifeInv, LogOK

LEMMA BackfillPreserves == LifeInv /\ BackfillUsers => LifeInv'
<1> SUFFICES ASSUME LifeInv, BackfillUsers PROVE LifeInv'
  OBVIOUS
<1>0. /\ phase = "users" /\ phase' = "thumbs" /\ at' = Len(log)
      /\ UNCHANGED <<log, written, worker, early, handler, elapsed, served>>
      /\ log \in Seq(StoredEntry) /\ ThumbsFit(log)
  BY DEF BackfillUsers, LifeInv, LogOK, bridge
<1>1. /\ LogOK' /\ StopOK'
      /\ \A j \in Listed(log)' : ~(j > at')
  BY <1>0 DEF LogOK, StopOK, LifeInv, ThumbsFit, Listed
<1>2. CASE users' = Backfill(users, log) /\ UNCHANGED failed
  <2>1. ASSUME NEW n \in Names
        PROVE  \/ users'[n] = users[n] /\ ~(NeedsPictures(users[n]) /\ \E i \in DOMAIN log : IsEnrollOf(log[i], n))
               \/ users'[n].updated
    <3>1. DOMAIN users = Names /\ ("updated" \in DOMAIN users[n] \/ users[n] = NoUser)
      BY DEF LifeInv, UsersOK
    <3>2. users'[n] = IF NeedsPictures(users[n]) /\ \E i \in DOMAIN log : IsEnrollOf(log[i], n)
                        THEN [users[n] EXCEPT !.pictures = Recovered(log, n), !.updated = TRUE]
                        ELSE users[n]
      BY <1>2 DEF Backfill, LifeInv, UsersOK
    <3> QED BY <3>1, <3>2 DEF NeedsPictures
  <2>2. \A n \in Names : users'[n] = users[n] \/ ~NeedsPictures(users'[n])
    BY <2>1 DEF NeedsPictures
  <2>3. UsersOK'
    <3>1. users' = [n \in Names |-> users'[n]]
      BY <1>2 DEF Backfill, LifeInv, UsersOK
    <3>2. ASSUME NEW n \in Names, users'[n] # NoUser PROVE "updated" \in DOMAIN users'[n]
      <4>1. users'[n] = users[n] \/
            users'[n] = [users[n] EXCEPT !.pictures = Recovered(log, n), !.updated = TRUE]
        BY <1>2 DEF Backfill, LifeInv, UsersOK
      <4>2. users[n] # NoUser
        BY <1>2, <3>2 DEF Backfill, LifeInv, UsersOK, NeedsPictures
      <4> QED BY <4>1, <4>2 DEF LifeInv, UsersOK
    <3> QED BY <3>1, <3>2 DEF UsersOK
  <2>4. WrittenOK'
    BY <1>0, <2>2 DEF LifeInv, WrittenOK, NeedsPictures
  <2>5. NoneWaits'
    BY <1>0, <2>1 DEF NoneWaits, NeedsPictures, IsEnrollOf
  <2>6. HandlersOK'
    BY <1>0, <2>2, HandlersStay DEF LifeInv, HandlersOK
  <2> QED BY <1>0, <1>1, <2>3, <2>4, <2>5, <2>6 DEF LifeInv, StartOK, Running
<1>3. CASE failed' = TRUE /\ UNCHANGED users
  <2>1. UsersOK' /\ WrittenOK'
    BY <1>0, <1>3, DiskStays DEF LifeInv
  <2>2. HandlersOK'
    BY <1>0, <1>3, HandlersStay DEF LifeInv, HandlersOK
  <2> QED BY <1>0, <1>1, <1>3, <2>1, <2>2 DEF LifeInv, StartOK, Running
<1> QED BY <1>2, <1>3 DEF BackfillUsers

LEMMA ThumbPreserves == LifeInv /\ BackfillThumb => LifeInv'
<1> SUFFICES ASSUME LifeInv, BackfillThumb PROVE LifeInv'
  OBVIOUS
<1>1. PICK i \in DOMAIN log :
         /\ IsNextForThumb(log, at, i)
         /\ at' = i - 1
         /\ \/ log' = SetFaceThumb(log, log[i].sec, log[i].image) /\ UNCHANGED failed
            \/ failed' = TRUE /\ UNCHANGED log
  BY DEF BackfillThumb
<1>2. /\ phase = "thumbs"
      /\ UNCHANGED <<users, written, phase, elapsed, served, worker, early, handler>>
      /\ log \in Seq(StoredEntry) /\ ThumbsFit(log) /\ at \in 0..Len(log)
      /\ served \in 0..Len(log)
  BY DEF BackfillThumb, bridge, LifeInv, LogOK
<1>3. /\ i \in Listed(log) /\ i <= at
      /\ \A j \in Listed(log) : j <= at /\ j > i => ~NeedsThumb(log[j])
  BY <1>1, <1>2 DEF IsNextForThumb, Listed
<1>4. UsersOK' /\ WrittenOK' /\ StopOK'
  BY <1>2 DEF LifeInv, UsersOK, WrittenOK, StopOK, NeedsPictures
<1>5. HandlersOK'
  BY <1>2, HandlersStay DEF LifeInv, HandlersOK
<1>6. CASE failed' = TRUE /\ UNCHANGED log
  <2>1. LogOK'
    BY <1>1, <1>2, <1>6 DEF LogOK, ThumbsFit
  <2> QED BY <1>2, <1>4, <1>5, <1>6, <2>1 DEF LifeInv, StartOK
<1>7. CASE log' = SetFaceThumb(log, log[i].sec, log[i].image) /\ UNCHANGED failed
  <2>1. /\ log' \in Seq(StoredEntry) /\ DOMAIN log' = DOMAIN log /\ Len(log') = Len(log)
        /\ ThumbsFit(log')
        /\ ~NeedsThumb(log'[i])
        /\ \A j \in DOMAIN log : NeedsThumb(log'[j]) => NeedsThumb(log[j])
        /\ \A j \in DOMAIN log, n \in Names : IsEnrollOf(log'[j], n) <=> IsEnrollOf(log[j], n)
    BY <1>2, <1>7, ThumbnailSet
  <2>2. LogOK'
    BY <1>1, <1>2, <2>1 DEF LogOK, ThumbsFit
  <2>3. NoneWaits => NoneWaits'
    BY <1>2, <2>1 DEF NoneWaits, NeedsPictures, IsEnrollOf
  <2>4. ASSUME ~failed', NEW j \in Listed(log'), j > at' PROVE ~NeedsThumb(log'[j])
    <3>1. j \in Listed(log)
      BY <2>1, <2>4 DEF Listed
    <3>2. j >= i
      BY <1>1, <2>1, <2>4 DEF Listed
    <3>3. j > at => ~NeedsThumb(log[j])
      BY <1>2, <1>7, <2>4, <3>1 DEF LifeInv, StartOK
    <3> QED BY <1>2, <1>3, <2>1, <3>1, <3>2, <3>3 DEF Listed
  <2>5. StartOK'
    <3>1. phase' = "thumbs" /\ (~failed' => NoneWaits')
      BY <1>2, <1>7, <2>3 DEF LifeInv, StartOK
    <3>2. \A j \in Listed(log)' : ~failed' /\ j > at' => ~NeedsThumb(log[j])'
      BY <2>4 DEF Listed, NeedsThumb
    <3> QED BY <3>1, <3>2 DEF StartOK, Running
  <2> QED BY <1>4, <1>5, <2>2, <2>5 DEF LifeInv
<1> QED BY <1>1, <1>6, <1>7

\* When the loop finds nothing more, no listed entry lacks its thumbnail.
LEMMA ServePreserves == LifeInv /\ Serve => LifeInv'
<1> SUFFICES ASSUME LifeInv, Serve PROVE LifeInv'
  OBVIOUS
<1>1. /\ phase = "thumbs" /\ phase' = "serving" /\ at' = 0
      /\ served' = Len(log)
      /\ UNCHANGED <<users, log, written, elapsed, worker, early, handler>>
      /\ log \in Seq(StoredEntry) /\ at \in 0..Len(log)
      /\ ~failed' => ~failed /\ \A i \in DOMAIN log : ~IsNextForThumb(log, at, i)
  BY DEF Serve, disk, bridge, LifeInv, LogOK
<1>2. ASSUME ~failed', NEW j \in Listed(log), NeedsThumb(log[j]) PROVE FALSE
  <2> DEFINE T == {k \in Listed(log) : k <= at /\ NeedsThumb(log[k])}
  <2>1. ~(j > at)
    BY <1>1, <1>2 DEF LifeInv, StartOK
  <2>2. j \in T /\ T \subseteq 1..Len(log) /\ Len(log) \in Nat
    BY <1>1, <1>2, <2>1 DEF Listed
  <2>3. PICK i \in T : \A k \in T : k <= i
    BY <2>2, LastExists
  <2>4. IsNextForThumb(log, at, i) /\ i \in DOMAIN log
    BY <2>3 DEF IsNextForThumb, Listed
  <2> QED BY <1>1, <1>2, <2>4
<1>3. UsersOK' /\ WrittenOK' /\ (NoneWaits' <=> NoneWaits) /\ ThumbsFit(log)'
      /\ Listed(log)' = Listed(log) /\ log' = log
  BY <1>1, DiskStays DEF LifeInv, LogOK
<1>4. LogOK' /\ StopOK'
  BY <1>1, <1>3 DEF LogOK, StopOK, LifeInv
<1>5. HandlersOK'
  BY <1>1, HandlersStay DEF LifeInv, HandlersOK
<1>6. StartOK'
  <2>1. ~failed' => OnlyFrames(log, served)'
    BY <1>2, <1>3 DEF OnlyFrames
  <2> QED BY <1>1, <1>3, <2>1 DEF LifeInv, StartOK, Running
<1> QED BY <1>3, <1>4, <1>5, <1>6 DEF LifeInv

\* A handler that is not idle belongs to a server that is up.
LEMMA BusyHandler ==
    ASSUME LifeInv, NEW c \in Clients, handler[c].at # "idle"
    PROVE  phase \in Running /\ HandlerOK(handler[c], users)
           /\ (phase = "closed" => elapsed = Grace)
BY DEF LifeInv, HandlersOK, StartOK, StopOK, Idle, Running

LEMMA IdleIsOK == HandlerOK(Idle, users)
BY DEF HandlerOK, Idle


\* A handler goes on to its next step.
LEMMA HandlerGoesOn ==
    ASSUME NEW h, HandlerOK(h, users), NEW step \in {"save", "append", "frame"},
           h.at # "idle", step = "save" => h.op = "enroll", step = "frame" => h.op = "scan",
           step = "append" /\ h.op = "enroll" => ~NeedsPictures(users[h.name])
    PROVE  HandlerOK([h EXCEPT !.at = step], users)
BY DEF HandlerOK

LEMMA StartRequestPreserves ==
    ASSUME LifeInv, NEW c \in Clients, StartRequest(c)
    PROVE  LifeInv'
<1>1. /\ phase \in {"serving", "stopping"} /\ UNCHANGED <<disk, main, bridge>>
  BY DEF StartRequest, Listening
<1>0. \E h : handler' = [handler EXCEPT ![c] = h] /\ HandlerOK(h, users)
  <2>1. ASSUME NEW n \in Names, NEW m \in Images
        PROVE  HandlerOK([at |-> "infer", op |-> "enroll", name |-> n, image |-> m], users)
    BY DEF HandlerOK
  <2>2. ASSUME NEW m \in Images
        PROVE  HandlerOK([at |-> "infer", op |-> "scan", name |-> None, image |-> m], users)
    BY DEF HandlerOK
  <2> QED BY <2>1, <2>2 DEF StartRequest
<1>2. HandlersOK'
  BY <1>0, <1>1, OneHandler DEF LifeInv, disk, main
<1>3. StopOK'
  BY <1>1 DEF LifeInv, StopOK, main, bridge
<1> QED BY <1>1, <1>2, <1>3, NothingWritten DEF main, start, LifeInv, LogOK

\* A handler answers, or goes on without writing.
LEMMA QuietRequest ==
    ASSUME LifeInv, NEW c \in Clients, NEW h, handler[c].at # "idle", HandlerOK(h, users),
           handler' = [handler EXCEPT ![c] = h], UNCHANGED <<disk, main, bridge>>
    PROVE  LifeInv'
<1>1. phase \in Running /\ (phase = "closed" => elapsed = Grace)
  BY BusyHandler
<1>2. HandlersOK'
  BY <1>1, OneHandler DEF LifeInv, Running, disk, main
<1>3. StopOK'
  BY <1>1 DEF LifeInv, StopOK, main, bridge
<1> QED BY <1>1, <1>2, <1>3, NothingWritten DEF main, start, LifeInv, LogOK

LEMMA InferPreserves ==
    ASSUME LifeInv, NEW c \in Clients, Infer(c)
    PROVE  LifeInv'
<1>1. handler[c].at = "infer" /\ UNCHANGED <<disk, main, bridge>> /\ HandlerOK(handler[c], users)
  BY DEF Infer, LifeInv, HandlersOK
<1>2. CASE Answer(c)
  BY <1>1, <1>2, IdleIsOK, QuietRequest DEF Answer
<1>3. CASE GoOn(c, IF handler[c].op = "enroll" THEN "save" ELSE "append")
  <2> DEFINE step == IF handler[c].op = "enroll" THEN "save" ELSE "append"
             h == [handler[c] EXCEPT !.at = step]
  <2>1. HandlerOK(h, users)
    BY <1>1, HandlerGoesOn
  <2>2. handler' = [handler EXCEPT ![c] = h]
    BY <1>3 DEF GoOn
  <2> HIDE DEF h
  <2> QED BY <1>1, <2>1, <2>2, QuietRequest
<1>4. CASE handler[c].op = "scan" /\ GoOn(c, "frame")
  <2> DEFINE h == [handler[c] EXCEPT !.at = "frame"]
  <2>1. HandlerOK(h, users)
    BY <1>1, <1>4, HandlerGoesOn
  <2>2. handler' = [handler EXCEPT ![c] = h]
    BY <1>4 DEF GoOn
  <2> HIDE DEF h
  <2> QED BY <1>1, <2>1, <2>2, QuietRequest
<1> QED BY <1>2, <1>3, <1>4 DEF Infer

\* The service writes a user; the log, and what the start has done, stay.
LEMMA UserWritten ==
    ASSUME LifeInv, NEW n \in Names, NEW u, users' = [users EXCEPT ![n] = u],
           u # NoUser => "updated" \in DOMAIN u /\ u.updated,
           written' = written \cup {n}, UNCHANGED <<log, main, bridge>>,
           phase \in Running, HandlersOK', StopOK'
    PROVE  LifeInv'
<1>1. /\ UsersOK' /\ WrittenOK' /\ ThumbsFit(log)' /\ log' \in Seq(StoredEntry)
      /\ NoneWaits => NoneWaits'
  BY UserSaved
<1>2. LogOK'
  BY <1>1 DEF LifeInv, LogOK, main, start
<1>3. StartOK'
  BY <1>1 DEF LifeInv, StartOK, main, start, Running, Listed, NeedsThumb, OnlyFrames
<1> QED BY <1>1, <1>2, <1>3 DEF LifeInv

LEMMA SaveUserPreserves ==
    ASSUME LifeInv, NEW c \in Clients, SaveUser(c)
    PROVE  LifeInv'
<1> DEFINE n == handler[c].name
           h == [handler[c] EXCEPT !.at = "append"]
<1>1. /\ handler[c].at = "save" /\ HandlerOK(handler[c], users) /\ UNCHANGED <<log, main, bridge>>
      /\ phase \in Running /\ (phase = "closed" => elapsed = Grace)
  BY BusyHandler DEF SaveUser
<1>2. CASE Answer(c) /\ UNCHANGED <<users, written>>
  BY <1>1, <1>2, IdleIsOK, QuietRequest DEF Answer, disk
<1>3. CASE ~(Answer(c) /\ UNCHANGED <<users, written>>)
  <2>1. /\ written' = written \cup {n}
        /\ handler' = [handler EXCEPT ![c] = h]
        /\ \E u : /\ users' = [users EXCEPT ![n] = u]
                  /\ "updated" \in DOMAIN u /\ u.updated
    BY <1>3 DEF SaveUser, GoOn
  <2>2. n \in Names
    BY <1>1 DEF HandlerOK
  <2>3. PICK u : users' = [users EXCEPT ![n] = u] /\ "updated" \in DOMAIN u /\ u.updated
    BY <2>1
  <2>4. /\ \A m \in Names : users'[m] = users[m] \/ ~NeedsPictures(users'[m])
        /\ ~NeedsPictures(users'[n])
    BY <1>1, <2>1, <2>2, <2>3, UserSaved
  <2>5. HandlersOK'
    <3>1. ASSUME NEW g, HandlerOK(g, users) PROVE HandlerOK(g, users')
      BY <2>4, <3>1 DEF HandlerOK, NeedsPictures
    <3>2. HandlerOK(h, users')
      <4>1. h.at = "append" /\ h.name = n /\ h.op = "enroll" /\ h.image = handler[c].image
        BY <1>1 DEF HandlerOK
      <4>2. h \in [at : {"idle", "infer", "save", "append", "frame"}, op : {"none", "enroll", "scan"},
                   name : Names \cup {None}, image : Images \cup {None}]
        BY <1>1 DEF HandlerOK
      <4> HIDE DEF h
      <4>3. h.image \in Images
        BY <1>1, <4>1 DEF HandlerOK
      <4> QED BY <2>2, <2>4, <4>1, <4>2, <4>3 DEF HandlerOK, NeedsPictures
    <3> HIDE DEF h
    <3>3. \A d \in Clients : handler'[d] = IF d = c THEN h ELSE handler[d]
      BY <2>1 DEF LifeInv, HandlersOK
    <3>4. \A d \in Clients : HandlerOK(handler'[d], users')
      BY <3>1, <3>2, <3>3 DEF LifeInv, HandlersOK
    <3> QED BY <1>1, <2>1, <3>4 DEF HandlersOK, LifeInv, Running, main
  <2>6. StopOK'
    BY <1>1 DEF LifeInv, StopOK, main, bridge
  <2> HIDE DEF n, h
  <2> QED BY <1>1, <2>1, <2>2, <2>3, <2>5, <2>6, UserWritten
<1> QED BY <1>2, <1>3

\* A face or a frame is appended; an enroll entry is of a user no start will
\* change.
LEMMA EntryWritten ==
    ASSUME LifeInv, NEW e \in StoredEntry,
           e.thumb = ThumbOf(e.image) \/ (e.thumb = None /\ ~e.face),
           \A n \in Names : IsEnrollOf(e, n) => ~NeedsPictures(users[n]),
           log' = Append(log, e), UNCHANGED <<users, written, main>>, phase \in Running,
           HandlersOK', StopOK'
    PROVE  LifeInv'
<1>1. log \in Seq(StoredEntry) /\ ThumbsFit(log) /\ at \in 0..Len(log)
      /\ served \in 0..Len(log) /\ at' = at /\ served' = served
  BY DEF LifeInv, LogOK, main, start
<1>2. /\ log' \in Seq(StoredEntry) /\ served' \in 0..Len(log') /\ ThumbsFit(log')
      /\ OnlyFrames(log, served) => OnlyFrames(log', served')
  BY <1>1, EntryAppended
<1>3. LogOK'
  <2>1. at' \in 0..Len(log')
    BY <1>1
  <2> QED BY <1>2, <2>1 DEF LogOK, ThumbsFit
<1>4. NoneWaits => NoneWaits'
  <2>1. \A j \in DOMAIN log' : log'[j] = e \/ (j \in DOMAIN log /\ log'[j] = log[j])
    BY <1>1
  <2> QED BY <2>1 DEF NoneWaits, NeedsPictures, IsEnrollOf
<1>5. StartOK'
  <2>1. OnlyFrames(log, served) => OnlyFrames(log, served)'
    BY <1>2 DEF OnlyFrames, Listed, NeedsThumb
  <2> QED BY <1>4, <2>1 DEF LifeInv, StartOK, main, start, Running
<1>6. UsersOK' /\ WrittenOK'
  BY DEF LifeInv, UsersOK, WrittenOK, NeedsPictures
<1> QED BY <1>3, <1>5, <1>6 DEF LifeInv

LEMMA AppendEntryPreserves ==
    ASSUME LifeInv, NEW c \in Clients, AppendEntry(c)
    PROVE  LifeInv'
<1> DEFINE h == handler[c]
<1>1. /\ h.at \in {"append", "frame"} /\ HandlerOK(h, users)
      /\ handler' = [handler EXCEPT ![c] = Idle] /\ UNCHANGED <<users, written, main, bridge>>
  BY DEF AppendEntry, Answer, LifeInv, HandlersOK
<1>2. phase \in Running /\ (phase = "closed" => elapsed = Grace)
  BY <1>1, BusyHandler
<1>3. CASE UNCHANGED log
  BY <1>1, <1>3, IdleIsOK, QuietRequest DEF disk
<1>4. CASE ~UNCHANGED log
  <2>1. \E e \in StoredEntry :
           /\ log' = Append(log, e)
           /\ e.thumb = ThumbOf(e.image) \/ (e.thumb = None /\ ~e.face)
           /\ \A n \in Names : IsEnrollOf(e, n) => ~NeedsPictures(users[n])
    <3>1. CASE h.at = "append"
      <4>1. PICK sec \in Seconds : log' = Append(log, FaceEntry(h.op, h.name, h.image, sec))
        BY <1>4, <3>1 DEF AppendEntry
      <4>2. h.op \in {"enroll", "scan"} /\ h.name \in Names \cup {None} /\ h.image \in Images
        BY <1>1 DEF HandlerOK
      <4> DEFINE e == FaceEntry(h.op, h.name, h.image, sec)
      <4>3. e \in StoredEntry /\ e.thumb = ThumbOf(e.image)
        BY <4>2, EntriesOfService
      <4>4. \A n \in Names : IsEnrollOf(e, n) => ~NeedsPictures(users[n])
        BY <1>1, <3>1 DEF IsEnrollOf, HandlerOK, FaceEntry
      <4> QED BY <4>1, <4>3, <4>4
    <3>2. CASE h.at = "frame"
      <4>1. PICK m \in {h.image, None}, sec \in Seconds : log' = Append(log, FrameEntry(m, sec))
        BY <1>4, <3>2 DEF AppendEntry
      <4>2. m \in Images \cup {None}
        BY <1>1 DEF HandlerOK
      <4> DEFINE e == FrameEntry(m, sec)
      <4>3. e \in StoredEntry /\ e.thumb = None /\ ~e.face
        BY <4>2, EntriesOfService
      <4>4. \A n \in Names : ~IsEnrollOf(e, n)
        BY DEF IsEnrollOf, FrameEntry
      <4> QED BY <4>1, <4>3, <4>4
    <3> QED BY <1>1, <3>1, <3>2
  <2>2. HandlersOK'
    BY <1>1, <1>2, IdleIsOK, OneHandler DEF LifeInv, Running, main
  <2>3. StopOK'
    BY <1>1, <1>2 DEF LifeInv, StopOK, main, bridge
  <2> QED BY <1>1, <1>2, <2>1, <2>2, <2>3, EntryWritten
<1> QED BY <1>3, <1>4

\* The check of the MQTT worker ends, with or without an entry.
LEMMA EndCheckPreserves ==
    ASSUME LifeInv, EndCheck
    PROVE  LifeInv'
<1>1. /\ worker = "check" /\ worker' = "idle" /\ phase # "down"
      /\ UNCHANGED <<users, written, main, early, handler>>
  BY DEF EndCheck, HasProcess
<1>2. HandlersOK'
  BY <1>1, HandlersStay DEF LifeInv, HandlersOK, main
<1>3. StopOK'
  BY <1>1 DEF LifeInv, StopOK, main
<1>4. CASE UNCHANGED log
  BY <1>1, <1>2, <1>3, <1>4, NothingWritten DEF main, start, disk, LifeInv, LogOK
<1>5. CASE ~UNCHANGED log
  <2>1. PICK m \in Images \cup {None}, sec \in Seconds :
           \/ log' = Append(log, FaceEntry("scan", None, m, sec))
           \/ log' = Append(log, FrameEntry(m, sec))
    BY <1>5 DEF EndCheck
  <2>2. \E e \in StoredEntry :
           /\ log' = Append(log, e)
           /\ e.thumb = ThumbOf(e.image) \/ (e.thumb = None /\ ~e.face)
           /\ \A n \in Names : ~IsEnrollOf(e, n)
    <3>1. \A n \in Names : ~IsEnrollOf(FaceEntry("scan", None, m, sec), n)
                           /\ ~IsEnrollOf(FrameEntry(m, sec), n)
      BY DEF IsEnrollOf, FaceEntry, FrameEntry
    <3> QED BY <2>1, <3>1, EntriesOfService
  <2>3. phase \in Running
    BY <1>1 DEF LifeInv, StartOK, StopOK
  <2> QED BY <1>1, <1>2, <1>3, <2>2, <2>3, EntryWritten
<1> QED BY <1>4, <1>5

LEMMA DeletionsPreserve ==
    ASSUME LifeInv, NEW n \in Names, DeletePicture(n) \/ DeleteUser(n)
    PROVE  LifeInv'
<1>1. /\ phase \in {"serving", "stopping"} /\ UNCHANGED <<log, main, bridge, handler>>
      /\ written' = written \cup {n}
      /\ \E u : /\ users' = [users EXCEPT ![n] = u]
                /\ u # NoUser => "updated" \in DOMAIN u /\ u.updated
  BY DEF DeletePicture, DeleteUser, Listening
<1>2. PICK u : /\ users' = [users EXCEPT ![n] = u]
               /\ u # NoUser => "updated" \in DOMAIN u /\ u.updated
  BY <1>1
<1>3. \A m \in Names : users'[m] = users[m] \/ ~NeedsPictures(users'[m])
  BY <1>1, <1>2, UserSaved
<1>4. HandlersOK'
  BY <1>1, <1>3, HandlersStay DEF LifeInv, main
<1>5. StopOK'
  BY <1>1 DEF LifeInv, StopOK, main, bridge
<1> QED BY <1>1, <1>2, <1>4, <1>5, UserWritten DEF Running

\* The worker, the signal, the shutdown and the clock write nothing.
LEMMA QuietPreserves ==
    ASSUME LifeInv,
           \/ StartWorker \/ StartCheck \/ EndWorker
           \/ Signal \/ StopBridge \/ Tick \/ CloseSessions
    PROVE  LifeInv'
<1>1. /\ UNCHANGED <<disk, start, handler>>
      /\ UNCHANGED phase \/ (phase \in Running /\ phase' \in Running)
  BY DEF StartWorker, StartCheck, EndWorker, Signal, StopBridge, Tick,
         CloseSessions, main, Running
<1>2. HandlersOK'
  BY <1>1, HandlersStay DEF LifeInv, HandlersOK, disk, Running
<1>3. StopOK'
  BY DEF LifeInv, StopOK, StartWorker, StartCheck, EndWorker, Signal, StopBridge,
         Tick, CloseSessions, main, bridge, HasProcess
<1> QED BY <1>1, <1>2, <1>3, NothingWritten DEF start, LifeInv, LogOK

LEMMA DiePreserves == LifeInv /\ Die => LifeInv'
<1> SUFFICES ASSUME LifeInv, Die PROVE LifeInv'
  OBVIOUS
<1>1. HandlersOK'
  <2>1. HandlerOK(Idle, users')
    BY DEF HandlerOK, Idle
  <2> QED BY <2>1 DEF Die, HandlersOK
<1>2. StopOK'
  BY DEF Die, StopOK
<1> QED BY <1>1, <1>2, NothingWritten DEF Die, LifeInv, LogOK

LEMMA LifeInitially == Init => LifeInv
<1> SUFFICES ASSUME Init PROVE LifeInv
  OBVIOUS
<1>1. /\ users \in [Names -> StoredUser \cup {NoUser}]
      /\ log \in Seq(StoredEntry) /\ ThumbsFit(log)
  BY InitDisksAssumption DEF Init
<1>2. UsersOK
  BY <1>1 DEF UsersOK, StoredUser
<1>3. HandlersOK
  BY IdleIsOK DEF Init, HandlersOK
<1> QED BY <1>1, <1>2, <1>3 DEF Init, LifeInv, LogOK, WrittenOK, StartOK, StopOK, Running

LEMMA LifeInvariance == Spec => []LifeInv
<1>1. LifeInv /\ Next => LifeInv'
  BY OpenPreserves, BackfillPreserves, ThumbPreserves, ServePreserves, StartRequestPreserves,
     InferPreserves, SaveUserPreserves, AppendEntryPreserves, DeletionsPreserve,
     EndCheckPreserves, QuietPreserves, DiePreserves
     DEF Next, StartUp, Request, ShutDown, Exit, Crash
<1>2. LifeInv /\ UNCHANGED vars => LifeInv'
  <2> SUFFICES ASSUME LifeInv, UNCHANGED vars PROVE LifeInv'
    OBVIOUS
  <2>1. HandlersOK'
    BY HandlersStay DEF vars, disk, main, LifeInv, HandlersOK
  <2>2. StopOK'
    BY DEF vars, main, bridge, LifeInv, StopOK
  <2> QED BY <2>1, <2>2, NothingWritten DEF vars, main, start, LifeInv, LogOK
<1> QED BY <1>1, <1>2, LifeInitially, PTL DEF Spec
-----------------------------------------------------------------------------
\* Type correctness.

\* A picture and its embedding leave together.
LEMMA ShorterSeq ==
    ASSUME NEW s \in Seq(Images), NEW i \in DOMAIN s
    PROVE  RemoveAt(s, i) \in Seq(Images)
<1>1. SubSeq(s, 1, i - 1) \in Seq(Images) /\ SubSeq(s, i + 1, Len(s)) \in Seq(Images)
  BY SubSeqProperties
<1> QED BY <1>1, ConcatProperties DEF RemoveAt

\* A record the service or a backfill writes.
LEMMA RecordWritten ==
    ASSUME users \in [Names -> StoredUser \cup {NoUser}], NEW n \in Names,
           NEW u \in StoredUser \cup {NoUser}, users' = [users EXCEPT ![n] = u]
    PROVE  users' \in [Names -> StoredUser \cup {NoUser}]
  OBVIOUS

LEMMA BackfillTyped ==
    ASSUME users \in [Names -> StoredUser \cup {NoUser}], log \in Seq(StoredEntry)
    PROVE  Backfill(users, log) \in [Names -> StoredUser \cup {NoUser}]
<1>1. ASSUME NEW n \in Names, NeedsPictures(users[n])
      PROVE  [users[n] EXCEPT !.pictures = Recovered(log, n), !.updated = TRUE] \in StoredUser
  <2>1. users[n] \in StoredUser
    BY <1>1 DEF NeedsPictures
  <2>2. Recovered(log, n) \in Seq(Images)
    BY RecoveredGroup DEF Groups
  <2> QED BY <2>1, <2>2 DEF StoredUser
<1>2. \A n \in Names : Backfill(users, log)[n] \in StoredUser \cup {NoUser}
  BY <1>1 DEF Backfill
<1> QED BY <1>2 DEF Backfill

LEMMA SaveUserTyped ==
    ASSUME LifeInv, TypeOK, NEW c \in Clients, SaveUser(c)
    PROVE  users' \in [Names -> StoredUser \cup {NoUser}]
<1> DEFINE n == handler[c].name
           m == handler[c].image
           u == users[n]
           v == [format     |-> "record",
                 embeddings |-> IF u = NoUser THEN <<m>> ELSE Append(u.embeddings, m),
                 pictures   |-> IF u = NoUser THEN <<m>> ELSE Append(u.pictures, m),
                 updated    |-> TRUE]
<1>1. n \in Names /\ u \in StoredUser \cup {NoUser}
  BY DEF SaveUser, LifeInv, HandlersOK, HandlerOK, TypeOK
<1>2. m \in Images
  BY DEF SaveUser, LifeInv, HandlersOK, HandlerOK
<1>3. v \in StoredUser
  <2>1. CASE u = NoUser
    BY <1>2, <2>1 DEF StoredUser
  <2>2. CASE u # NoUser
    <3>1. u.embeddings \in Seq(Images) /\ u.pictures \in Seq(Images)
      BY <1>1, <2>2 DEF StoredUser
    <3>2. Append(u.embeddings, m) \in Seq(Images) /\ Append(u.pictures, m) \in Seq(Images)
      BY <1>2, <3>1
    <3> QED BY <2>2, <3>2 DEF StoredUser
  <2> QED BY <2>1, <2>2
<1>4. users' = [users EXCEPT ![n] = v] \/ UNCHANGED users
  BY DEF SaveUser
<1> HIDE DEF n, v
<1> QED BY <1>1, <1>3, <1>4, RecordWritten DEF TypeOK

LEMMA DeletionsTyped ==
    ASSUME TypeOK, NEW n \in Names, DeletePicture(n) \/ DeleteUser(n)
    PROVE  users' \in [Names -> StoredUser \cup {NoUser}]
<1>1. CASE DeleteUser(n)
  BY <1>1, RecordWritten DEF DeleteUser, TypeOK
<1>2. CASE DeletePicture(n)
  <2> DEFINE u == users[n]
             v(i) == [format     |-> "record",
                      embeddings |-> RemoveAt(u.embeddings, i),
                      pictures   |-> RemoveAt(u.pictures, i),
                      updated    |-> TRUE]
  <2>1. PICK i \in DOMAIN u.embeddings \cap DOMAIN u.pictures :
           users' = [users EXCEPT ![n] = v(i)]
    BY <1>2 DEF DeletePicture
  <2>2. u \in StoredUser
    BY <1>2 DEF DeletePicture, TypeOK
  <2>3. RemoveAt(u.embeddings, i) \in Seq(Images) /\ RemoveAt(u.pictures, i) \in Seq(Images)
    <3>1. u.embeddings \in Seq(Images) /\ u.pictures \in Seq(Images)
      BY <2>2 DEF StoredUser
    <3> QED BY <2>1, <3>1, ShorterSeq
  <2>4. v(i) \in StoredUser
    BY <2>3 DEF StoredUser
  <2> HIDE DEF v
  <2> QED BY <2>1, <2>4, RecordWritten DEF TypeOK
<1> QED BY <1>1, <1>2

\* The clocks and flags, which no lemma above speaks of.
LEMMA FlagsTyped ==
    ASSUME TypeOK, [Next]_vars
    PROVE  early' \in BOOLEAN /\ elapsed' \in 0..Grace /\ failed' \in BOOLEAN
<1>1. CASE StartUp
  BY <1>1 DEF StartUp, Open, BackfillUsers, BackfillThumb, Serve, start, bridge, TypeOK
<1>2. ASSUME NEW c \in Clients, StartRequest(c) \/ Request(c)
      PROVE  UNCHANGED <<early, elapsed, failed>>
  BY <1>2 DEF StartRequest, Request, Infer, SaveUser, AppendEntry, main, start, bridge
<1>3. ASSUME NEW n \in Names, DeletePicture(n) \/ DeleteUser(n)
      PROVE  UNCHANGED <<early, elapsed, failed>>
  BY <1>3 DEF DeletePicture, DeleteUser, main, start, bridge
<1>4. CASE StartWorker \/ StartCheck \/ EndCheck \/ EndWorker \/ Signal
  BY <1>4 DEF StartWorker, StartCheck, EndCheck, EndWorker, Signal, main, start, bridge, TypeOK
<1>5. CASE StopBridge \/ Tick \/ CloseSessions
  <2>1. early' \in BOOLEAN /\ failed' \in BOOLEAN
    BY <1>5, Zenon DEF StopBridge, Tick, CloseSessions, start, bridge, TypeOK
  <2>2. elapsed' \in 0..Grace
    BY <1>5, LifecycleAssumption, SMT DEF StopBridge, Tick, CloseSessions, TypeOK
  <2> QED BY <2>1, <2>2
<1>6. CASE Die
  <2>1. early' \in BOOLEAN /\ failed' \in BOOLEAN
    BY <1>6 DEF Die
  <2>2. elapsed' \in 0..Grace
    BY <1>6, LifecycleAssumption, SMT DEF Die
  <2> QED BY <2>1, <2>2
<1> QED BY <1>1, <1>2, <1>3, <1>4, <1>5, <1>6 DEF Next, ShutDown, Exit, Crash, vars, main, start, bridge, TypeOK

\* The stored users.
LEMMA UsersTyped ==
    ASSUME LifeInv, TypeOK, [Next]_vars
    PROVE  users' \in [Names -> StoredUser \cup {NoUser}]
<1>1. CASE StartUp
  BY <1>1, BackfillTyped DEF StartUp, Open, BackfillUsers, BackfillThumb, Serve, disk, TypeOK
<1>2. ASSUME NEW c \in Clients, StartRequest(c) \/ Infer(c) \/ AppendEntry(c)
      PROVE  UNCHANGED users
  BY <1>2 DEF StartRequest, Infer, AppendEntry, disk
<1>3. CASE \/ StartWorker \/ StartCheck \/ EndCheck \/ EndWorker \/ Signal
           \/ StopBridge \/ Tick \/ CloseSessions \/ Die
  BY <1>3 DEF StartWorker, StartCheck, EndCheck, EndWorker, Signal, StopBridge, Tick,
              CloseSessions, Die, disk, TypeOK
<1> QED BY <1>1, <1>2, <1>3, SaveUserTyped, DeletionsTyped
        DEF Next, Request, ShutDown, Exit, Crash, vars, disk, TypeOK

\* The log stays readable and the users stay records or arrays of an earlier
\* version, through failed backfills, requests and crashes; the pictures a start
\* recovers are images of the log.
THEOREM LifecycleTypeCorrectness == Spec => []TypeOK
<1>1. LifeInv /\ users \in [Names -> StoredUser \cup {NoUser}] /\ early \in BOOLEAN
      /\ elapsed \in 0..Grace /\ failed \in BOOLEAN => TypeOK
  BY DEF LifeInv, LogOK, HandlersOK, HandlerOK, WrittenOK, StartOK, StopOK, Running, TypeOK
<1>2. Init => TypeOK
  <2> SUFFICES ASSUME Init PROVE TypeOK
    OBVIOUS
  <2>1. users \in [Names -> StoredUser \cup {NoUser}]
    BY InitDisksAssumption DEF Init
  <2>2. early \in BOOLEAN /\ failed \in BOOLEAN
    BY DEF Init
  <2>3. elapsed \in 0..Grace
    BY LifecycleAssumption, SMT DEF Init
  <2> QED BY <1>1, <2>1, <2>2, <2>3, LifeInitially
<1>3. LifeInv /\ LifeInv' /\ TypeOK /\ [Next]_vars => TypeOK'
  <2> SUFFICES ASSUME LifeInv, LifeInv', TypeOK, [Next]_vars PROVE TypeOK'
    OBVIOUS
  <2>1. users' \in [Names -> StoredUser \cup {NoUser}]
    BY UsersTyped
  <2>2. early' \in BOOLEAN /\ elapsed' \in 0..Grace /\ failed' \in BOOLEAN
    BY FlagsTyped
  <2> QED BY <2>1, <2>2
          DEF LifeInv, LogOK, HandlersOK, HandlerOK, WrittenOK, StartOK, StopOK, Running, TypeOK
<1> QED BY <1>2, <1>3, LifeInvariance, PTL DEF Spec
-----------------------------------------------------------------------------
\* Entries of one second never get each other's thumbnail, whatever crashes or
\* failed writes interrupt the backfill.
THEOREM ThumbnailsShowTheirImages == Spec => []ThumbShowsItsImage
<1>1. LifeInv => ThumbShowsItsImage
  BY DEF LifeInv, LogOK, ThumbShowsItsImage
<1> QED BY <1>1, LifeInvariance, PTL

\* A start without a failed write migrates what it found for good: whatever is
\* written afterwards, no user waits for pictures, and the next start has no
\* thumbnails to make but those of frames without a face written since.
THEOREM StartsLeaveOnlyNewFrames == Spec => []OnlyNewFramesAreLeft
<1>1. LifeInv => OnlyNewFramesAreLeft
  <2> SUFFICES ASSUME LifeInv, phase \in Running, ~failed
               PROVE  OnlyFrames(log, served) /\ Backfill(users, log) = users
    BY DEF OnlyNewFramesAreLeft, OnlyFrames, Running
  <2>1. NoneWaits /\ OnlyFrames(log, served)
    BY DEF LifeInv, StartOK
  <2>2. users = [n \in Names |-> users[n]] /\ DOMAIN users = Names
    BY DEF LifeInv, UsersOK
  <2>3. \A n \in Names : ~(NeedsPictures(users[n]) /\ \E i \in DOMAIN log : IsEnrollOf(log[i], n))
    BY <2>1 DEF NoneWaits
  <2>4. Backfill(users, log) = [n \in Names |-> users[n]]
    BY <2>2, <2>3 DEF Backfill
  <2> QED BY <2>1, <2>2, <2>4
<1> QED BY <1>1, LifeInvariance, PTL

\* When the ONNX sessions are closed, no check is in them unless the bridge was
\* stopped while connecting, and a request only after the whole grace period.
THEOREM SessionsAreClosedAfterUse == Spec => []SessionsClosedAfterUse
<1>1. LifeInv => SessionsClosedAfterUse
  BY DEF LifeInv, StopOK, SessionsClosedAfterUse, Idle
<1> QED BY <1>1, LifeInvariance, PTL

\* Pictures deleted through the service do not come back from the audit log, in
\* whatever part of a start the process dies.
THEOREM DeletedPicturesStayDeleted == Spec => DeletedStaysDeleted
<1> DEFINE A == phase = "users" => \A n \in written : users'[n] = users[n]
<1>1. ASSUME LifeInv, [Next]_vars, phase = "users", NEW n \in written
      PROVE  users'[n] = users[n]
  <2>1. \A c \in Clients : handler[c].at # "save"
    BY <1>1 DEF LifeInv, HandlersOK, Idle
  <2>2. UNCHANGED users \/ BackfillUsers
    <3>1. CASE StartUp
      BY <3>1 DEF StartUp, Open, BackfillThumb, Serve, disk
    <3>2. ASSUME NEW c \in Clients, StartRequest(c) \/ Request(c) PROVE UNCHANGED users
      BY <2>1, <3>2 DEF StartRequest, Request, Infer, SaveUser, AppendEntry, disk
    <3>3. ASSUME NEW m \in Names PROVE ~DeletePicture(m) /\ ~DeleteUser(m)
      BY <1>1 DEF DeletePicture, DeleteUser, Listening
    <3>4. ASSUME StartWorker \/ StartCheck \/ EndCheck \/ EndWorker \/ Signal \/ ShutDown \/ Crash
          PROVE  UNCHANGED users
      BY <3>4 DEF StartWorker, StartCheck, EndCheck, EndWorker, Signal, ShutDown, StopBridge,
           Tick, CloseSessions, Exit, Crash, Die, disk
    <3> QED BY <1>1, <3>1, <3>2, <3>3, <3>4 DEF Next, vars, disk
  <2>3. n \in Names /\ ~NeedsPictures(users[n]) /\ DOMAIN users = Names
    BY <1>1 DEF LifeInv, WrittenOK, UsersOK
  <2> QED BY <2>2, <2>3 DEF BackfillUsers, Backfill
<1>2. LifeInv /\ [Next]_vars => [A]_users
  BY <1>1
<1>3. Spec => [][A]_users
  BY <1>2, LifeInvariance, PTL DEF Spec
<1> QED BY <1>3 DEF DeletedStaysDeleted
-----------------------------------------------------------------------------
\* Which databases are safe to delete pictures in.

\* A record whose two lists correspond, and that no start will change.
Current(u) == u.embeddings = u.pictures /\ ~NeedsPictures(u)

AllCurrent == \A n \in Names : users[n] # NoUser => Current(users[n])

LEMMA SaveKeepsCurrent ==
    ASSUME LifeInv, TypeOK, AllCurrent, NEW c \in Clients, SaveUser(c)
    PROVE  AllCurrent'
<1> DEFINE n == handler[c].name
           m == handler[c].image
           u == users[n]
           v == [format     |-> "record",
                 embeddings |-> IF u = NoUser THEN <<m>> ELSE Append(u.embeddings, m),
                 pictures   |-> IF u = NoUser THEN <<m>> ELSE Append(u.pictures, m),
                 updated    |-> TRUE]
<1>1. n \in Names
  BY DEF SaveUser, LifeInv, HandlersOK, HandlerOK
<1>2. Current(v)
  BY <1>1 DEF AllCurrent, Current, NeedsPictures
<1>3. users' = [users EXCEPT ![n] = v] \/ UNCHANGED users
  BY DEF SaveUser
<1>4. \A k \in Names : users'[k] = users[k] \/ users'[k] = v
  BY <1>3 DEF TypeOK
<1> HIDE DEF v
<1> QED BY <1>2, <1>4 DEF AllCurrent, Current, NeedsPictures

LEMMA DeletionsKeepCurrent ==
    ASSUME TypeOK, AllCurrent, NEW n \in Names, DeletePicture(n) \/ DeleteUser(n)
    PROVE  AllCurrent'
<1>1. CASE DeleteUser(n)
  <2>1. \A k \in Names : users'[k] = users[k] \/ users'[k] = NoUser
    BY <1>1 DEF DeleteUser, TypeOK
  <2> QED BY <2>1 DEF AllCurrent, Current, NeedsPictures
<1>2. CASE DeletePicture(n)
  <2> DEFINE u == users[n]
             v(i) == [format     |-> "record",
                      embeddings |-> RemoveAt(u.embeddings, i),
                      pictures   |-> RemoveAt(u.pictures, i),
                      updated    |-> TRUE]
  <2>1. PICK i : users' = [users EXCEPT ![n] = v(i)]
    BY <1>2 DEF DeletePicture
  <2>2. u # NoUser /\ Current(u)
    BY <1>2 DEF DeletePicture, AllCurrent
  <2>3. Current(v(i))
    BY <2>2 DEF Current, NeedsPictures
  <2>4. \A k \in Names : users'[k] = users[k] \/ users'[k] = v(i)
    BY <2>1 DEF TypeOK
  <2> HIDE DEF v
  <2> QED BY <2>3, <2>4 DEF AllCurrent, Current, NeedsPictures
<1> QED BY <1>1, <1>2

\* A database that was written by versions which stored pictures, or an empty one,
\* stays safe to delete in: embeddings and pictures of every user correspond, index
\* by index, whatever is enrolled, deleted, migrated or cut off by a crash.  The run
\* that refutes DeletableIsAligned needs a record that is not current at the start.
THEOREM CurrentUsersStayAligned ==
    ASSUME \A d \in InitDisks : \A n \in Names : d.users[n] # NoUser => Current(d.users[n])
    PROVE  Spec => []DeletableIsAligned
<1>1. Init => AllCurrent
  BY DEF Init, AllCurrent
<1>2. LifeInv /\ TypeOK /\ AllCurrent /\ [Next]_vars => AllCurrent'
  <2> SUFFICES ASSUME LifeInv, TypeOK, AllCurrent, [Next]_vars PROVE AllCurrent'
    OBVIOUS
  <2>1. UNCHANGED users => AllCurrent'
    BY DEF AllCurrent, Current, NeedsPictures
  <2>2. CASE BackfillUsers
    <3>1. \A n \in Names : ~NeedsPictures(users[n])
      BY DEF AllCurrent, Current, NeedsPictures
    <3>2. Backfill(users, log) = [n \in Names |-> users[n]]
      BY <3>1 DEF Backfill, TypeOK
    <3>3. Backfill(users, log) = users
      BY <3>2 DEF TypeOK
    <3> QED BY <2>1, <2>2, <3>3 DEF BackfillUsers
  <2>3. ASSUME NEW c \in Clients, StartRequest(c) \/ Infer(c) \/ AppendEntry(c)
        PROVE  UNCHANGED users
    BY <2>3 DEF StartRequest, Infer, AppendEntry, disk
  <2>4. CASE \/ Open \/ BackfillThumb \/ Serve
             \/ StartWorker \/ StartCheck \/ EndCheck \/ EndWorker \/ Signal
             \/ StopBridge \/ Tick \/ CloseSessions \/ Die
    BY <2>1, <2>4 DEF Open, BackfillThumb, Serve, StartWorker, StartCheck, EndCheck,
         EndWorker, Signal, StopBridge, Tick, CloseSessions, Die, disk
  <2> QED BY <2>1, <2>2, <2>3, <2>4, SaveKeepsCurrent, DeletionsKeepCurrent
          DEF Next, StartUp, Request, ShutDown, Exit, Crash, vars, disk
<1>3. AllCurrent => DeletableIsAligned
  BY DEF AllCurrent, Current, DeletableIsAligned
<1> QED BY <1>1, <1>2, <1>3, LifeInvariance, LifecycleTypeCorrectness, PTL DEF Spec
=============================================================================
