----------------------------- MODULE Lifecycle -----------------------------
(***************************************************************************)
(* One life of the face-api process after another: main opens the          *)
(* database, NewFaceAPI migrates it, requests and MQTT checks are served,  *)
(* a signal stops the bridge, drains HTTP for five seconds and closes the  *)
(* ONNX sessions and the database.  The process may crash anywhere, also   *)
(* inside the migration, whose transactions may fail one by one.           *)
(*                                                                         *)
(* Requests are here to run into a shutdown or a crash and to leave        *)
(* something for the next start: what they do to a user under the mutex is *)
(* one step (FaceService has the steps), and MqttBridge has the bridge     *)
(* behind worker.                                                          *)
(***************************************************************************)
EXTENDS Migration

CONSTANTS
    Clients,    \* HTTP handlers
    InitDisks,  \* databases an earlier version may have left: [users, log]
    Seconds,    \* times an entry can have
    Grace,      \* ticks of context.WithTimeout at shutdown (5 seconds)
    MaxLog      \* bound on the entries and the requests about to write one

ASSUME LifecycleAssumption ==
    /\ Grace \in Nat
    /\ MaxLog \in Nat
    /\ Seconds \subseteq Nat

\* Earlier versions stored no thumbnails, or the ones of the images.
ASSUME InitDisksAssumption ==
    \A d \in InitDisks :
       /\ d.users \in [Names -> StoredUser \cup {NoUser}]
       /\ d.log \in Seq(StoredEntry)
       /\ ThumbsFit(d.log)

VARIABLES
    users,    \* on disk: bucket Faces
    log,      \* on disk: bucket Audit, oldest first
    phase,    \* where main is; "down" when there is no process
    worker,   \* the MQTT worker
    early,    \* Stop ran before the bridge's Run had started the worker
    handler,  \* each HTTP handler: its next step, operation, user and image
    at,       \* the thumbnail loop has come down to this entry
    elapsed,  \* ticks since Shutdown began
    failed,   \* history: a write of this start's backfills failed
    served,   \* history: the entries there were when this start began to serve
    written   \* history: users whose stored record this version saved

disk == <<users, log, written>>
start == <<at, failed, served>>
main == <<phase, elapsed, start>>
bridge == <<worker, early>>
vars == <<disk, main, bridge, handler>>

Idle == [at |-> "idle", op |-> "none", name |-> None, image |-> None]

Init ==
    /\ \E d \in InitDisks : users = d.users /\ log = d.log
    /\ phase = "down"
    /\ worker = "none"
    /\ early = FALSE
    /\ handler = [c \in Clients |-> Idle]
    /\ at = 0
    /\ elapsed = 0
    /\ failed = FALSE
    /\ served = 0
    /\ written = {}
-----------------------------------------------------------------------------
\* bolt.Open, the sessions and EnsureBuckets succeed; a failure of any of them
\* is log.Fatalf, after which there is still no process.  The bridge exists if
\* a broker is configured.
Open ==
    /\ phase = "down"
    /\ phase' = "users"
    /\ worker' \in {"none", "connecting"}
    /\ UNCHANGED <<disk, early, handler, elapsed, start>>

\* BackfillUsersFromAudit; an error is only logged.
BackfillUsers ==
    /\ phase = "users"
    /\ phase' = "thumbs"
    /\ \/ users' = Backfill(users, log) /\ UNCHANGED failed
       \/ failed' = TRUE /\ UNCHANGED users
    /\ at' = Len(log)
    /\ UNCHANGED <<log, written, bridge, handler, elapsed, served>>

\* Mutant of BackfillThumb: the loop ends with the first thumbnail.
BackfillThumb_Once ==
    /\ phase = "thumbs"
    /\ \E i \in DOMAIN log :
          /\ IsNextForThumb(log, at, i)
          /\ log' = SetFaceThumb(log, log[i].sec, log[i].image)
    /\ at' = 0
    /\ UNCHANGED <<users, written, phase, elapsed, failed, served, bridge, handler>>

\* BackfillAuditThumbnails: one SetFaceThumb transaction after another, each of
\* which may fail.  Nothing else writes the log before the server listens, so an
\* entry differs from the list read at the beginning only if one of the same
\* time and image has been done, and doing it again changes nothing.
BackfillThumb ==
    /\ phase = "thumbs"
    /\ \E i \in DOMAIN log :
          /\ IsNextForThumb(log, at, i)
          /\ at' = i - 1
          /\ \/ /\ log' = SetFaceThumb(log, log[i].sec, log[i].image)
                /\ UNCHANGED failed
             \/ failed' = TRUE /\ UNCHANGED log
    /\ UNCHANGED <<users, written, phase, elapsed, served, bridge, handler>>

\* The loop is over, or Recent failed; NewFaceAPI returns, and main serves HTTP,
\* runs the bridge and waits for a signal.
Serve ==
    /\ phase = "thumbs"
    /\ phase' = "serving"
    /\ \/ /\ \A i \in DOMAIN log : ~IsNextForThumb(log, at, i)
          /\ UNCHANGED failed
       \/ at = Len(log) /\ failed' = TRUE
    /\ at' = 0
    /\ served' = Len(log)
    /\ UNCHANGED <<disk, elapsed, bridge, handler>>
-----------------------------------------------------------------------------
Listening == phase \in {"serving", "stopping"}

HasProcess == phase # "down"

\* c's handler goes on to its next step.
GoOn(c, step) == handler' = [handler EXCEPT ![c].at = step]

Answer(c) == handler' = [handler EXCEPT ![c] = Idle]

\* Is there room for one more entry, besides those of the busy handlers?
HasRoom == Len(log) + Cardinality({c \in Clients : handler[c] # Idle}) < MaxLog

\* What the service stores of a face: the crop, with its thumbnail, ...
FaceEntry(op, n, m, sec) ==
    [endpoint |-> op, name |-> n, image |-> m, thumb |-> ThumbOf(m), face |-> TRUE,
     sec |-> sec]

\* ... and of a stream check without one: the frame, or nothing where it does not
\* decode, and never a thumbnail, however large the frame is.
FrameEntry(m, sec) ==
    [endpoint |-> "scan", name |-> None, image |-> m, thumb |-> None, face |-> FALSE,
     sec |-> sec]

\* An enroll, recognize or stream-check request with the image its entry shows.
StartRequest(c) ==
    /\ Listening
    /\ handler[c] = Idle
    /\ HasRoom
    /\ \/ \E n \in Names, m \in Images \ Large :
             handler' = [handler EXCEPT ![c] =
                [at |-> "infer", op |-> "enroll", name |-> n, image |-> m]]
       \/ \E m \in Images :
             handler' = [handler EXCEPT ![c] =
                [at |-> "infer", op |-> "scan", name |-> None, image |-> m]]
    /\ UNCHANGED <<disk, main, bridge>>

\* DetectAndCrop and ExtractEmbedding in the ONNX sessions.  A failure ends the
\* request, but a stream check takes most of them for a frame without a face.
Infer(c) ==
    /\ HasProcess
    /\ handler[c].at = "infer"
    /\ \/ GoOn(c, IF handler[c].op = "enroll" THEN "save" ELSE "append")
       \/ handler[c].op = "scan" /\ GoOn(c, "frame")
       \/ Answer(c)
    /\ UNCHANGED <<disk, main, bridge>>

\* EnrollImage's GetByName and Save: whatever the stored format was, the record
\* that is saved is a current one with the time of now.
SaveUser(c) ==
    LET n == handler[c].name
        u == users[n]
        m == handler[c].image
    IN
    /\ HasProcess
    /\ handler[c].at = "save"
    /\ \/ /\ u # NoUser => Len(u.embeddings) < MaxPicturesPerUser
          /\ users' = [users EXCEPT ![n] =
                [format     |-> "record",
                 embeddings |-> IF u = NoUser THEN <<m>> ELSE Append(u.embeddings, m),
                 pictures   |-> IF u = NoUser THEN <<m>> ELSE Append(u.pictures, m),
                 updated    |-> TRUE]]
          /\ written' = written \cup {n}
          /\ GoOn(c, "append")
       \/ Answer(c) /\ UNCHANGED <<users, written>>
    /\ UNCHANGED <<log, main, bridge>>

\* audit.Append of a face or a frame, which may fail.
AppendEntry(c) ==
    LET h == handler[c] IN
    /\ HasProcess
    /\ \/ /\ h.at = "append"
          /\ \E sec \in Seconds : log' = Append(log, FaceEntry(h.op, h.name, h.image, sec))
       \/ /\ h.at = "frame"
          /\ \E m \in {h.image, None}, sec \in Seconds : log' = Append(log, FrameEntry(m, sec))
       \/ h.at \in {"append", "frame"} /\ UNCHANGED log
    /\ Answer(c)
    /\ UNCHANGED <<users, written, main, bridge>>

\* DeletePicture; without a picture at the index of the embedding it panics.
DeletePicture(n) ==
    LET u == users[n] IN
    /\ Listening
    /\ u # NoUser
    /\ \E i \in DOMAIN u.embeddings \cap DOMAIN u.pictures :
          users' = [users EXCEPT ![n] =
             [format     |-> "record",
              embeddings |-> RemoveAt(u.embeddings, i),
              pictures   |-> RemoveAt(u.pictures, i),
              updated    |-> TRUE]]
    /\ written' = written \cup {n}
    /\ UNCHANGED <<log, main, bridge, handler>>

DeleteUser(n) ==
    /\ Listening
    /\ users[n] # NoUser
    /\ users' = [users EXCEPT ![n] = NoUser]
    /\ written' = written \cup {n}
    /\ UNCHANGED <<log, main, bridge, handler>>
-----------------------------------------------------------------------------
\* Bridge.Run has connected and starts the worker; Run does not look at done
\* before, and a worker that finds it closed may still take a trigger first.
StartWorker ==
    /\ phase \in {"serving", "stopping", "draining", "closed"}
    /\ worker = "connecting"
    /\ worker' = "idle"
    /\ UNCHANGED <<disk, main, early, handler>>

\* The worker takes a trigger and calls CheckStream, ...
StartCheck ==
    /\ HasProcess
    /\ worker = "idle"
    /\ worker' = "check"
    /\ UNCHANGED <<disk, main, early, handler>>

\* ... which appends a face, a frame or, after an error, nothing, and returns; the
\* worker is back in its select, ...
EndCheck ==
    /\ HasProcess
    /\ worker = "check"
    /\ \/ /\ HasRoom
          /\ \E m \in Images \cup {None}, sec \in Seconds :
                \/ m # None /\ log' = Append(log, FaceEntry("scan", None, m, sec))
                \/ log' = Append(log, FrameEntry(m, sec))
       \/ UNCHANGED log
    /\ worker' = "idle"
    /\ UNCHANGED <<users, written, main, early, handler>>

\* ... where it may also find done closed.
EndWorker ==
    /\ phase \in {"stopping", "draining", "closed"}
    /\ worker = "idle"
    /\ worker' = "gone"
    /\ UNCHANGED <<disk, main, early, handler>>

\* SIGINT or SIGTERM; before signal.Notify it is a Crash.
Signal ==
    /\ phase = "serving"
    /\ phase' = "stopping"
    /\ UNCHANGED <<disk, elapsed, start, bridge, handler>>

\* Mutant of StopBridge: done is closed, and nobody waits for the worker.
StopBridge_NoWait ==
    /\ phase = "stopping"
    /\ phase' = "draining"
    /\ early' = (worker = "connecting")
    /\ elapsed' = 0
    /\ UNCHANGED <<disk, start, worker, handler>>

\* mqttBridge.Stop returns when wg is zero, which it also is while Run has not
\* started the worker; then Shutdown closes the listener.
StopBridge ==
    /\ phase = "stopping"
    /\ worker \in {"none", "connecting", "gone"}
    /\ phase' = "draining"
    /\ early' = (worker = "connecting")
    /\ elapsed' = 0
    /\ UNCHANGED <<disk, start, worker, handler>>

\* Mutant of Tick: one second more than the context allows.
Tick_OneMore ==
    /\ phase = "draining"
    /\ elapsed <= Grace
    /\ elapsed' = elapsed + 1
    /\ UNCHANGED <<disk, phase, start, bridge, handler>>

\* One of the five seconds of Shutdown's context.
Tick ==
    /\ phase = "draining"
    /\ elapsed < Grace
    /\ elapsed' = elapsed + 1
    /\ UNCHANGED <<disk, phase, start, bridge, handler>>

\* Mutant of CloseSessions: Shutdown gets a context without a timeout.
CloseSessions_NoTimeout ==
    /\ phase = "draining"
    /\ \A c \in Clients : handler[c] = Idle
    /\ phase' = "closed"
    /\ UNCHANGED <<disk, elapsed, start, bridge, handler>>

\* Shutdown returns when every handler has answered or the time is over, and
\* the deferred calls close the sessions and the runtime.
CloseSessions ==
    /\ phase = "draining"
    /\ (\A c \in Clients : handler[c] = Idle) \/ elapsed = Grace
    /\ phase' = "closed"
    /\ UNCHANGED <<disk, elapsed, start, bridge, handler>>

\* The process is gone: its goroutines end where they are, the disk stays.
Die ==
    /\ phase' = "down"
    /\ worker' = "none"
    /\ early' = FALSE
    /\ handler' = [c \in Clients |-> Idle]
    /\ at' = 0
    /\ elapsed' = 0
    /\ failed' = FALSE
    /\ served' = 0
    /\ UNCHANGED disk

\* kvDB.Close, the last deferred call, and the end of main.
Exit == phase = "closed" /\ Die

Crash == HasProcess /\ Die

StartUp == Open \/ BackfillUsers \/ BackfillThumb \/ Serve

Request(c) == Infer(c) \/ SaveUser(c) \/ AppendEntry(c)

ShutDown == StopBridge \/ Tick \/ CloseSessions \/ Exit

Next ==
    \/ StartUp
    \/ \E c \in Clients : StartRequest(c) \/ Request(c)
    \/ \E n \in Names : DeletePicture(n) \/ DeleteUser(n)
    \/ StartWorker \/ StartCheck \/ EndCheck \/ EndWorker
    \/ Signal
    \/ ShutDown
    \/ Crash

Spec == Init /\ [][Next]_vars

\* main's goroutine runs on; a check returns (RtspReader) and the worker's
\* select, which picks at random, takes done at last.  Handlers may hang.
Fairness ==
    /\ WF_vars(StartUp)
    /\ WF_vars(ShutDown)
    /\ WF_vars(EndCheck)
    /\ SF_vars(EndWorker)

LiveSpec == Spec /\ Fairness
-----------------------------------------------------------------------------
TypeOK ==
    /\ users \in [Names -> StoredUser \cup {NoUser}]
    /\ log \in Seq(StoredEntry)
    /\ written \subseteq Names
    /\ phase \in {"down", "users", "thumbs", "serving", "stopping", "draining", "closed"}
    /\ at \in 0..Len(log)
    /\ worker \in {"none", "connecting", "idle", "check", "gone"}
    /\ early \in BOOLEAN
    /\ elapsed \in 0..Grace
    /\ failed \in BOOLEAN
    /\ served \in 0..Len(log)
    /\ handler \in [Clients -> [at : {"idle", "infer", "save", "append", "frame"},
                                 op : {"none", "enroll", "scan"},
                                 name : Names \cup {None},
                                 image : Images \cup {None}]]

\* SetFaceThumb finds its entry by time and image: entries of one second never
\* get each other's thumbnail, and small images get none.
ThumbShowsItsImage == ThumbsFit(log)

\* A start that logged no error migrates what it found for good: after it no user
\* waits for pictures, whatever the service writes and in whatever part of it the
\* process dies, and a listed entry that should have a thumbnail and has none is a
\* frame without a face that was written since.
OnlyNewFramesAreLeft ==
    (phase \in {"serving", "stopping", "draining", "closed"} /\ ~failed) =>
       /\ \A i \in Listed(log) : NeedsThumb(log[i]) => i > served /\ ~log[i].face
       /\ Backfill(users, log) = users

\* A start never touches a user this version has written: pictures deleted
\* through the service do not come back from the audit log.
DeletedStaysDeleted ==
    [][phase = "users" => \A n \in written : users'[n] = users[n]]_users

\* No MQTT check is in the ONNX sessions when they are closed, and an HTTP
\* request only if it has outlived the whole time Shutdown gives it; the
\* exception is a bridge that was stopped while still connecting.
SessionsClosedAfterUse ==
    phase = "closed" =>
       /\ worker = "check" => early
       /\ \A c \in Clients : handler[c].at = "infer" => elapsed = Grace

\* After a signal the process ends, whatever its handlers do.
SignalEndsProcess == phase = "stopping" ~> phase = "down"

\* "Embeddings and Pictures are index-aligned" wherever DeletePicture may be
\* called on a user who has pictures, so that the face that leaves the page is
\* the one that stops being recognised.
DeletableIsAligned ==
    Listening => \A n \in Names :
       (users[n] # NoUser /\ users[n].pictures # <<>>)
          => users[n].embeddings = users[n].pictures
=============================================================================
