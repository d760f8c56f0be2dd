---------------------------- MODULE WebUIProofs ----------------------------
(***************************************************************************)
(* Theorems about WebUI and about the ThresholdSettings it extends, for    *)
(* any number of tabs, users, pictures and templates, and any prefix.      *)
(***************************************************************************)
EXTENDS WebUI, EnrollmentProofs
-----------------------------------------------------------------------------
\* The settings by themselves: theorems about ThresholdSettings.

\* A value on its way has passed the validation; one about to become live has
\* been saved, as has the one that is stored.
CallsAreValid ==
    \A c \in Setters :
       /\ pc[c] = "save" => ~Rejected(value[c])
       /\ pc[c] = "publish" => value[c] \in written /\ InOpenRange(value[c])

StoredWasWritten == stored # NoSettings => stored \in written /\ InOpenRange(stored)

\* The service began with the default, and its history has what is live now.
LiveIsInForce == live \in inForce /\ Default \in inForce

SettingsInv == TypeOK /\ LiveWasPersisted /\ CallsAreValid /\ StoredWasWritten /\ LiveIsInForce

LEMMA SettingsInit == Init => SettingsInv
  BY ThresholdAssumption
     DEF Init, SettingsInv, TypeOK, LiveWasPersisted, CallsAreValid,
         StoredWasWritten, LiveIsInForce, LiveAfterStart

\* What a start makes live is the default or what is stored.
LEMMA StartLoadsStored ==
    ASSUME SettingsInv
    PROVE  /\ LiveAfterStart(stored) \in Int
           /\ \/ LiveAfterStart(stored) = Default
              \/ /\ LiveAfterStart(stored) \in written
                 /\ InOpenRange(LiveAfterStart(stored))
  BY ThresholdAssumption DEF SettingsInv, TypeOK, StoredWasWritten, LiveAfterStart

\* Setting a value back after a call disturbs nothing.
LEMMA ReturnedCall ==
    ASSUME SettingsInv, NEW c \in Setters, Return(c), written' = written
    PROVE  /\ pc' \in [Setters -> {"idle", "save", "publish"}]
           /\ value' \in [Setters -> Int \cup {NaN}]
           /\ CallsAreValid'
<1>1. /\ pc' \in [Setters -> {"idle", "save", "publish"}]
      /\ value' \in [Setters -> Int \cup {NaN}]
  BY ThresholdAssumption DEF SettingsInv, TypeOK, Return
<1>2. ASSUME NEW d \in Setters
      PROVE  /\ pc'[d] = "save" => ~Rejected(value'[d])
             /\ pc'[d] = "publish" => value'[d] \in written' /\ InOpenRange(value'[d])
  <2>1. CASE d = c
    BY <2>1 DEF SettingsInv, TypeOK, Return
  <2>2. CASE d # c
    <3>1. pc'[d] = pc[d] /\ value'[d] = value[d]
      BY <2>2 DEF SettingsInv, TypeOK, Return
    <3> QED BY <3>1 DEF SettingsInv, CallsAreValid
  <2> QED BY <2>1, <2>2
<1> QED BY <1>1, <1>2 DEF CallsAreValid

LEMMA ValidateKeepsInv ==
    ASSUME SettingsInv, NEW c \in Setters, Validate(c)
    PROVE  SettingsInv'
<1> USE DEF SettingsInv
<1>1. PICK v \in Inputs : ~Rejected(v) /\ value' = [value EXCEPT ![c] = v]
  BY DEF Validate
<1>2. TypeOK'
  BY <1>1, ThresholdAssumption DEF Validate, TypeOK
<1>3. LiveWasPersisted' /\ StoredWasWritten' /\ LiveIsInForce'
  BY DEF Validate, LiveWasPersisted, StoredWasWritten, LiveIsInForce
<1>4. CallsAreValid'
  BY <1>1 DEF Validate, TypeOK, CallsAreValid
<1> QED BY <1>2, <1>3, <1>4

\* A valid value that json.Marshal can represent lies in the open range.
LEMMA SaveKeepsInv ==
    ASSUME SettingsInv, NEW c \in Setters, Save(c)
    PROVE  SettingsInv'
<1> USE DEF SettingsInv
<1>1. value[c] \in Int /\ InOpenRange(value[c])
  BY ThresholdAssumption DEF Save, TypeOK, CallsAreValid, Rejected
<1>2. TypeOK'
  BY <1>1 DEF Save, TypeOK
<1>3. LiveWasPersisted' /\ StoredWasWritten' /\ LiveIsInForce'
  BY <1>1 DEF Save, LiveWasPersisted, StoredWasWritten, LiveIsInForce
<1>4. CallsAreValid'
  BY <1>1 DEF Save, TypeOK, CallsAreValid
<1> QED BY <1>2, <1>3, <1>4

LEMMA SaveFailsKeepsInv ==
    ASSUME SettingsInv, NEW c \in Setters, SaveFails(c)
    PROVE  SettingsInv'
  BY ReturnedCall
     DEF SaveFails, SettingsInv, TypeOK, LiveWasPersisted, StoredWasWritten, LiveIsInForce

LEMMA PublishKeepsInv ==
    ASSUME SettingsInv, NEW c \in Setters, Publish(c)
    PROVE  SettingsInv'
<1>1. value[c] \in written /\ InOpenRange(value[c]) /\ value[c] \in Int
  BY DEF Publish, SettingsInv, TypeOK, CallsAreValid
<1> QED BY <1>1, ReturnedCall
        DEF Publish, SettingsInv, TypeOK, LiveWasPersisted, StoredWasWritten, LiveIsInForce

LEMMA RestartKeepsInv ==
    ASSUME SettingsInv, Restart
    PROVE  SettingsInv'
<1>1. TypeOK'
  <2>1. live' \in Int /\ inForce' \subseteq Int
    BY StartLoadsStored DEF Restart, SettingsInv, TypeOK
  <2>2. /\ stored' \in Int \cup {NoSettings} /\ written' \subseteq Int
        /\ pc' \in [Setters -> {"idle", "save", "publish"}]
        /\ value' \in [Setters -> Int \cup {NaN}]
    BY ThresholdAssumption DEF Restart, SettingsInv, TypeOK
  <2> QED BY <2>1, <2>2 DEF TypeOK
<1>2. LiveWasPersisted'
  BY StartLoadsStored DEF Restart, LiveWasPersisted
<1>3. CallsAreValid' /\ StoredWasWritten' /\ LiveIsInForce'
  BY DEF Restart, SettingsInv, CallsAreValid, StoredWasWritten, LiveIsInForce
<1> QED BY <1>1, <1>2, <1>3 DEF SettingsInv

LEMMA SettingsUnchanged ==
    ASSUME SettingsInv, UNCHANGED vars
    PROVE  SettingsInv'
  BY DEF vars, SettingsInv, TypeOK, LiveWasPersisted, CallsAreValid, StoredWasWritten,
         LiveIsInForce

LEMMA SettingsStep == SettingsInv /\ [Next]_vars => SettingsInv'
  BY ValidateKeepsInv, SaveKeepsInv, SaveFailsKeepsInv, PublishKeepsInv,
     RestartKeepsInv, SettingsUnchanged DEF Next

\* The threshold recognition compares with is the default, or was on disk before
\* and lies in (0, 1): however many requests pass each other, fail, or send NaN,
\* and whenever the process dies.
THEOREM LiveThresholdWasPersisted == Spec => [](TypeOK /\ LiveWasPersisted)
<1>1. SettingsInv => TypeOK /\ LiveWasPersisted
  BY DEF SettingsInv
<1> QED BY <1>1, SettingsInit, SettingsStep, PTL DEF Spec
-----------------------------------------------------------------------------
\* The pages.

\* The segments of the URLs that occur.
Segments ==
    {Base[k] : k \in 1..Len(Base)}
    \cup {"", "..", "ui", "login", "auth", "logout", "enroll", "delete",
          "delete-picture", "recognize", "audit", "settings", "stats", "pico.min.css",
          "api", "face", "promote"}

\* A URL below the prefix that is at least two segments longer: everything that
\* the server answers.
BelowBase(url) ==
    /\ url \in Seq(Segments)
    /\ Len(url) >= Len(Base) + 2
    /\ \A k \in 1..Len(Base) : url[k] = Base[k]

\* The fields a posted form has, and who posts it.
FormOK(t, form) ==
    form # NoForm =>
       /\ form.do = "threshold" => t \in Setters
       /\ form.do = "enroll" => form.name \in Names /\ form.face \in Faces
       /\ form.do = "delete" => form.name \in Names
       /\ form.do = "delete_picture" => form.name \in Names /\ form.index \in Nat

RequestOK(t, q) == BelowBase(q.url) /\ FormOK(t, q.form) /\ q.admitted \in BOOLEAN

RequestsOK == DOMAIN request = Tabs /\ \A t \in Tabs : RequestOK(t, request[t])

StoredUser == User \cup {NoUser}

\* What any page shows is of the right kind, and of its threshold it is true.
PageOK(p) ==
    /\ p.kind \in Templates \cup {"blank", "login", "error"}
    /\ p.users \in [Names -> StoredUser]
    /\ p.threshold \in inForce
    /\ p.updated => p.threshold \in written

PagesOK == DOMAIN page = Tabs /\ \A t \in Tabs : PageOK(page[t])

GalleryOK ==
    /\ gallery \in [Names -> StoredUser]
    /\ \A n \in Names : gallery[n] # NoUser => Bounded(gallery[n]) /\ Aligned(gallery[n])

\* The steps of a request and what its page is in them.
StepsOK ==
    /\ process \in {"up", "aborted", "stopped"}
    /\ templates \subseteq Templates
    /\ step \in [Tabs -> Steps]
    /\ process # "up" => \A t \in Tabs : step[t] = "idle"
    /\ \A t \in Tabs :
          /\ step[t] = "set" <=> process = "up" /\ t \in Setters /\ pc[t] # "idle"
          /\ step[t] \in {"sent", "list", "set"} => page[t] = Blank
          /\ step[t] \in {"render", "parse", "write"} => page[t].kind \in Templates

\* The browser has the cookie of the prefix exactly while it is signed in.
JarOK == signedIn \in BOOLEAN /\ jar = IF signedIn THEN {Base} ELSE {}

UIInv == SettingsInv /\ RequestsOK /\ PagesOK /\ GalleryOK /\ StepsOK /\ JarOK
-----------------------------------------------------------------------------
\* URLs.

LEMMA BaseIsSequence == Base \in Seq(Segments) /\ Len(Base) \in Nat
<1>1. Len(Base) \in Nat /\ Base = [k \in 1..Len(Base) |-> Base[k]]
  BY BaseAssumption
<1>2. \A k \in 1..Len(Base) : Base[k] \in Segments
  BY DEF Segments
<1> QED BY <1>1, <1>2, IsASeq

LEMMA UIIsBelowBase ==
    ASSUME NEW rest \in Seq(Segments), Len(rest) > 0
    PROVE  BelowBase(UI(rest))
<1>1. Base \in Seq(Segments) /\ Len(Base) \in Nat
  BY BaseIsSequence
<1>2. <<"ui">> \in Seq(Segments) /\ Len(<<"ui">>) = 1
  <2>1. "ui" \in Segments
    BY DEF Segments
  <2> QED BY <2>1
<1>3. /\ Base \o <<"ui">> \in Seq(Segments) /\ Len(Base \o <<"ui">>) = Len(Base) + 1
      /\ \A k \in 1..Len(Base) : (Base \o <<"ui">>)[k] = Base[k]
  BY <1>1, <1>2, ConcatProperties
<1> DEFINE front == Base \o <<"ui">>
<1> HIDE DEF front
<1>4. front \in Seq(Segments) /\ Len(front) = Len(Base) + 1
  BY <1>3 DEF front
<1>5. /\ front \o rest \in Seq(Segments) /\ Len(front \o rest) = Len(front) + Len(rest)
      /\ \A k \in 1..Len(front) : (front \o rest)[k] = front[k]
  <2>1. Len(front) \in Nat /\ Len(rest) \in Nat
    BY <1>4
  <2> QED BY <1>4, <2>1, ConcatProperties
<1>6. UI(rest) = front \o rest
  BY DEF UI, front
<1>7. Len(rest) \in Nat
  OBVIOUS
<1>8. \A k \in 1..Len(Base) : UI(rest)[k] = Base[k]
  BY <1>1, <1>3, <1>4, <1>5, <1>6 DEF front
<1> QED BY <1>1, <1>4, <1>5, <1>6, <1>7, <1>8 DEF BelowBase

\* A reference leads to a URL that still has the prefix, if it goes up at most
\* once, and to one below it if it does not go up.
LEMMA ResolveKeepsBase ==
    ASSUME NEW url, BelowBase(url), NEW ref \in Seq(Segments), Len(ref) > 0
    PROVE  /\ Head(ref) # ".." => BelowBase(Resolve(url, ref))
           /\ IsPrefix(Base, Resolve(url, ref))
<1>1. Base \in Seq(Segments) /\ Len(Base) \in Nat /\ Len(url) \in Nat /\ Len(ref) \in Nat
      /\ url \in Seq(Segments) /\ Len(url) >= Len(Base) + 2
      /\ \A k \in 1..Len(Base) : url[k] = Base[k]
  BY BaseIsSequence DEF BelowBase
<1>2. ASSUME NEW s \in Seq(Segments), Len(s) >= Len(Base), \A k \in 1..Len(Base) : s[k] = Base[k],
             NEW rest \in Seq(Segments)
      PROVE  /\ s \o rest \in Seq(Segments)
             /\ Len(s \o rest) = Len(s) + Len(rest)
             /\ \A k \in 1..Len(Base) : (s \o rest)[k] = Base[k]
             /\ IsPrefix(Base, s \o rest)
  <2>1. /\ s \o rest \in Seq(Segments) /\ Len(s \o rest) = Len(s) + Len(rest)
        /\ \A k \in 1..Len(s) : (s \o rest)[k] = s[k]
    BY ConcatProperties
  <2>2. \A k \in 1..Len(Base) : (s \o rest)[k] = Base[k]
    BY <1>1, <1>2, <2>1
  <2>3. Len(Base) <= Len(s \o rest)
    BY <1>1, <1>2, <2>1
  <2> DEFINE t == s \o rest
  <2> HIDE DEF t
  <2>4. SubSeq(Base, 1, Len(Base)) = SubSeq(t, 1, Len(Base))
    BY <1>1, <2>1, <2>2, <2>3 DEF t
  <2> QED BY <2>1, <2>2, <2>3, <2>4 DEF IsPrefix, t
<1>3. ASSUME NEW n \in Nat, n >= Len(Base), n <= Len(url)
      PROVE  /\ SubSeq(url, 1, n) \in Seq(Segments) /\ Len(SubSeq(url, 1, n)) = n
             /\ \A k \in 1..Len(Base) : SubSeq(url, 1, n)[k] = Base[k]
  BY <1>1, <1>3, SubSeqProperties
<1>4. CASE Head(ref) = ".."
  <2>1. Resolve(url, ref) = SubSeq(url, 1, Len(url) - 2) \o Tail(ref) /\ Tail(ref) \in Seq(Segments)
    <3>1. Tail(ref) \in Seq(Segments)
      BY HeadTailProperties
    <3> QED BY <1>4, <3>1 DEF Resolve
  <2>2. Len(url) - 2 \in Nat /\ Len(url) - 2 >= Len(Base) /\ Len(url) - 2 <= Len(url)
    BY <1>1
  <2> QED BY <1>2, <1>3, <1>4, <2>1, <2>2
<1>5. CASE Head(ref) # ".."
  <2>1. Resolve(url, ref) = SubSeq(url, 1, Len(url) - 1) \o ref
    BY <1>5 DEF Resolve, Front
  <2>2. Len(url) - 1 \in Nat /\ Len(url) - 1 >= Len(Base) + 1 /\ Len(url) - 1 <= Len(url)
    BY <1>1
  <2> DEFINE front == SubSeq(url, 1, Len(url) - 1)
  <2>3. /\ front \in Seq(Segments) /\ Len(front) = Len(url) - 1
        /\ \A k \in 1..Len(Base) : front[k] = Base[k]
    BY <1>1, <1>3, <2>2
  <2> HIDE DEF front
  <2>4. /\ front \o ref \in Seq(Segments) /\ Len(front \o ref) = Len(front) + Len(ref)
        /\ \A k \in 1..Len(Base) : (front \o ref)[k] = Base[k]
        /\ IsPrefix(Base, front \o ref)
    <3>1. Len(front) >= Len(Base)
      BY <1>1, <2>2, <2>3
    <3> QED BY <1>2, <2>3, <3>1
  <2>5. Resolve(url, ref) = front \o ref
    BY <2>1 DEF front
  <2>6. Len(front \o ref) >= Len(Base) + 2
    BY <1>1, <2>2, <2>3, <2>4
  <2> QED BY <2>4, <2>5, <2>6 DEF BelowBase
<1> QED BY <1>4, <1>5
-----------------------------------------------------------------------------
\* Requests.

\* A reference that does not go up.
Downward(ref) == ref \in Seq(Segments) /\ Len(ref) > 0 /\ Head(ref) # ".."

LEMMA ShortReferences ==
    /\ \A a \in Segments \ {".."} : Downward(<<a>>)
    /\ \A a \in Segments \ {".."}, b \in Segments : Downward(<<a, b>>)
<1>1. ASSUME NEW a \in Segments \ {".."} PROVE Downward(<<a>>)
  BY DEF Downward
<1>2. ASSUME NEW a \in Segments \ {".."}, NEW b \in Segments PROVE Downward(<<a, b>>)
  BY DEF Downward
<1> QED BY <1>1, <1>2

LEMMA KnownURLs ==
    /\ BelowBase(UI(<<"">>)) /\ BelowBase(UI(<<"stats">>))
    /\ BelowBase(UI(<<"login">>)) /\ BelowBase(UI(<<"logout">>))
<1>1. ASSUME NEW a \in Segments PROVE BelowBase(UI(<<a>>))
  <2>1. <<a>> \in Seq(Segments) /\ Len(<<a>>) > 0
    OBVIOUS
  <2> QED BY <2>1, UIIsBelowBase
<1>2. {"", "stats", "login", "logout"} \subseteq Segments
  BY DEF Segments
<1> QED BY <1>1, <1>2

LEMMA RefFields == \A ref, target : Ref(ref, target).ref = ref
  BY DEF Ref

LEMMA AnchorsGoDown ==
    ASSUME NEW kind, NEW link \in Anchors(kind)
    PROVE  Downward(link.ref)
<1>1. {"enroll", "recognize", "audit", "settings", ""} \subseteq Segments \ {".."}
  BY DEF Segments
<1>2. CASE kind = "index"
  <2>1. PICK name \in {"enroll", "recognize", "audit", "settings"} : link = Ref(<<name>>, UI(<<name>>))
    BY <1>2 DEF Anchors
  <2>2. name \in Segments \ {".."}
    BY <1>1
  <2>3. link.ref = <<name>>
    BY <2>1, RefFields
  <2> QED BY <2>2, <2>3, ShortReferences
<1>3. CASE kind # "index"
  <2>1. link \in {Ref(<<"">>, UI(<<"">>)), Ref(<<"settings">>, UI(<<"settings">>))}
    BY <1>3 DEF Anchors
  <2>2. link.ref = <<"">> \/ link.ref = <<"settings">>
    BY <2>1, RefFields
  <2> QED BY <1>1, <2>2, ShortReferences
<1> QED BY <1>2, <1>3

LEMMA FormsAreSound ==
    ASSUME NEW p, p.users \in [Names -> StoredUser],
           NEW f \in Forms(p), NEW t \in Tabs, f.form.do \in Submits[t]
    PROVE  Downward(f.to) /\ FormOK(t, f.form)
<1>1. {"auth", "enroll", "recognize", "settings", "delete", "delete-picture"} \subseteq Segments \ {".."}
  BY DEF Segments
<1>2. CASE p.kind = "login"
  <2>1. PICK w \in Passwords : f = [to |-> <<"auth">>, form |-> [do |-> "login", password |-> w]]
    BY <1>2 DEF Forms
  <2> QED BY <1>1, <2>1, ShortReferences DEF FormOK
<1>3. CASE p.kind = "settings"
  <2>1. PICK v \in Inputs : f = [to |-> <<"settings">>, form |-> [do |-> "threshold", value |-> v]]
    BY <1>3 DEF Forms
  <2>2. t \in Setters
    BY <2>1, SubmitsAssumption
  <2> QED BY <1>1, <2>1, <2>2, ShortReferences DEF FormOK
<1>4. CASE p.kind = "enroll"
  <2>1. \/ \E n \in Names : \E face \in Uploads :
              f = [to |-> <<"enroll">>, form |-> [do |-> "enroll", name |-> n, face |-> face]]
        \/ \E n \in Names :
              f = [to |-> <<"enroll", "delete">>, form |-> [do |-> "delete", name |-> n]]
        \/ \E n \in Names : p.users[n] # NoUser /\ \E k \in DOMAIN p.users[n].pictures :
              f = [to |-> <<"enroll", "delete-picture">>,
                   form |-> [do |-> "delete_picture", name |-> n, index |-> k - 1,
                             meant |-> p.users[n].pictures[k]]]
    BY <1>4 DEF Forms
  <2>2. CASE \E n \in Names : \E face \in Uploads :
              f = [to |-> <<"enroll">>, form |-> [do |-> "enroll", name |-> n, face |-> face]]
    BY <1>1, <2>2, ShortReferences, SubmitsAssumption DEF FormOK
  <2>3. CASE \E n \in Names :
              f = [to |-> <<"enroll", "delete">>, form |-> [do |-> "delete", name |-> n]]
    BY <1>1, <2>3, ShortReferences DEF FormOK
  <2>4. CASE \E n \in Names : p.users[n] # NoUser /\ \E k \in DOMAIN p.users[n].pictures :
              f = [to |-> <<"enroll", "delete-picture">>,
                   form |-> [do |-> "delete_picture", name |-> n, index |-> k - 1,
                             meant |-> p.users[n].pictures[k]]]
    <3>1. PICK n \in Names : p.users[n] # NoUser /\ \E k \in DOMAIN p.users[n].pictures :
              f = [to |-> <<"enroll", "delete-picture">>,
                   form |-> [do |-> "delete_picture", name |-> n, index |-> k - 1,
                             meant |-> p.users[n].pictures[k]]]
      BY <2>4
    <3>2. PICK k \in DOMAIN p.users[n].pictures :
              f = [to |-> <<"enroll", "delete-picture">>,
                   form |-> [do |-> "delete_picture", name |-> n, index |-> k - 1,
                             meant |-> p.users[n].pictures[k]]]
      BY <3>1
    <3>3. p.users[n].pictures \in Seq(Faces)
      BY <3>1 DEF StoredUser, User
    <3>4. k - 1 \in Nat
      BY <3>3
    <3>5. f.form.do = "delete_picture" /\ f.form.name = n /\ f.form.index = k - 1
          /\ f.to = <<"enroll", "delete-picture">>
      BY <3>2
    <3> QED BY <1>1, <3>4, <3>5, ShortReferences DEF FormOK
  <2> QED BY <2>1, <2>2, <2>3, <2>4
<1>5. CASE p.kind = "recognize"
  <2>1. f = [to |-> <<"recognize">>, form |-> [do |-> "recognize"]]
    BY <1>5 DEF Forms
  <2> QED BY <1>1, <2>1, ShortReferences DEF FormOK
<1>6. p.kind \in {"login", "recognize", "settings", "enroll"}
  BY DEF Forms
<1> QED BY <1>2, <1>3, <1>4, <1>5, <1>6

LEMMA NewRequestKeeps ==
    ASSUME RequestsOK, NEW t \in Tabs, NEW q, RequestOK(t, q),
           request' = [request EXCEPT ![t] = q]
    PROVE  RequestsOK'
<1>1. DOMAIN request' = Tabs
  BY DEF RequestsOK
<1>2. ASSUME NEW u \in Tabs PROVE RequestOK(u, request'[u])
  <2>1. request'[u] = IF u = t THEN q ELSE request[u]
    BY DEF RequestsOK
  <2> QED BY <2>1 DEF RequestsOK
<1>3. RequestsOK' <=> DOMAIN request' = Tabs /\ \A u \in Tabs : RequestOK(u, request'[u])
  BY DEF RequestsOK, RequestOK, BelowBase, FormOK
<1> QED BY <1>1, <1>2, <1>3

LEMMA SendKeepsRequests ==
    ASSUME RequestsOK, NEW t \in Tabs, NEW url, BelowBase(url),
           NEW form, FormOK(t, form), Send(t, url, form)
    PROVE  RequestsOK'
<1> DEFINE admitted == Public(url) \/ Sent(url)
           q == [url |-> url, form |-> form, admitted |-> admitted]
<1>1. admitted \in BOOLEAN
  BY Zenon
<1>2. request' = [request EXCEPT ![t] = q]
  BY DEF Send
<1> HIDE DEF admitted
<1>3. RequestOK(t, q)
  BY <1>1 DEF RequestOK
<1> QED BY <1>2, <1>3, NewRequestKeeps

LEMMA RedirectKeepsRequests ==
    ASSUME RequestsOK, NEW t \in Tabs, NEW url, BelowBase(url), Redirect(t, url)
    PROVE  RequestsOK'
<1> DEFINE admitted == Public(url) \/ \E path \in jar' : IsPrefix(path, url)
           q == [url |-> url, form |-> NoForm, admitted |-> admitted]
<1>1. admitted \in BOOLEAN
  BY Zenon
<1>2. request' = [request EXCEPT ![t] = q]
  BY DEF Redirect
<1> HIDE DEF admitted
<1>3. RequestOK(t, q)
  BY <1>1 DEF RequestOK, FormOK
<1> QED BY <1>2, <1>3, NewRequestKeeps

LEMMA RequestsStep ==
    ASSUME UIInv, UINext
    PROVE  RequestsOK'
<1>0. RequestsOK /\ \A t \in Tabs : RequestOK(t, request[t]) /\ PageOK(page[t])
  BY DEF UIInv, RequestsOK, PagesOK
<1>1. ASSUME NEW t \in Tabs, Visit(t) \/ PostLogout(t) PROVE RequestsOK'
  <2>1. FormOK(t, NoForm) /\ FormOK(t, [do |-> "logout"])
    BY DEF FormOK
  <2> QED BY <1>0, <1>1, <2>1, KnownURLs, SendKeepsRequests DEF Visit, PostLogout
<1>2. ASSUME NEW t \in Tabs, Follow(t) PROVE RequestsOK'
  <2>1. PICK link \in Anchors(page[t].kind) : Send(t, Resolve(request[t].url, link.ref), NoForm)
    BY <1>2 DEF Follow
  <2>2. BelowBase(Resolve(request[t].url, link.ref))
    <3>1. BelowBase(request[t].url) /\ Downward(link.ref)
      BY <1>0, AnchorsGoDown DEF RequestOK
    <3> QED BY <3>1, ResolveKeepsBase DEF Downward
  <2>3. FormOK(t, NoForm)
    BY DEF FormOK
  <2> QED BY <1>0, <2>1, <2>2, <2>3, SendKeepsRequests
<1>3. ASSUME NEW t \in Tabs, Submit(t) PROVE RequestsOK'
  <2>1. PICK f \in Forms(page[t]) :
           f.form.do \in Submits[t] /\ Send(t, Resolve(request[t].url, f.to), f.form)
    BY <1>3 DEF Submit
  <2>2. Downward(f.to) /\ FormOK(t, f.form)
    BY <1>0, <2>1, FormsAreSound DEF PageOK
  <2>3. BelowBase(Resolve(request[t].url, f.to))
    BY <1>0, <2>2, ResolveKeepsBase DEF RequestOK, Downward
  <2> QED BY <1>0, <2>1, <2>2, <2>3, SendKeepsRequests
<1>4. ASSUME NEW t \in Tabs, Reload(t) PROVE RequestsOK'
  BY <1>0, <1>4, SendKeepsRequests DEF Reload, RequestOK
<1>5. ASSUME NEW t \in Tabs, Authenticate(t) \/ Logout(t) \/ Deny(t) PROVE RequestsOK'
  <2>1. UNCHANGED request \/ Redirect(t, UI(<<"">>)) \/ Redirect(t, UI(<<"login">>))
    BY <1>5 DEF Authenticate, Logout, Deny, browser
  <2>2. UNCHANGED request => RequestsOK'
    BY <1>0 DEF RequestsOK, RequestOK, BelowBase, FormOK
  <2> QED BY <1>0, <2>1, <2>2, KnownURLs, RedirectKeepsRequests
<1>6. CASE UNCHANGED request
  BY <1>0, <1>6 DEF RequestsOK, RequestOK, BelowBase, FormOK
<1>7. ASSUME NEW t \in Tabs,
             \/ Login(t) \/ ShowPlain(t) \/ StatsFail(t) \/ NotFound(t) \/ ShowEnroll(t) \/ EnrollPicture(t)
             \/ DeleteUser(t) \/ DeletePicture(t) \/ ListUsers(t) \/ ShowSettings(t)
             \/ PostThreshold(t) \/ SaveThreshold(t) \/ ThresholdNotSaved(t)
             \/ ThresholdUpdated(t) \/ Lookup(t) \/ BeginWrite(t) \/ EndWrite(t) \/ Abort(t)
      PROVE  UNCHANGED request
  BY <1>7 DEF Login, ShowPlain, StatsFail, NotFound, ShowEnroll, EnrollPicture, DeleteUser,
       DeletePicture, ListUsers, ShowSettings, PostThreshold, SaveThreshold,
       ThresholdNotSaved, ThresholdUpdated, Lookup, BeginWrite, EndWrite, Abort, End
<1>8. Expire \/ Stop \/ Start => UNCHANGED request
  BY DEF Expire, Stop, End, Start
<1> QED BY <1>1, <1>2, <1>3, <1>4, <1>5, <1>6, <1>7, <1>8 DEF UINext
-----------------------------------------------------------------------------
\* The threshold.

\* The pages set it in the steps of ThresholdSettings.
LEMMA SettingsSteps ==
    ASSUME UIInv, UINext
    PROVE  [Next]_vars
<1>0. \A t \in Tabs : FormOK(t, request[t].form) /\ (step[t] = "set" => t \in Setters)
  BY DEF UIInv, RequestsOK, RequestOK, StepsOK
<1>1. ASSUME NEW t \in Tabs, PostThreshold(t) PROVE Next
  <2>1. t \in Setters /\ Validate(t)
    BY <1>0, <1>1 DEF PostThreshold, Posted, FormOK
  <2> QED BY <2>1 DEF Next
<1>2. ASSUME NEW t \in Tabs, SaveThreshold(t) \/ ThresholdNotSaved(t) \/ ThresholdUpdated(t)
      PROVE  Next
  <2>1. t \in Setters /\ (Save(t) \/ SaveFails(t) \/ Publish(t))
    BY <1>0, <1>2 DEF SaveThreshold, ThresholdNotSaved, ThresholdUpdated
  <2> QED BY <2>1 DEF Next
<1>3. Start => Next
  BY DEF Start, Next
<1>4. ASSUME NEW t \in Tabs,
             \/ Visit(t) \/ Follow(t) \/ Submit(t) \/ Reload(t) \/ PostLogout(t)
             \/ Login(t) \/ Authenticate(t) \/ Logout(t) \/ Deny(t)
             \/ ShowPlain(t) \/ StatsFail(t) \/ NotFound(t)
             \/ ShowEnroll(t) \/ EnrollPicture(t) \/ DeleteUser(t) \/ DeletePicture(t) \/ ListUsers(t)
             \/ ShowSettings(t) \/ Lookup(t) \/ BeginWrite(t) \/ EndWrite(t) \/ Abort(t)
      PROVE  UNCHANGED settings
  BY <1>4 DEF Visit, Follow, Submit, Reload, PostLogout, Send, Login, Authenticate, Logout,
       Deny, ShowPlain, StatsFail, NotFound, ShowEnroll, EnrollPicture, DeleteUser, DeletePicture,
       ListUsers, ShowSettings, Lookup, BeginWrite, EndWrite, Abort, End
<1>5. Expire \/ Stop => UNCHANGED settings
  BY DEF Expire, Stop, End
<1> QED BY <1>1, <1>2, <1>3, <1>4, <1>5 DEF UINext, settings

\* A value that was ever stored, or live, stays in the history.
LEMMA HistoryGrows ==
    ASSUME UIInv, UINext
    PROVE  written \subseteq written' /\ inForce \subseteq inForce'
<1>1. [Next]_vars
  BY SettingsSteps
<1> QED BY <1>1 DEF Next, Validate, Save, SaveFails, Publish, Return, Restart, vars

\* A page stays as good, however much more is written or made live.
LEMMA NewPageKeeps ==
    ASSUME PagesOK, written \subseteq written', inForce \subseteq inForce', NEW t \in Tabs, NEW p,
           p.kind \in Templates \cup {"blank", "login", "error"},
           p.users \in [Names -> StoredUser],
           p.threshold \in inForce',
           p.updated => p.threshold \in written,
           page' = [page EXCEPT ![t] = p]
    PROVE  PagesOK'
<1>1. DOMAIN page' = Tabs
  BY DEF PagesOK
<1>2. ASSUME NEW u \in Tabs PROVE PageOK(page[u])'
  <2>1. page'[u] = IF u = t THEN p ELSE page[u]
    BY DEF PagesOK
  <2>2. PageOK(page[u])
    BY DEF PagesOK
  <2>3. CASE u = t
    BY <2>1, <2>3 DEF PageOK
  <2>4. CASE u # t
    BY <2>1, <2>2, <2>4 DEF PageOK
  <2> QED BY <2>3, <2>4
<1> QED BY <1>1, <1>2 DEF PagesOK

LEMMA PlainPage ==
    ASSUME NEW kind
    PROVE  /\ Page(kind).kind = kind
           /\ Page(kind).users \in [Names -> StoredUser]
           /\ Page(kind).threshold = Default
           /\ Page(kind).updated = FALSE
<1>1. NoListing \in [Names -> StoredUser]
  BY DEF NoListing, StoredUser
<1> QED BY <1>1 DEF Page

LEMMA PlainPageKeeps ==
    ASSUME PagesOK, Default \in inForce,
           written \subseteq written', inForce \subseteq inForce', NEW t \in Tabs,
           NEW kind \in Templates \cup {"blank", "login", "error"},
           page' = [page EXCEPT ![t] = Page(kind)]
    PROVE  PagesOK'
  BY PlainPage, NewPageKeeps

\* The page after a threshold was set, or not.
LEMMA SettingsPageKeeps ==
    ASSUME PagesOK, written \subseteq written', inForce \subseteq inForce', NEW t \in Tabs,
           NEW v \in inForce', NEW updated, updated => v \in written,
           page' = [page EXCEPT ![t] = SettingsPage(v, updated)]
    PROVE  PagesOK'
<1> DEFINE p == SettingsPage(v, updated)
<1>1. /\ p.kind = "settings" /\ p.users = Page("settings").users
      /\ p.threshold = v /\ p.updated = updated
  BY DEF SettingsPage, Page
<1> HIDE DEF p
<1>2. p.users \in [Names -> StoredUser]
  BY <1>1, PlainPage
<1>3. "settings" \in Templates
  BY DEF Templates
<1> QED BY <1>1, <1>2, <1>3, NewPageKeeps DEF p

\* The page that a plain URL names.
LEMMA LastSegment ==
    ASSUME NEW a \in Segments
    PROVE  Last(UI(<<a>>)) = a
<1> DEFINE front == Base \o <<"ui">>
           rest == <<a>>
<1>1. front \in Seq(Segments)
  <2>1. "ui" \in Segments
    BY DEF Segments
  <2>2. <<"ui">> \in Seq(Segments)
    BY <2>1
  <2> QED BY <2>2, BaseIsSequence, ConcatProperties
<1>2. rest \in Seq(Segments) /\ Len(rest) = 1 /\ rest[1] = a
  OBVIOUS
<1>3. Len(front) \in Nat
  BY <1>1
<1>4. UI(<<a>>) = front \o rest
  BY DEF UI
<1> HIDE DEF front, rest
<1>5. Len(front \o rest) = Len(front) + 1
  BY <1>1, <1>2, <1>3, ConcatProperties
<1>6. (front \o rest)[Len(front) + 1] = rest[1]
  <2>1. Len(front) + 1 \in 1..(Len(front) + Len(rest)) /\ ~(Len(front) + 1 <= Len(front))
    BY <1>2, <1>3
  <2>2. (front \o rest)[Len(front) + 1] = rest[Len(front) + 1 - Len(front)]
    BY <1>1, <1>2, <2>1, ConcatProperties
  <2> QED BY <1>3, <2>2
<1> QED BY <1>2, <1>4, <1>5, <1>6 DEF Last

LEMMA PlainPageKind ==
    ASSUME NEW url \in PlainURLs
    PROVE  (IF Last(url) = "" THEN "index" ELSE Last(url)) \in Templates
<1>1. PICK name \in {"", "recognize", "audit", "stats"} : url = UI(<<name>>)
  BY DEF PlainURLs
<1>2. name \in Segments
  BY DEF Segments
<1>3. Last(url) = name
  BY <1>1, <1>2, LastSegment
<1> QED BY <1>3 DEF Templates

LEMMA EndKeepsPages ==
    ASSUME PagesOK, Default \in inForce, UNCHANGED <<written, inForce>>, NEW how, End(how)
    PROVE  PagesOK'
<1>1. DOMAIN page' = Tabs /\ \A t \in Tabs : page'[t] = page[t] \/ page'[t] = Blank
  BY DEF End
<1>2. ASSUME NEW t \in Tabs PROVE PageOK(page[t])'
  <2>1. PageOK(page[t]) /\ PageOK(Blank)
    BY PlainPage DEF PagesOK, PageOK, Blank
  <2>2. PageOK(page'[t])
    BY <1>1, <2>1
  <2> QED BY <2>2 DEF PageOK
<1> QED BY <1>1, <1>2 DEF PagesOK

LEMMA PagesStep ==
    ASSUME UIInv, UINext
    PROVE  PagesOK'
<1>0. /\ PagesOK /\ Default \in inForce
      /\ written \subseteq written' /\ inForce \subseteq inForce'
      /\ {"enroll", "index", "settings"} \subseteq Templates
  BY HistoryGrows DEF UIInv, SettingsInv, LiveIsInForce, Templates
<1>1. ASSUME UNCHANGED page PROVE PagesOK'
  BY <1>0, <1>1 DEF PagesOK, PageOK
<1>2. ASSUME NEW t \in Tabs, NEW url, NEW form, Send(t, url, form) PROVE PagesOK'
  BY <1>0, <1>2, PlainPageKeeps DEF Send, Blank
<1>3. ASSUME NEW t \in Tabs, Visit(t) \/ Follow(t) \/ Submit(t) \/ Reload(t) \/ PostLogout(t)
      PROVE  PagesOK'
  BY <1>2, <1>3 DEF Visit, Follow, Submit, Reload, PostLogout
<1>4. ASSUME NEW t \in Tabs,
             \/ Login(t) \/ Authenticate(t) \/ Logout(t) \/ Deny(t) \/ StatsFail(t) \/ NotFound(t)
             \/ DeleteUser(t) \/ DeletePicture(t)
      PROVE  PagesOK'
  <2>1. \/ UNCHANGED page
        \/ \E kind \in {"login", "error", "enroll"} : page' = [page EXCEPT ![t] = Page(kind)]
    BY <1>4 DEF Login, Authenticate, Logout, Deny, StatsFail, NotFound, DeleteUser, DeletePicture,
         Reply, Redirect
  <2> QED BY <1>0, <1>1, <2>1, PlainPageKeeps
<1>5. ASSUME NEW t \in Tabs, ShowPlain(t) PROVE PagesOK'
  BY <1>0, <1>5, PlainPageKind, PlainPageKeeps DEF ShowPlain, Served, Reply
<1>6. ASSUME NEW t \in Tabs, ListUsers(t) PROVE PagesOK'
  <2>1. PICK users \in {gallery, NoListing} :
           page' = [page EXCEPT ![t] = [Page("enroll") EXCEPT !.users = users]]
    BY <1>6 DEF ListUsers, Reply
  <2> DEFINE p == [Page("enroll") EXCEPT !.users = users]
  <2>2. /\ p.kind = "enroll" /\ p.users = users /\ p.threshold = Default /\ p.updated = FALSE
    BY DEF Page
  <2>3. users \in [Names -> StoredUser] /\ page' = [page EXCEPT ![t] = p]
    BY <2>1 DEF UIInv, GalleryOK, NoListing, StoredUser
  <2> HIDE DEF p
  <2> QED BY <1>0, <2>2, <2>3, NewPageKeeps
<1>7. ASSUME NEW t \in Tabs, ShowSettings(t) \/ ThresholdNotSaved(t) PROVE PagesOK'
  <2>1. page' = [page EXCEPT ![t] = SettingsPage(live, FALSE)]
    BY <1>7 DEF ShowSettings, ThresholdNotSaved, Reply
  <2>2. live \in inForce'
    BY <1>0 DEF UIInv, SettingsInv, LiveIsInForce
  <2> QED BY <1>0, <2>1, <2>2, SettingsPageKeeps
<1>8. ASSUME NEW t \in Tabs, ThresholdUpdated(t) PROVE PagesOK'
  <2>1. page' = [page EXCEPT ![t] = SettingsPage(value[t], TRUE)]
    BY <1>8 DEF ThresholdUpdated, Reply
  <2>2. value[t] \in written
    BY <1>8 DEF UIInv, StepsOK, SettingsInv, CallsAreValid, ThresholdUpdated, Publish
  <2>3. value[t] \in inForce'
    BY <1>8 DEF ThresholdUpdated, Publish
  <2> QED BY <1>0, <2>1, <2>2, <2>3, SettingsPageKeeps
<1>9. ASSUME NEW t \in Tabs,
             \/ ShowEnroll(t) \/ EnrollPicture(t) \/ PostThreshold(t) \/ SaveThreshold(t)
             \/ Lookup(t) \/ BeginWrite(t) \/ EndWrite(t)
      PROVE  PagesOK'
  BY <1>1, <1>9 DEF ShowEnroll, EnrollPicture, PostThreshold, SaveThreshold, Lookup,
       BeginWrite, EndWrite
<1>10. ASSUME NEW how, End(how) PROVE PagesOK'
  BY <1>0, <1>10, EndKeepsPages DEF End, settings, vars
<1>11. Expire \/ Stop \/ Start \/ (\E t \in Tabs : Abort(t)) => PagesOK'
  BY <1>1, <1>10 DEF Expire, Stop, Start, Abort
<1> QED BY <1>3, <1>4, <1>5, <1>6, <1>7, <1>8, <1>9, <1>11 DEF UINext
-----------------------------------------------------------------------------
\* The gallery, the cookie and the steps of requests.

\* Only the three handlers of posted forms write the gallery.
LEMMA OthersKeepGallery ==
    ASSUME UINext, ~UNCHANGED gallery
    PROVE  \E t \in Tabs : EnrollPicture(t) \/ DeleteUser(t) \/ DeletePicture(t)
<1>1. ASSUME NEW t \in Tabs,
             \/ Visit(t) \/ Follow(t) \/ Submit(t) \/ Reload(t) \/ PostLogout(t)
             \/ Login(t) \/ Authenticate(t) \/ Logout(t) \/ Deny(t) \/ ShowPlain(t)
             \/ StatsFail(t) \/ NotFound(t) \/ ShowEnroll(t) \/ ListUsers(t) \/ ShowSettings(t)
             \/ PostThreshold(t) \/ SaveThreshold(t) \/ ThresholdNotSaved(t)
             \/ ThresholdUpdated(t) \/ Lookup(t) \/ BeginWrite(t) \/ EndWrite(t) \/ Abort(t)
      PROVE  UNCHANGED gallery
  BY <1>1 DEF Visit, Follow, Submit, Reload, PostLogout, Send, Login, Authenticate, Logout,
       Deny, ShowPlain, StatsFail, NotFound, ShowEnroll, ListUsers, ShowSettings, PostThreshold,
       SaveThreshold, ThresholdNotSaved, ThresholdUpdated, Lookup, BeginWrite, EndWrite,
       Abort, End
<1>2. Expire \/ Stop \/ Start => UNCHANGED gallery
  BY DEF Expire, Stop, End, Start
<1> QED BY <1>1, <1>2 DEF UINext

LEMMA GalleryStep ==
    ASSUME UIInv, UINext
    PROVE  GalleryOK'
<1>0. GalleryOK /\ \A t \in Tabs : FormOK(t, request[t].form)
  BY DEF UIInv, RequestsOK, RequestOK
<1>1. ASSUME NEW n \in Names, NEW u \in StoredUser, u # NoUser => Bounded(u) /\ Aligned(u),
             gallery' = [gallery EXCEPT ![n] = u]
      PROVE  GalleryOK'
  <2>1. gallery' \in [Names -> StoredUser]
    BY <1>0, <1>1 DEF GalleryOK
  <2>2. \A m \in Names : gallery'[m] = IF m = n THEN u ELSE gallery[m]
    BY <1>0, <1>1 DEF GalleryOK
  <2> QED BY <1>0, <1>1, <2>1, <2>2 DEF GalleryOK
<1>2. UNCHANGED gallery => GalleryOK'
  BY <1>0 DEF GalleryOK
<1>3. ASSUME NEW t \in Tabs, EnrollPicture(t) PROVE GalleryOK'
  <2> DEFINE n == request[t].form.name
             face == request[t].form.face
  <2>1. n \in Names /\ face \in Faces
    BY <1>0, <1>3 DEF EnrollPicture, Posted, FormOK
  <2>2. gallery[n] \in User \cup {NoUser}
        /\ (gallery[n] # NoUser => Bounded(gallery[n]) /\ Aligned(gallery[n]))
    BY <1>0, <2>1 DEF GalleryOK, StoredUser
  <2>3. CASE HasRoom(gallery[n]) /\ Change(t, [gallery EXCEPT ![n] = WithFace(@, face)])
    <3>1. /\ WithFace(gallery[n], face) \in User
          /\ Bounded(WithFace(gallery[n], face)) /\ Aligned(WithFace(gallery[n], face))
      BY <2>1, <2>2, <2>3, WithFaceProperties
    <3> QED BY <1>1, <2>1, <2>3, <3>1 DEF Change, StoredUser
  <2>4. CASE UNCHANGED gallery
    BY <1>2, <2>4
  <2> QED BY <1>3, <2>3, <2>4 DEF EnrollPicture
<1>4. ASSUME NEW t \in Tabs, DeleteUser(t) PROVE GalleryOK'
  <2>1. request[t].form.name \in Names
    BY <1>0, <1>4 DEF DeleteUser, Posted, FormOK
  <2>2. \/ gallery' = [gallery EXCEPT ![request[t].form.name] = NoUser]
        \/ UNCHANGED gallery
    BY <1>4 DEF DeleteUser, Change
  <2> QED BY <1>1, <1>2, <2>1, <2>2 DEF StoredUser
<1>5. ASSUME NEW t \in Tabs, DeletePicture(t) PROVE GalleryOK'
  <2> DEFINE n == request[t].form.name
             index == request[t].form.index
             u == gallery[n]
  <2>1. n \in Names /\ index \in Nat
    BY <1>0, <1>5 DEF DeletePicture, Posted, FormOK
  <2>2. CASE gallery' # gallery
    <3>1. /\ u # NoUser /\ index < Len(u.embeddings)
          /\ gallery' = [gallery EXCEPT ![n] = WithoutPicture(u, index)]
      BY <1>5, <2>2 DEF DeletePicture, Change
    <3>2. u \in User /\ Bounded(u) /\ Aligned(u)
      BY <1>0, <2>1, <3>1 DEF GalleryOK, StoredUser
    <3>3. index < Len(u.pictures)
      BY <3>1, <3>2 DEF Aligned
    <3>4. /\ WithoutPicture(u, index) \in User
          /\ Bounded(WithoutPicture(u, index)) /\ Aligned(WithoutPicture(u, index))
      BY <2>1, <3>1, <3>2, <3>3, WithoutPictureProperties
    <3> QED BY <1>1, <2>1, <3>1, <3>4 DEF StoredUser
  <2> QED BY <1>2, <2>2
<1> QED BY <1>2, <1>3, <1>4, <1>5, OthersKeepGallery

LEMMA JarStep ==
    ASSUME UIInv, UINext
    PROVE  JarOK'
<1>0. JarOK
  BY DEF UIInv
<1>1. UNCHANGED browser => JarOK'
  BY <1>0 DEF JarOK, browser
<1>2. ASSUME NEW t \in Tabs, Authenticate(t) PROVE JarOK'
  BY <1>0, <1>1, <1>2 DEF Authenticate, JarOK, CookiePath
<1>3. ASSUME NEW t \in Tabs, Logout(t) PROVE JarOK'
  BY <1>0, <1>3 DEF Logout, JarOK, LogoutPath
<1>4. Expire => JarOK'
  BY DEF Expire, JarOK
<1>5. ASSUME NEW t \in Tabs,
             \/ Visit(t) \/ Follow(t) \/ Submit(t) \/ Reload(t) \/ PostLogout(t)
             \/ Login(t) \/ Deny(t) \/ ShowPlain(t) \/ StatsFail(t) \/ NotFound(t)
             \/ ShowEnroll(t) \/ EnrollPicture(t) \/ DeleteUser(t) \/ DeletePicture(t) \/ ListUsers(t)
             \/ ShowSettings(t) \/ PostThreshold(t) \/ SaveThreshold(t) \/ ThresholdNotSaved(t)
             \/ ThresholdUpdated(t) \/ Lookup(t) \/ BeginWrite(t) \/ EndWrite(t) \/ Abort(t)
      PROVE  UNCHANGED browser
  BY <1>5 DEF Visit, Follow, Submit, Reload, PostLogout, Send, Login, Deny, ShowPlain,
       StatsFail, NotFound, ShowEnroll, EnrollPicture, DeleteUser, DeletePicture, ListUsers,
       ShowSettings, PostThreshold, SaveThreshold, ThresholdNotSaved, ThresholdUpdated,
       Lookup, BeginWrite, EndWrite, Abort, End
<1>6. Stop \/ Start => UNCHANGED browser
  BY DEF Stop, End, Start
<1> QED BY <1>1, <1>2, <1>3, <1>4, <1>5, <1>6 DEF UINext

\* A request that goes on to step s, with its page, and disturbs no other.
LEMMA OneTabMoves ==
    ASSUME UIInv, NEW t \in Tabs, NEW s \in Steps,
           process = "up", process' = process,
           templates' \subseteq Templates,
           step' = [step EXCEPT ![t] = s],
           \A u \in Tabs \ {t} : page'[u] = page[u] /\ pc'[u] = pc[u],
           s = "set" <=> t \in Setters /\ pc'[t] # "idle",
           s \in {"sent", "list", "set"} => page'[t] = Blank,
           s \in {"render", "parse", "write"} => page'[t].kind \in Templates
    PROVE  StepsOK'
<1>1. step' \in [Tabs -> Steps] /\ \A u \in Tabs : step'[u] = IF u = t THEN s ELSE step[u]
  BY DEF UIInv, StepsOK
<1>2. ASSUME NEW u \in Tabs
      PROVE  /\ step'[u] = "set" <=> process' = "up" /\ u \in Setters /\ pc'[u] # "idle"
             /\ step'[u] \in {"sent", "list", "set"} => page'[u] = Blank
             /\ step'[u] \in {"render", "parse", "write"} => page'[u].kind \in Templates
  <2>1. CASE u = t
    BY <1>1, <2>1
  <2>2. CASE u # t
    BY <1>1, <2>2 DEF UIInv, StepsOK
  <2> QED BY <2>1, <2>2
<1> QED BY <1>1, <1>2 DEF StepsOK, UIInv

\* The process ends: no request is left.
LEMMA EndKeepsSteps ==
    ASSUME UIInv, NEW how \in {"aborted", "stopped"}, End(how)
    PROVE  StepsOK'
<1>1. step' = [u \in Tabs |-> "idle"] /\ process' = how /\ templates' = {}
  BY DEF End
<1> QED BY <1>1 DEF StepsOK, Steps

LEMMA StepsStep ==
    ASSUME UIInv, UINext
    PROVE  StepsOK'
<1>0. /\ StepsOK /\ DOMAIN page = Tabs /\ step \in [Tabs -> Steps]
      /\ \A t \in Tabs : step[t] # "idle" => process = "up"
      /\ \A t \in Tabs : process = "up" /\ step[t] # "set" => ~(t \in Setters /\ pc[t] # "idle")
      /\ templates \subseteq Templates /\ {"enroll", "settings"} \subseteq Templates
      /\ {"idle", "sent", "list", "render", "parse", "write"} \subseteq Steps \ {"set"}
      /\ "set" \in Steps
  BY DEF UIInv, StepsOK, PagesOK, Templates, Steps
<1>1. ASSUME NEW t \in Tabs, NEW url, NEW form, Send(t, url, form) PROVE StepsOK'
  BY <1>0, <1>1, OneTabMoves DEF Send, StepsOK, Steps, settings, vars
<1>2. ASSUME NEW t \in Tabs, Visit(t) \/ Follow(t) \/ Submit(t) \/ Reload(t) \/ PostLogout(t)
      PROVE  StepsOK'
  BY <1>1, <1>2 DEF Visit, Follow, Submit, Reload, PostLogout
\* The request is answered or goes on; the settings stay.
<1>3. ASSUME NEW t \in Tabs, NEW s \in Steps \ {"set"}, step[t] \notin {"idle", "set"},
             UNCHANGED <<settings, process>>, templates' \subseteq Templates,
             step' = [step EXCEPT ![t] = s],
             \A u \in Tabs \ {t} : page'[u] = page[u],
             s \in {"sent", "list"} => page'[t] = Blank,
             s \in {"render", "parse", "write"} => page'[t].kind \in Templates
      PROVE  StepsOK'
  BY <1>0, <1>3, OneTabMoves DEF settings, vars
<1>4. ASSUME NEW t \in Tabs, NEW kind, NEW s \in {"idle", "render"},
             step[t] = "sent", UNCHANGED <<settings, process, templates>>,
             Reply(t, Page(kind), s), s = "render" => kind \in Templates
      PROVE  StepsOK'
  <2>1. /\ step' = [step EXCEPT ![t] = s] /\ page'[t].kind = kind
        /\ \A u \in Tabs \ {t} : page'[u] = page[u]
    BY <1>0, <1>4, PlainPage DEF Reply
  <2> QED BY <1>0, <1>3, <1>4, <2>1
<1>5. ASSUME NEW t \in Tabs, Login(t) \/ StatsFail(t) \/ NotFound(t) \/ ShowPlain(t) PROVE StepsOK'
  <2>1. CASE Login(t)
    BY <1>4, <2>1 DEF Login, Asked
  <2>2. CASE StatsFail(t) \/ NotFound(t)
    BY <1>4, <2>2 DEF StatsFail, NotFound, Served
  <2>3. CASE ShowPlain(t)
    BY <1>4, <2>3, PlainPageKind DEF ShowPlain, Served
  <2> QED BY <1>5, <2>1, <2>2, <2>3
\* Redirected: the request is sent to another URL.
<1>6. ASSUME UNCHANGED <<settings, process, templates, step, page>> PROVE StepsOK'
  BY <1>0, <1>6 DEF StepsOK, settings, vars
<1>7. ASSUME NEW t \in Tabs, Authenticate(t) PROVE StepsOK'
  <2>1. CASE request[t].form.password = "right"
    BY <1>6, <1>7, <2>1 DEF Authenticate, Redirect
  <2>2. CASE request[t].form.password # "right"
    BY <1>4, <1>7, <2>2 DEF Authenticate, Asked
  <2> QED BY <2>1, <2>2
<1>8. ASSUME NEW t \in Tabs, Logout(t) \/ Deny(t) PROVE StepsOK'
  BY <1>6, <1>8 DEF Logout, Deny, Redirect
<1>9. ASSUME NEW t \in Tabs, step[t] = "sent", UNCHANGED <<settings, process, templates, page>>,
             step' = [step EXCEPT ![t] = "list"]
      PROVE  StepsOK'
  <2>1. page[t] = Blank
    BY <1>0, <1>9 DEF StepsOK
  <2> QED BY <1>0, <1>3, <1>9, <2>1
<1>10. ASSUME NEW t \in Tabs, ShowEnroll(t) \/ EnrollPicture(t) PROVE StepsOK'
  BY <1>9, <1>10 DEF ShowEnroll, EnrollPicture, Served
<1>11. ASSUME NEW t \in Tabs, DeleteUser(t) \/ DeletePicture(t) PROVE StepsOK'
  <2>1. \/ step' = [step EXCEPT ![t] = "list"] /\ UNCHANGED page
        \/ Reply(t, Page("enroll"), "render")
    BY <1>11 DEF DeleteUser, DeletePicture
  <2>2. step[t] = "sent" /\ UNCHANGED <<settings, process, templates>>
    BY <1>11 DEF DeleteUser, DeletePicture, Served
  <2> QED BY <1>0, <1>4, <1>9, <2>1, <2>2
<1>12. ASSUME NEW t \in Tabs, ListUsers(t) PROVE StepsOK'
  <2>1. \A users : [Page("enroll") EXCEPT !.users = users].kind = "enroll"
    BY DEF Page
  <2>2. /\ step[t] = "list" /\ step' = [step EXCEPT ![t] = "render"]
        /\ \E users : page' = [page EXCEPT ![t] = [Page("enroll") EXCEPT !.users = users]]
        /\ UNCHANGED <<settings, process, templates>>
    BY <1>12 DEF ListUsers, Reply
  <2>3. page'[t].kind = "enroll" /\ \A u \in Tabs \ {t} : page'[u] = page[u]
    BY <1>0, <2>1, <2>2
  <2> QED BY <1>0, <1>3, <2>2, <2>3
<1>13. ASSUME NEW v, NEW updated PROVE SettingsPage(v, updated).kind = "settings"
  BY DEF SettingsPage, Page
<1>14. ASSUME NEW t \in Tabs, ShowSettings(t) PROVE StepsOK'
  <2>1. /\ step[t] = "sent" /\ step' = [step EXCEPT ![t] = "render"]
        /\ page' = [page EXCEPT ![t] = SettingsPage(live, FALSE)]
        /\ UNCHANGED <<settings, process, templates>>
    BY <1>14 DEF ShowSettings, Served, Reply
  <2> QED BY <1>0, <1>3, <1>13, <2>1
<1>15. ASSUME NEW t \in Tabs, PostThreshold(t) PROVE StepsOK'
  <2>1. t \in Setters
    BY <1>15 DEF PostThreshold, Posted, UIInv, RequestsOK, RequestOK, FormOK
  <2>2. /\ pc'[t] = "save" /\ \A u \in Tabs \ {t} : pc'[u] = pc[u]
    BY <2>1, <1>15 DEF PostThreshold, Validate, UIInv, SettingsInv, TypeOK
  <2>3. /\ process = "up" /\ step' = [step EXCEPT ![t] = "set"] /\ page[t] = Blank
        /\ UNCHANGED <<process, templates, page>>
    BY <1>0, <1>15 DEF PostThreshold, Served, StepsOK
  <2> QED BY <1>0, <2>1, <2>2, <2>3, OneTabMoves
<1>16. ASSUME NEW t \in Tabs, SaveThreshold(t) PROVE StepsOK'
  <2>1. step[t] = "set" /\ t \in Setters /\ process = "up"
    BY <1>0, <1>16 DEF SaveThreshold, StepsOK
  <2>2. /\ pc'[t] = "publish" /\ \A u \in Tabs \ {t} : pc'[u] = pc[u]
    BY <1>16, <2>1 DEF SaveThreshold, Save, UIInv, SettingsInv, TypeOK
  <2>3. step' = [step EXCEPT ![t] = "set"] /\ page[t] = Blank /\ UNCHANGED <<process, templates, page>>
    BY <1>0, <1>16, <2>1 DEF SaveThreshold, StepsOK
  <2> QED BY <1>0, <2>1, <2>2, <2>3, OneTabMoves
<1>17. ASSUME NEW t \in Tabs, ThresholdNotSaved(t) \/ ThresholdUpdated(t) PROVE StepsOK'
  <2>1. step[t] = "set" /\ t \in Setters /\ process = "up"
    BY <1>0, <1>17 DEF ThresholdNotSaved, ThresholdUpdated, StepsOK
  <2>2. /\ pc'[t] = "idle" /\ \A u \in Tabs \ {t} : pc'[u] = pc[u]
    <3>1. pc' = [pc EXCEPT ![t] = "idle"]
      BY <1>17 DEF ThresholdNotSaved, ThresholdUpdated, SaveFails, Publish, Return
    <3>2. pc \in [Setters -> {"idle", "save", "publish"}]
      BY DEF UIInv, SettingsInv, TypeOK
    <3> QED BY <2>1, <3>1, <3>2
  <2>3. /\ step' = [step EXCEPT ![t] = "render"]
        /\ \E v, updated : page' = [page EXCEPT ![t] = SettingsPage(v, updated)]
        /\ UNCHANGED <<process, templates>>
    BY <1>17 DEF ThresholdNotSaved, ThresholdUpdated, Reply
  <2>4. page'[t].kind \in Templates /\ \A u \in Tabs \ {t} : page'[u] = page[u]
    BY <1>0, <1>13, <2>3
  <2> QED BY <1>0, <2>1, <2>2, <2>3, <2>4, OneTabMoves
<1>18. ASSUME NEW t \in Tabs, Lookup(t) \/ BeginWrite(t) PROVE StepsOK'
  <2>1. /\ step[t] \in {"render", "parse"} /\ UNCHANGED <<settings, process, templates, page>>
        /\ \E s \in {"idle", "parse", "write"} : step' = [step EXCEPT ![t] = s]
    BY <1>18 DEF Lookup, BeginWrite
  <2>2. page[t].kind \in Templates
    BY <1>0, <2>1 DEF StepsOK
  <2> QED BY <1>0, <1>3, <2>1, <2>2
<1>19. ASSUME NEW t \in Tabs, EndWrite(t) PROVE StepsOK'
  <2>1. /\ step[t] = "write" /\ step' = [step EXCEPT ![t] = "idle"]
        /\ UNCHANGED <<settings, process, page>>
        /\ templates' = templates \cup {page[t].kind}
    BY <1>19 DEF EndWrite
  <2>2. page[t].kind \in Templates
    BY <1>0, <2>1 DEF StepsOK
  <2> QED BY <1>0, <1>3, <2>1, <2>2
<1>20. Stop \/ (\E t \in Tabs : Abort(t)) => StepsOK'
  BY EndKeepsSteps DEF Stop, Abort
<1>21. Expire => StepsOK'
  BY <1>6 DEF Expire
<1>22. Start => StepsOK'
  <2> SUFFICES ASSUME Start PROVE StepsOK'
    OBVIOUS
  <2>1. \A t \in Tabs : step[t] = "idle"
    BY <1>0 DEF Start, StepsOK
  <2>2. process' = "up" /\ step' = step /\ page' = page /\ templates' = Warm
    BY DEF Start
  <2>3. \A t \in Tabs : ~(t \in Setters /\ pc'[t] # "idle")
    BY DEF Start, Restart
  <2>4. Warm \subseteq Templates
    BY TemplatesAssumption DEF Templates
  <2> QED BY <1>0, <2>1, <2>2, <2>3, <2>4 DEF StepsOK
<1> QED BY <1>2, <1>5, <1>7, <1>8, <1>10, <1>11, <1>12, <1>14, <1>15, <1>16, <1>17, <1>18,
        <1>19, <1>20, <1>21, <1>22 DEF UINext
-----------------------------------------------------------------------------
\* The invariant and the theorems.

LEMMA UIInitially == UIInit => UIInv
<1> SUFFICES ASSUME UIInit PROVE UIInv
  OBVIOUS
<1>1. SettingsInv
  BY SettingsInit DEF UIInit
<1>2. RequestsOK
  <2> DEFINE q == [url |-> UI(<<"login">>), form |-> NoForm, admitted |-> TRUE]
  <2>1. \A t \in Tabs : RequestOK(t, q)
    BY KnownURLs DEF RequestOK, FormOK
  <2>2. request = [t \in Tabs |-> q]
    BY DEF UIInit
  <2> HIDE DEF q
  <2> QED BY <2>1, <2>2 DEF RequestsOK
<1>3. PagesOK
  <2>1. PageOK(Page("blank"))
    BY <1>1, PlainPage DEF PageOK, SettingsInv, LiveIsInForce
  <2> QED BY <2>1 DEF UIInit, PagesOK, Blank
<1>4. GalleryOK
  BY InitUsersAssumption DEF UIInit, GalleryOK, StoredUser
<1>5. StepsOK
  BY TemplatesAssumption DEF UIInit, Init, StepsOK, Templates, Steps
<1>6. JarOK
  BY DEF UIInit, JarOK
<1> QED BY <1>1, <1>2, <1>3, <1>4, <1>5, <1>6 DEF UIInv

LEMMA UIUnchanged ==
    ASSUME UIInv, UNCHANGED uiVars
    PROVE  UIInv'
<1> USE DEF uiVars, settings, browser
<1>1. SettingsInv'
  BY SettingsUnchanged DEF UIInv
<1>2. RequestsOK'
  BY DEF UIInv, RequestsOK, RequestOK, BelowBase, FormOK
<1>3. PagesOK'
  BY DEF UIInv, PagesOK, PageOK, vars
<1>4. GalleryOK' /\ JarOK'
  BY DEF UIInv, GalleryOK, JarOK
<1>5. StepsOK'
  BY DEF UIInv, StepsOK, vars
<1> QED BY <1>1, <1>2, <1>3, <1>4, <1>5 DEF UIInv

LEMMA UIInvariance == UISpec => []UIInv
<1>1. UIInv /\ UINext => UIInv'
  BY SettingsSteps, SettingsStep, RequestsStep, PagesStep, GalleryStep, StepsStep, JarStep
     DEF UIInv
<1> QED BY <1>1, UIInitially, UIUnchanged, PTL DEF UISpec

\* What the pages do to the threshold is what ThresholdSettings allows.
THEOREM PagesImplementSettings == UISpec => Spec
<1>1. UIInit => Init
  BY DEF UIInit
<1>2. UIInv /\ [UINext]_uiVars => [Next]_vars
  BY SettingsSteps DEF uiVars, settings
<1> QED BY <1>1, <1>2, UIInvariance, PTL DEF UISpec, Spec

\* Whatever is typed into the settings form of any tab, and whenever the process
\* ends, the live threshold is the default or was on disk and lies in (0, 1).
THEOREM PagesKeepThresholdPersisted == UISpec => []LiveWasPersisted
  BY PagesImplementSettings, LiveThresholdWasPersisted, PTL

\* A settings page never shows a threshold that recognition did not use, and
\* reports success only of one that was saved as well: for any number of tabs that
\* set it at the same time, failing Saves, NaN, and ends of the process.
THEOREM ShownThresholds == UISpec => []ShownThresholdWasInForce
<1>1. UIInv => ShownThresholdWasInForce
  BY DEF UIInv, PagesOK, PageOK, ShownThresholdWasInForce
<1> QED BY <1>1, UIInvariance, PTL

\* What the store promises (FaceService is proved to keep it) ...
Store == INSTANCE UserGallery

\* ... names the operations on a record anew.
LEMMA StoreOperations ==
    ASSUME NEW u
    PROVE  /\ Store!HasRoom(u) <=> HasRoom(u)
           /\ \A f : Store!WithFace(u, f) = WithFace(u, f)
           /\ \A index : Store!WithoutPicture(u, index) = WithoutPicture(u, index)
  BY DEF Store!HasRoom, HasRoom, Store!WithFace, WithFace, Store!WithoutPicture,
         WithoutPicture, Store!RemoveAt, RemoveAt

\* Reposted forms, requests of several tabs and the ends of the process included,
\* the pages change the gallery only by the operations that the store promises to
\* be atomic: they never delete by an index that is not there, which would panic.
THEOREM PagesImplementGallery == UISpec => Store!Spec
<1>1. UIInit => Store!Init
  BY DEF UIInit, Store!Init
<1>2. ASSUME UIInv, UINext, ~UNCHANGED gallery PROVE Store!Next
  <2>1. GalleryOK /\ \A t \in Tabs : FormOK(t, request[t].form)
    BY <1>2 DEF UIInv, RequestsOK, RequestOK
  <2>2. PICK t \in Tabs : EnrollPicture(t) \/ DeleteUser(t) \/ DeletePicture(t)
    BY <1>2, OthersKeepGallery
  <2> DEFINE form == request[t].form
             n == form.name
  <2>3. CASE EnrollPicture(t)
    <3>1. n \in Names /\ form.face \in Faces
      BY <2>1, <2>3 DEF EnrollPicture, Posted, FormOK
    <3>2. HasRoom(gallery[n]) /\ gallery' = [gallery EXCEPT ![n] = WithFace(gallery[n], form.face)]
      BY <1>2, <2>3 DEF EnrollPicture, Change
    <3>3. Store!AddPicture(n, form.face)
      BY <3>2, StoreOperations DEF Store!AddPicture
    <3> QED BY <3>1, <3>3 DEF Store!Next
  <2>4. CASE DeleteUser(t)
    <3>1. n \in Names
      BY <2>1, <2>4 DEF DeleteUser, Posted, FormOK
    <3>2. Store!RemoveUser(n)
      BY <1>2, <2>4 DEF DeleteUser, Change, Store!RemoveUser
    <3> QED BY <3>1, <3>2 DEF Store!Next
  <2>5. CASE DeletePicture(t)
    <3> DEFINE u == gallery[n]
    <3>1. n \in Names /\ form.index \in Nat
      BY <2>1, <2>5 DEF DeletePicture, Posted, FormOK
    <3>2. /\ u # NoUser /\ form.index < Len(u.embeddings)
          /\ gallery' = [gallery EXCEPT ![n] = WithoutPicture(u, form.index)]
      BY <1>2, <2>5 DEF DeletePicture, Change
    <3>3. u \in User /\ Aligned(u)
      BY <2>1, <3>1, <3>2 DEF GalleryOK, StoredUser
    <3>4. form.index < Len(u.embeddings) /\ form.index \in 0..Len(u.pictures) - 1
      <4>1. Len(u.pictures) \in Nat
        BY <3>3 DEF User
      <4> QED BY <3>1, <3>2, <3>3, <4>1 DEF Aligned
    <3>5. Store!RemovePicture(n)
      BY <3>2, <3>4, StoreOperations DEF Store!RemovePicture
    <3> QED BY <3>1, <3>5 DEF Store!Next
  <2> QED BY <2>2, <2>3, <2>4, <2>5
<1>3. UIInv /\ [UINext]_uiVars => [Store!Next]_gallery
  BY <1>2 DEF uiVars
<1> QED BY <1>1, <1>3, UIInvariance, PTL DEF UISpec, Store!Spec

\* Types, and the steps of the pages: only a tab with the settings form is inside
\* SetThreshold, and users stay bounded and aligned.
THEOREM UITypeCorrectness == UISpec => []UITypeOK
<1>1. UIInv => UITypeOK
  <2> SUFFICES ASSUME UIInv PROVE UITypeOK
    OBVIOUS
  <2>1. /\ process \in {"up", "aborted", "stopped"}
        /\ templates \subseteq Templates
        /\ \A n \in Names : gallery[n] # NoUser => Bounded(gallery[n]) /\ Aligned(gallery[n])
        /\ signedIn \in BOOLEAN
        /\ step \in [Tabs -> Steps]
    BY DEF UIInv, StepsOK, GalleryOK, JarOK
  <2>2. process # "up" => step = [t \in Tabs |-> "idle"]
    BY <2>1 DEF UIInv, StepsOK
  <2>3. ASSUME NEW t \in Tabs
        PROVE  /\ request[t].admitted \in BOOLEAN
               /\ page[t].kind \in Templates \cup {"blank", "login", "error"}
               /\ step[t] = "set" <=> process = "up" /\ t \in Setters /\ pc[t] # "idle"
               /\ step[t] \in {"sent", "list", "set"} => page[t] = Blank
    BY DEF UIInv, RequestsOK, RequestOK, PagesOK, PageOK, StepsOK
  <2> QED BY <2>1, <2>2, <2>3 DEF UITypeOK
<1> QED BY <1>1, UIInvariance, PTL

LEMMA LinksAreReferences ==
    ASSUME NEW kind, NEW link \in Links(kind)
    PROVE  link.ref \in Seq(Segments) /\ Len(link.ref) > 0
<1>1. {"", "..", "auth", "enroll", "recognize", "settings", "delete", "delete-picture",
       "stats", "pico.min.css", "api", "audit", "face", "promote"} \subseteq Segments
  BY DEF Segments
<1>2. CASE link \in Anchors(kind)
  BY <1>2, AnchorsGoDown DEF Downward
<1>3. CASE link \in Actions(kind)
  <2>1. \/ link.ref \in {<<"auth">>, <<"recognize">>, <<"settings">>}
        \/ link.ref \in {<<"enroll">> \o <<>>, <<"enroll">> \o <<"delete">>,
                         <<"enroll">> \o <<"delete-picture">>}
    <3>1. \/ link = Ref(<<"auth">>, UI(<<"auth">>))
          \/ link = Ref(<<"recognize">>, UI(<<"recognize">>))
          \/ link = Ref(<<"settings">>, UI(<<"settings">>))
          \/ \E rest \in {<<>>, <<"delete">>, <<"delete-picture">>} :
                link = Ref(<<"enroll">> \o rest, UI(<<"enroll">> \o rest))
      BY <1>3 DEF Actions
    <3>2. link = Ref(<<"auth">>, UI(<<"auth">>)) => link.ref = <<"auth">>
      BY RefFields
    <3>3. /\ link = Ref(<<"recognize">>, UI(<<"recognize">>)) => link.ref = <<"recognize">>
          /\ link = Ref(<<"settings">>, UI(<<"settings">>)) => link.ref = <<"settings">>
      BY RefFields
    <3>4. ASSUME NEW rest, link = Ref(<<"enroll">> \o rest, UI(<<"enroll">> \o rest))
          PROVE  link.ref = <<"enroll">> \o rest
      BY <3>4, RefFields
    <3> QED BY <3>1, <3>2, <3>3, <3>4
  <2>2. \A a \in Segments : \A s \in Seq(Segments) :
           <<a>> \o s \in Seq(Segments) /\ Len(<<a>> \o s) > 0
    <3> SUFFICES ASSUME NEW a \in Segments, NEW s \in Seq(Segments)
                 PROVE  <<a>> \o s \in Seq(Segments) /\ Len(<<a>> \o s) > 0
      OBVIOUS
    <3>1. <<a>> \in Seq(Segments) /\ Len(<<a>>) = 1 /\ Len(s) \in Nat
      OBVIOUS
    <3> QED BY <3>1, ConcatProperties
  <2>3. \A a \in Segments : <<a>> \in Seq(Segments) /\ Len(<<a>>) > 0
    OBVIOUS
  <2>4. <<>> \in Seq(Segments) /\ <<"delete">> \in Seq(Segments) /\ <<"delete-picture">> \in Seq(Segments)
    BY <1>1, <2>3, EmptySeq
  <2> QED BY <1>1, <2>1, <2>2, <2>3, <2>4
<1>4. CASE link \in Fetches(kind)
  <2> DEFINE api == {<<"stats">>, <<"api", "audit">>, <<"api", "audit", "face">>,
                     <<"audit", "promote">>}
  <2>1. \/ link.ref = <<"pico.min.css">> \/ link.ref = <<"..", "stats">>
        \/ \E path \in api : link.ref = <<"..">> \o path
    <3>1. \/ link = Ref(<<"pico.min.css">>, UI(<<"pico.min.css">>))
          \/ link = Ref(<<"..", "stats">>, Base \o <<"stats">>)
          \/ \E path \in api : link = Ref(<<"..">> \o path, Base \o path)
      BY <1>4 DEF Fetches, StyleSheet
    <3>2. link = Ref(<<"pico.min.css">>, UI(<<"pico.min.css">>)) => link.ref = <<"pico.min.css">>
      BY RefFields
    <3>3. link = Ref(<<"..", "stats">>, Base \o <<"stats">>) => link.ref = <<"..", "stats">>
      BY RefFields
    <3>4. \A path : link = Ref(<<"..">> \o path, Base \o path) => link.ref = <<"..">> \o path
      BY RefFields
    <3> HIDE DEF api
    <3> QED BY <3>1, <3>2, <3>3, <3>4
  <2>2. /\ \A a \in Segments : <<a>> \in Seq(Segments) /\ Len(<<a>>) > 0
        /\ \A a, b \in Segments : <<a, b>> \in Seq(Segments) /\ Len(<<a, b>>) > 0
        /\ \A a, b, c \in Segments : <<a, b, c>> \in Seq(Segments)
    OBVIOUS
  <2>3. ASSUME NEW path \in api PROVE <<"..">> \o path \in Seq(Segments) /\ Len(<<"..">> \o path) > 0
    <3>1. path \in Seq(Segments) /\ <<"..">> \in Seq(Segments) /\ Len(<<"..">>) = 1 /\ Len(path) \in Nat
      BY <1>1, <2>2
    <3> QED BY <3>1, ConcatProperties
  <2> HIDE DEF api
  <2> QED BY <1>1, <2>1, <2>2, <2>3
<1> QED BY <1>2, <1>3, <1>4 DEF Links

\* The cookie goes with every reference of a shown page (the links, forms and
\* fetches of all templates and of the login page) while signed in, and with
\* none after a logout, whatever prefix the ingress strips.
THEOREM SessionsCoverPages == UISpec => []SessionCoversPages
<1>1. UIInv => SessionCoversPages
  <2> SUFFICES ASSUME UIInv, NEW t \in Tabs, NEW link \in Links(page[t].kind)
               PROVE  LET url == Resolve(request[t].url, link.ref)
                      IN  IF signedIn THEN Public(url) \/ Sent(url) ELSE ~Sent(url)
    BY DEF SessionCoversPages
  <2> DEFINE url == Resolve(request[t].url, link.ref)
  <2>1. BelowBase(request[t].url)
    BY DEF UIInv, RequestsOK, RequestOK
  <2>2. IsPrefix(Base, url)
    BY <2>1, LinksAreReferences, ResolveKeepsBase
  <2> HIDE DEF url
  <2>3. signedIn => Sent(url)
    BY <2>2 DEF UIInv, JarOK, Sent
  <2>4. ~signedIn => ~Sent(url)
    BY DEF UIInv, JarOK, Sent
  <2> QED BY <2>3, <2>4 DEF url
<1> QED BY <1>1, UIInvariance, PTL

\* Once all templates are cached, no request writes the map, so that no request
\* can find it being written.
THEOREM WarmCacheStaysWarm == UISpec => WarmCacheNeverAborts
<1> DEFINE A == CacheIsWarm => CacheIsWarm' \/ process' = "stopped"
<1>1. ASSUME UIInv, UINext, CacheIsWarm
      PROVE  CacheIsWarm' \/ process' = "stopped"
  <2>0. /\ process = "up" /\ templates = Templates
        /\ \A t \in Tabs : step[t] \notin {"parse", "write"}
        /\ step \in [Tabs -> Steps]
        /\ \A t \in Tabs : step[t] = "render" => page[t].kind \in Templates
    BY <1>1 DEF CacheIsWarm, UIInv, StepsOK
  <2>1. ASSUME NEW t \in Tabs, NEW s \in Steps \ {"parse", "write"},
               UNCHANGED <<process, templates>>, step' = [step EXCEPT ![t] = s]
        PROVE  CacheIsWarm'
    BY <2>0, <2>1 DEF CacheIsWarm
  <2>2. {"idle", "sent", "list", "set", "render"} \subseteq Steps \ {"parse", "write"}
    BY DEF Steps
  <2>3. ASSUME UNCHANGED <<process, templates, step>> PROVE CacheIsWarm'
    BY <2>0, <2>3 DEF CacheIsWarm
  <2>4. ASSUME NEW t \in Tabs, Visit(t) \/ Follow(t) \/ Submit(t) \/ Reload(t) \/ PostLogout(t)
        PROVE  CacheIsWarm'
    BY <2>1, <2>2, <2>4 DEF Visit, Follow, Submit, Reload, PostLogout, Send
  <2>5. ASSUME NEW t \in Tabs,
               \/ Login(t) \/ Authenticate(t) \/ Logout(t) \/ Deny(t)
               \/ ShowPlain(t) \/ StatsFail(t) \/ NotFound(t)
        PROVE  CacheIsWarm'
    <3>1. /\ UNCHANGED <<process, templates>>
          /\ \/ UNCHANGED step
             \/ \E s \in {"idle", "render"} : step' = [step EXCEPT ![t] = s]
      BY <2>5 DEF Login, Authenticate, Logout, Deny, ShowPlain, StatsFail, NotFound, Reply, Redirect
    <3> QED BY <2>1, <2>2, <2>3, <3>1
  <2>6. ASSUME NEW t \in Tabs,
               \/ ShowEnroll(t) \/ EnrollPicture(t) \/ DeleteUser(t) \/ DeletePicture(t)
               \/ ListUsers(t) \/ ShowSettings(t) \/ PostThreshold(t) \/ SaveThreshold(t)
               \/ ThresholdNotSaved(t) \/ ThresholdUpdated(t)
        PROVE  CacheIsWarm'
    <3>1. /\ UNCHANGED <<process, templates>>
          /\ \/ UNCHANGED step
             \/ \E s \in {"list", "set", "render"} : step' = [step EXCEPT ![t] = s]
      BY <2>6 DEF ShowEnroll, EnrollPicture, DeleteUser, DeletePicture, ListUsers,
           ShowSettings, PostThreshold, SaveThreshold, ThresholdNotSaved, ThresholdUpdated,
           Reply
    <3> QED BY <2>1, <2>2, <2>3, <3>1
  <2>7. ASSUME NEW t \in Tabs, Lookup(t) PROVE CacheIsWarm'
    BY <2>0, <2>1, <2>2, <2>7 DEF Lookup
  <2>8. ASSUME NEW t \in Tabs, BeginWrite(t) \/ EndWrite(t) \/ Abort(t) PROVE FALSE
    BY <2>0, <2>8 DEF BeginWrite, EndWrite, Abort, Writing
  <2>9. Expire => CacheIsWarm'
    BY <2>3 DEF Expire
  <2>10. Stop => process' = "stopped"
    BY DEF Stop, End
  <2>11. ~Start
    BY <2>0 DEF Start
  <2> QED BY <1>1, <2>4, <2>5, <2>6, <2>7, <2>8, <2>9, <2>10, <2>11 DEF UINext
<1>2. UIInv /\ [UINext]_uiVars => [A]_<<process, templates, step>>
  BY <1>1 DEF uiVars
<1>3. UISpec => [][A]_<<process, templates, step>>
  BY <1>2, UIInvariance, PTL DEF UISpec
<1> QED BY <1>3 DEF WarmCacheNeverAborts
-----------------------------------------------------------------------------
\* The listing a deletion was posted from.

\* The posted index is where the picture that was meant is now.
PointsAtMeant(form) ==
    /\ gallery[form.name] # NoUser
    /\ form.index + 1 \in DOMAIN gallery[form.name].pictures
    /\ gallery[form.name].pictures[form.index + 1] = form.meant

\* What tab t shows, and what it has posted, is true of the gallery as long as
\* nothing has made its listing outdated.
ListingOK(t) ==
    ~outdated[t] =>
       /\ \A n \in Names : page[t].users[n] # NoUser => page[t].users[n] = gallery[n]
       /\ step[t] = "sent" /\ Posted(t, "delete_picture") => PointsAtMeant(request[t].form)

ListingsOK == DOMAIN outdated = Tabs /\ \A t \in Tabs : ListingOK(t)

LEMMA NothingListed == \A kind, n : n \in Names => Page(kind).users[n] = NoUser
  BY DEF Page, NoListing

\* Nothing that a tab depends on changes.
LEMMA QuietTab ==
    ASSUME NEW t, ListingOK(t), gallery' = gallery,
           outdated'[t] = outdated[t], step'[t] = step[t],
           request'[t] = request[t], page'[t] = page[t]
    PROVE  ListingOK(t)'
  BY DEF ListingOK, PointsAtMeant, Posted

\* The tab's request goes on, and its page lists nothing new.
LEMMA TabGoesOn ==
    ASSUME NEW t, ListingOK(t), gallery' = gallery,
           outdated'[t] = outdated[t], step'[t] # "sent",
           page'[t] = page[t] \/ \A n \in Names : page'[t].users[n] = NoUser
    PROVE  ListingOK(t)'
  BY DEF ListingOK

\* The gallery stays and so do the other tabs.
LEMMA OtherTabs ==
    ASSUME UIInv, ListingsOK, NEW t \in Tabs, UNCHANGED <<gallery>>, DOMAIN outdated' = Tabs,
           \A u \in Tabs \ {t} : /\ outdated'[u] = outdated[u] /\ step'[u] = step[u]
                                 /\ request'[u] = request[u] /\ page'[u] = page[u],
           ListingOK(t)'
    PROVE  ListingsOK'
<1>1. ASSUME NEW u \in Tabs \ {t} PROVE ListingOK(u)'
  BY <1>1, QuietTab DEF ListingsOK
<1> QED BY <1>1 DEF ListingsOK

\* A request is sent, whose form, if it deletes a picture, points at it.
LEMMA SendKeepsListings ==
    ASSUME UIInv, ListingsOK, NEW t \in Tabs, NEW url, NEW form, Send(t, url, form),
           DOMAIN outdated' = Tabs, \A u \in Tabs \ {t} : outdated'[u] = outdated[u],
           ~outdated'[t] /\ form # NoForm /\ form.do = "delete_picture" => PointsAtMeant(form)
    PROVE  ListingsOK'
<1>1. /\ UNCHANGED gallery
      /\ step' = [step EXCEPT ![t] = "sent"]
      /\ page' = [page EXCEPT ![t] = Page("blank")]
      /\ \E admitted : request' = [request EXCEPT ![t] =
                                      [url |-> url, form |-> form, admitted |-> admitted]]
  BY DEF Send, Blank
<1>2. step \in [Tabs -> Steps] /\ DOMAIN page = Tabs /\ DOMAIN request = Tabs
  BY DEF UIInv, StepsOK, PagesOK, RequestsOK
<1>3. request'[t].form = form /\ page'[t] = Page("blank")
  BY <1>1, <1>2
<1>4. ListingOK(t)'
  <2>1. PointsAtMeant(form)' <=> PointsAtMeant(form)
    BY <1>1 DEF PointsAtMeant
  <2>2. Posted(t, "delete_picture")' <=> form # NoForm /\ form.do = "delete_picture"
    BY <1>3 DEF Posted
  <2>3. PointsAtMeant(request[t].form)' <=> PointsAtMeant(form)
    BY <1>1, <1>3 DEF PointsAtMeant
  <2> QED BY <1>3, <2>2, <2>3, NothingListed DEF ListingOK
<1>5. \A u \in Tabs \ {t} : step'[u] = step[u] /\ request'[u] = request[u] /\ page'[u] = page[u]
  BY <1>1, <1>2
<1> QED BY <1>1, <1>4, <1>5, OtherTabs

\* Tab t's own deletion or upload: every other listing becomes outdated, and t
\* shows none until it has the new one.
LEMMA ChangeKeepsListings ==
    ASSUME UIInv, ListingsOK, NEW t \in Tabs, NEW new, Change(t, new),
           step[t] = "sent", UNCHANGED <<request, page>>,
           step' = [step EXCEPT ![t] = "list"]
    PROVE  ListingsOK'
<1>1. \A u \in Tabs : outdated'[u] <=> outdated[u] \/ u # t
  BY DEF Change
<1>2. page'[t] = Page("blank")
  BY DEF UIInv, StepsOK, Blank
<1>3. step'[t] = "list"
  BY DEF UIInv, StepsOK
<1>4. ASSUME NEW u \in Tabs PROVE ListingOK(u)'
  <2>1. CASE u = t
    BY <1>2, <1>3, <2>1, NothingListed DEF ListingOK
  <2>2. CASE u # t
    BY <1>1, <2>2 DEF ListingOK
  <2> QED BY <2>1, <2>2
<1>5. DOMAIN outdated' = Tabs
  BY DEF Change
<1> QED BY <1>4, <1>5 DEF ListingsOK

\* A request is redirected: it is a GET now.
LEMMA RedirectKeepsListings ==
    ASSUME UIInv, ListingsOK, NEW t \in Tabs, NEW url, Redirect(t, url),
           UNCHANGED <<gallery, outdated>>
    PROVE  ListingsOK'
<1>1. DOMAIN request = Tabs
  BY DEF UIInv, RequestsOK
<1>2. request'[t].form = NoForm /\ \A u \in Tabs \ {t} : request'[u] = request[u]
  BY <1>1 DEF Redirect
<1>3. ListingOK(t)'
  BY <1>2 DEF ListingsOK, ListingOK, Redirect, Posted
<1> QED BY <1>2, <1>3, OtherTabs DEF Redirect, ListingsOK

\* A request goes on, or is answered by a page without a listing.
LEMMA ReplyKeepsListings ==
    ASSUME UIInv, ListingsOK, NEW t \in Tabs, NEW s, s # "sent",
           UNCHANGED <<gallery, outdated, request>>, step' = [step EXCEPT ![t] = s],
           \/ UNCHANGED page
           \/ \E p : page' = [page EXCEPT ![t] = p] /\ \A n \in Names : p.users[n] = NoUser
    PROVE  ListingsOK'
<1>1. step \in [Tabs -> Steps] /\ DOMAIN page = Tabs
  BY DEF UIInv, StepsOK, PagesOK
<1>2. /\ step'[t] = s /\ \A u \in Tabs \ {t} : step'[u] = step[u] /\ page'[u] = page[u]
      /\ page'[t] = page[t] \/ \A n \in Names : page'[t].users[n] = NoUser
  BY <1>1
<1>3. ListingOK(t)'
  BY <1>2, TabGoesOn DEF ListingsOK
<1> QED BY <1>2, <1>3, OtherTabs DEF ListingsOK

\* The same, for the response as it is written.
LEMMA PageKeepsListings ==
    ASSUME UIInv, ListingsOK, NEW t \in Tabs, NEW p, NEW s, s # "sent",
           UNCHANGED <<gallery, outdated, request>>, Reply(t, p, s),
           \A n \in Names : p.users[n] = NoUser
    PROVE  ListingsOK'
  BY ReplyKeepsListings DEF Reply

\* What a page offers to delete is what its listing shows there.
LEMMA FormsPoint ==
    ASSUME UIInv, NEW t \in Tabs, ListingOK(t), ~outdated[t],
           NEW f \in Forms(page[t]), f.form.do = "delete_picture"
    PROVE  PointsAtMeant(f.form)
<1>0. page[t].users \in [Names -> StoredUser] /\ DOMAIN page = Tabs
  BY DEF UIInv, PagesOK, PageOK
<1>1. CASE page[t].kind \in {"login", "recognize"}
  BY <1>1 DEF Forms
<1>2. CASE page[t].kind = "settings"
  BY <1>2 DEF Forms
<1>3. CASE page[t].kind = "enroll"
  <2>1. \/ \E n \in Names : \E face \in Uploads :
              f = [to |-> <<"enroll">>, form |-> [do |-> "enroll", name |-> n, face |-> face]]
        \/ \E n \in Names :
              f = [to |-> <<"enroll", "delete">>, form |-> [do |-> "delete", name |-> n]]
        \/ \E n \in Names : page[t].users[n] # NoUser /\ \E k \in DOMAIN page[t].users[n].pictures :
              f = [to |-> <<"enroll", "delete-picture">>,
                   form |-> [do |-> "delete_picture", name |-> n, index |-> k - 1,
                             meant |-> page[t].users[n].pictures[k]]]
    BY <1>3 DEF Forms
  <2>2. PICK n \in Names : page[t].users[n] # NoUser /\ \E k \in DOMAIN page[t].users[n].pictures :
              f = [to |-> <<"enroll", "delete-picture">>,
                   form |-> [do |-> "delete_picture", name |-> n, index |-> k - 1,
                             meant |-> page[t].users[n].pictures[k]]]
    BY <2>1
  <2>3. PICK k \in DOMAIN page[t].users[n].pictures :
              f.form.name = n /\ f.form.index = k - 1 /\ f.form.meant = page[t].users[n].pictures[k]
    BY <2>2
  <2>4. page[t].users[n] = gallery[n] /\ gallery[n] # NoUser
    BY <2>2 DEF ListingOK
  <2>5. k \in Nat /\ k - 1 + 1 = k
    BY <1>0, <2>2 DEF StoredUser, User
  <2> QED BY <2>3, <2>4, <2>5 DEF PointsAtMeant
<1>4. page[t].kind \in {"login", "recognize", "settings", "enroll"}
  BY DEF Forms
<1> QED BY <1>1, <1>2, <1>3, <1>4

LEMMA ListingsStep ==
    ASSUME UIInv, ListingsOK, UINext
    PROVE  ListingsOK'
<1>0. /\ DOMAIN outdated = Tabs /\ \A t \in Tabs : ListingOK(t)
      /\ DOMAIN page = Tabs /\ DOMAIN request = Tabs /\ step \in [Tabs -> Steps]
  BY DEF ListingsOK, UIInv, PagesOK, RequestsOK, StepsOK
<1>1. ASSUME NEW t \in Tabs, Visit(t) \/ Follow(t) \/ PostLogout(t) PROVE ListingsOK'
  BY <1>0, <1>1, SendKeepsListings DEF Visit, Follow, PostLogout
<1>2. ASSUME NEW t \in Tabs, Submit(t) PROVE ListingsOK'
  <2>1. PICK f \in Forms(page[t]) :
           Send(t, Resolve(request[t].url, f.to), f.form) /\ UNCHANGED outdated
    BY <1>2 DEF Submit
  <2>2. ~outdated'[t] /\ f.form.do = "delete_picture" => PointsAtMeant(f.form)
    BY <1>0, <2>1, FormsPoint
  <2> QED BY <1>0, <2>1, <2>2, SendKeepsListings
<1>3. ASSUME NEW t \in Tabs, Reload(t) PROVE ListingsOK'
  <2>1. /\ outdated'[t] <=> outdated[t] \/ request[t].form # NoForm
        /\ DOMAIN outdated' = Tabs /\ \A u \in Tabs \ {t} : outdated'[u] = outdated[u]
    BY <1>0, <1>3 DEF Reload
  <2> QED BY <1>3, <2>1, SendKeepsListings DEF Reload
<1>4. ASSUME NEW t \in Tabs, Authenticate(t) PROVE ListingsOK'
  <2>1. CASE request[t].form.password = "right"
    BY <1>4, <2>1, RedirectKeepsListings DEF Authenticate
  <2>2. CASE request[t].form.password # "right"
    BY <1>4, <2>2, PageKeepsListings, NothingListed DEF Authenticate
  <2> QED BY <2>1, <2>2
<1>5. ASSUME NEW t \in Tabs, Logout(t) \/ Deny(t) PROVE ListingsOK'
  BY <1>5, RedirectKeepsListings DEF Logout, Deny
<1>6. ASSUME NEW t \in Tabs, Login(t) \/ ShowPlain(t) \/ StatsFail(t) \/ NotFound(t) PROVE ListingsOK'
  <2>1. \/ Reply(t, Page("login"), "idle") \/ Reply(t, Page("error"), "idle")
        \/ \E kind : Reply(t, Page(kind), "render")
    BY <1>6 DEF Login, ShowPlain, StatsFail, NotFound
  <2>2. UNCHANGED <<gallery, outdated, request>>
    BY <1>6 DEF Login, ShowPlain, StatsFail, NotFound
  <2> QED BY <2>1, <2>2, PageKeepsListings, NothingListed
<1>7. ASSUME NEW t \in Tabs, ShowSettings(t) \/ ThresholdNotSaved(t) \/ ThresholdUpdated(t)
      PROVE  ListingsOK'
  <2>1. \A threshold, updated : \A n \in Names : SettingsPage(threshold, updated).users[n] = NoUser
    BY DEF SettingsPage, Page, NoListing
  <2>2. \E threshold, updated : Reply(t, SettingsPage(threshold, updated), "render")
    BY <1>7 DEF ShowSettings, ThresholdNotSaved, ThresholdUpdated
  <2>3. UNCHANGED <<gallery, outdated, request>>
    BY <1>7 DEF ShowSettings, ThresholdNotSaved, ThresholdUpdated
  <2> QED BY <2>1, <2>2, <2>3, PageKeepsListings
<1>8. ASSUME NEW t \in Tabs,
             ShowEnroll(t) \/ PostThreshold(t) \/ Lookup(t) \/ BeginWrite(t) \/ EndWrite(t)
      PROVE  ListingsOK'
  BY <1>8, ReplyKeepsListings DEF ShowEnroll, PostThreshold, Lookup, BeginWrite, EndWrite
<1>9. ASSUME NEW t \in Tabs, SaveThreshold(t) PROVE ListingsOK'
  BY <1>0, <1>9, QuietTab DEF SaveThreshold, ListingsOK
<1>10. ASSUME NEW t \in Tabs, EnrollPicture(t) PROVE ListingsOK'
  BY <1>10, ChangeKeepsListings, ReplyKeepsListings DEF EnrollPicture, Served
<1>11. ASSUME NEW t \in Tabs, DeleteUser(t) PROVE ListingsOK'
  BY <1>11, ChangeKeepsListings, ReplyKeepsListings, NothingListed DEF DeleteUser, Served, Reply
<1>12. ASSUME NEW t \in Tabs, DeletePicture(t) PROVE ListingsOK'
  BY <1>12, ChangeKeepsListings, ReplyKeepsListings, NothingListed
     DEF DeletePicture, Served, Reply
<1>13. ASSUME NEW t \in Tabs, ListUsers(t) PROVE ListingsOK'
  <2>1. PICK users \in {gallery, NoListing} :
           page' = [page EXCEPT ![t] = [Page("enroll") EXCEPT !.users = users]]
    BY <1>13 DEF ListUsers, Reply
  <2>2. /\ step' = [step EXCEPT ![t] = "render"]
        /\ UNCHANGED <<gallery, request>>
        /\ outdated' = [outdated EXCEPT ![t] = FALSE]
    BY <1>13 DEF ListUsers, Reply
  <2>3. page'[t].users = users
    BY <1>0, <2>1 DEF Page
  <2>4. \A n \in Names : page'[t].users[n] # NoUser => page'[t].users[n] = gallery'[n]
    BY <2>2, <2>3 DEF NoListing
  <2>5. ListingOK(t)'
    BY <1>0, <2>2, <2>4 DEF ListingOK
  <2> QED BY <1>0, <2>1, <2>2, <2>5, OtherTabs
<1>14. ASSUME NEW how, End(how) PROVE ListingsOK'
  <2>1. ASSUME NEW t \in Tabs PROVE ListingOK(t)'
    <3>1. step'[t] = "idle" /\ gallery' = gallery /\ outdated' = outdated
      BY <1>14 DEF End
    <3>2. page'[t] = page[t] \/ page'[t] = Page("blank")
      BY <1>14 DEF End, Blank
    <3> QED BY <1>0, <3>1, <3>2, TabGoesOn, NothingListed
  <2> QED BY <1>0, <1>14, <2>1 DEF End, ListingsOK
<1>15. Start \/ Expire => ListingsOK'
  BY <1>0, QuietTab DEF Start, Expire, ListingsOK
<1> QED BY <1>1, <1>2, <1>3, <1>4, <1>5, <1>6, <1>7, <1>8, <1>9, <1>10, <1>11, <1>12,
           <1>13, <1>14, <1>15 DEF UINext, Abort, Stop

LEMMA ListingsInitially == UIInit => ListingsOK
  BY NothingListed DEF UIInit, ListingsOK, ListingOK, Blank

LEMMA ListingsInvariance == UISpec => []ListingsOK
<1>1. ListingsOK /\ UNCHANGED uiVars => ListingsOK'
  BY QuietTab DEF uiVars, ListingsOK
<1> QED BY <1>1, ListingsInitially, ListingsStep, UIInvariance, PTL DEF UISpec

\* The index that a tab posts deletes the picture that it shows, unless another
\* tab has changed the gallery in between or the form is posted twice.
THEOREM DeletionsHitTheirPicture == UISpec => DeletesPictureMeant
<1> DEFINE B(t) == LET form == request[t].form
                   IN  (gallery' # gallery /\ step'[t] # step[t] /\ Posted(t, "delete_picture")) =>
                          \/ outdated[t]
                          \/ \E k \in DOMAIN gallery[form.name].pictures :
                                /\ gallery[form.name].pictures[k] = form.meant
                                /\ gallery' = [gallery EXCEPT ![form.name] = WithoutPicture(@, k - 1)]
           A == \A t \in Tabs : B(t)
<1>1. ASSUME UIInv, ListingsOK, UINext, NEW t \in Tabs,
             gallery' # gallery, step'[t] # step[t], Posted(t, "delete_picture"), ~outdated[t]
      PROVE  \E k \in DOMAIN gallery[request[t].form.name].pictures :
                /\ gallery[request[t].form.name].pictures[k] = request[t].form.meant
                /\ gallery' = [gallery EXCEPT ![request[t].form.name] = WithoutPicture(@, k - 1)]
  <2> DEFINE form == request[t].form
  <2>1. PICK u \in Tabs : EnrollPicture(u) \/ DeleteUser(u) \/ DeletePicture(u)
    BY <1>1 DEF UINext, Visit, Follow, Submit, Reload, PostLogout, Send, Login, Authenticate,
         Logout, Deny, ShowPlain, StatsFail, NotFound, ShowEnroll, ListUsers, ShowSettings,
         PostThreshold, SaveThreshold, ThresholdNotSaved, ThresholdUpdated, Lookup, BeginWrite, EndWrite,
         Abort, End, Expire, Stop, Start
  <2>2. u = t
    <3>1. step \in [Tabs -> Steps]
      BY <1>1 DEF UIInv, StepsOK
    <3>2. \E s : step' = [step EXCEPT ![u] = s]
      BY <2>1 DEF EnrollPicture, DeleteUser, DeletePicture, Reply
    <3> QED BY <1>1, <3>1, <3>2
  <2>3. DeletePicture(t)
    BY <1>1, <2>1, <2>2 DEF EnrollPicture, DeleteUser, Posted
  <2>4. /\ step[t] = "sent"
        /\ gallery' = [gallery EXCEPT ![form.name] = WithoutPicture(@, form.index)]
    BY <1>1, <2>3 DEF DeletePicture, Served, Change
  <2>5. PointsAtMeant(form)
    BY <1>1, <2>4 DEF ListingsOK, ListingOK
  <2>6. form.index \in Nat
    BY <1>1 DEF UIInv, RequestsOK, RequestOK, FormOK, Posted
  <2> DEFINE k == form.index + 1
  <2>7. k \in DOMAIN gallery[form.name].pictures /\ gallery[form.name].pictures[k] = form.meant
    BY <2>5 DEF PointsAtMeant
  <2>8. gallery' = [gallery EXCEPT ![form.name] = WithoutPicture(@, k - 1)]
    <3> DEFINE i == form.index
               j == k - 1
    <3>0. i = j
      BY <2>6
    <3>1. gallery' = [gallery EXCEPT ![form.name] = WithoutPicture(@, i)]
      BY <2>4
    <3> HIDE DEF form, i, j
    <3>2. gallery' = [gallery EXCEPT ![form.name] = WithoutPicture(@, j)]
      BY <3>0, <3>1, Zenon
    <3> QED BY <3>2 DEF j
  <2> HIDE DEF k
  <2> QED BY <2>7, <2>8
<1>2. UIInv /\ ListingsOK /\ [UINext]_uiVars => [A]_<<step, gallery>>
  <2> SUFFICES ASSUME UIInv, ListingsOK, [UINext]_uiVars, ~UNCHANGED <<step, gallery>>
               PROVE  A
    OBVIOUS
  <2>1. UINext
    BY DEF uiVars
  <2> QED BY <1>1, <2>1
<1>3. UISpec => [][A]_<<step, gallery>>
  BY <1>2, UIInvariance, ListingsInvariance, PTL DEF UISpec
<1> QED BY <1>3 DEF DeletesPictureMeant
=============================================================================
