------------------------------- MODULE WebUI -------------------------------
(***************************************************************************)
(* The pages under /ui/ and a browser with several tabs: the login cookie, *)
(* the authentication middleware, the page handlers, the template cache    *)
(* they share, and the relative links of the pages they render.            *)
(*                                                                         *)
(* The settings form goes through SetThreshold, step by step (module       *)
(* ThresholdSettings, its callers being the tabs); deletions are atomic    *)
(* operations on the gallery, as FaceService is proved to provide them.    *)
(* An ingress serves the program under Base and strips that prefix.  A URL *)
(* is the sequence of its segments, and "" ends the path of a directory.   *)
(* The token is not empty.  Browser and ingress are external.              *)
(***************************************************************************)
EXTENDS ThresholdSettings, Enrollment

CONSTANTS
    Tabs,       \* the tabs of the browser
    Submits,    \* which forms each tab submits; Setters are those for "threshold"
    Warm,       \* templates other clients have had rendered before these tabs
    Base,       \* UI_BASE_PATH, as a sequence of segments
    Uploads,    \* the pictures that are chosen in the enroll form
    NoForm,     \* a GET request
    Passwords,  \* what is typed into the login form: "right" or not
    InitUsers   \* the records a name may start with

ASSUME BaseAssumption == Base \in Seq(STRING)

ASSUME SubmitsAssumption ==
    /\ Setters = {t \in Tabs : "threshold" \in Submits[t]}
    /\ Uploads \subseteq Faces

ASSUME TemplatesAssumption ==
    Warm \subseteq {"index", "enroll", "recognize", "audit", "settings", "stats"}

ASSUME InitUsersAssumption ==
    \A u \in InitUsers \ {NoUser} : u \in User /\ Bounded(u) /\ Aligned(u)

VARIABLES
    process,    \* is the server up, or how did it end?
    templates,  \* the keys of templateCache
    gallery,    \* name -> stored user, or NoUser
    jar,        \* the Path of each authentication cookie the browser has
    signedIn,   \* history: the last login, logout or expiry was a login
    step,       \* where the request of each tab is
    request,    \* the request of each tab, or the one its page came from
    page,       \* the page of each tab; the one being made if step # "idle"
    outdated    \* history: the gallery has changed since the listing was read that
                \* the tab's form was made from

settings == vars   \* the variables of ThresholdSettings
browser == <<jar, signedIn>>
uiVars == <<settings, process, templates, gallery, browser, step, request, page, outdated>>

NoListing == [n \in Names |-> NoUser]

\* What a page shows: its template, the users listed, the threshold in the form,
\* and whether it reports a successful update.
Page(kind) == [kind |-> kind, users |-> NoListing, threshold |-> Default, updated |-> FALSE]
Blank == Page("blank")
Templates == {"index", "enroll", "recognize", "audit", "settings", "stats"}
-----------------------------------------------------------------------------
\* Links.

\* A relative reference, resolved against the URL of a page.
Resolve(url, ref) ==
    IF Head(ref) = ".." THEN SubSeq(url, 1, Len(url) - 2) \o Tail(ref)
                        ELSE Front(url) \o ref

UI(rest) == Base \o <<"ui">> \o rest

\* The references in each page: the relative URL, and what it is meant to lead
\* to.  Every template includes the head, the header and the clock script.
Ref(ref, target) == [ref |-> ref, target |-> target]

StyleSheet == Ref(<<"pico.min.css">>, UI(<<"pico.min.css">>))

\* What a page fetches by itself: its style and, in scripts, from the API.
Fetches(kind) ==
    CASE kind = "login" -> {StyleSheet}
      [] kind = "audit" -> {StyleSheet} \cup
            {Ref(<<"..">> \o path, Base \o path) :
                path \in {<<"stats">>, <<"api", "audit">>, <<"api", "audit", "face">>,
                          <<"audit", "promote">>}}
      [] kind \in Templates \ {"audit"} -> {StyleSheet, Ref(<<"..", "stats">>, Base \o <<"stats">>)}
      [] OTHER -> {}

Anchors(kind) ==
    CASE kind = "index" ->
            {Ref(<<name>>, UI(<<name>>)) : name \in {"enroll", "recognize", "audit", "settings"}}
      [] kind \in Templates \ {"index"} -> {Ref(<<"">>, UI(<<"">>)), Ref(<<"settings">>, UI(<<"settings">>))}
      [] OTHER -> {}

Actions(kind) ==
    CASE kind = "login" -> {Ref(<<"auth">>, UI(<<"auth">>))}
      [] kind \in {"recognize", "settings"} -> {Ref(<<kind>>, UI(<<kind>>))}
      [] kind = "enroll" -> {Ref(<<"enroll">> \o rest, UI(<<"enroll">> \o rest)) :
                                  rest \in {<<>>, <<"delete">>, <<"delete-picture">>}}
      [] OTHER -> {}

Links(kind) == Anchors(kind) \cup Actions(kind) \cup Fetches(kind)

\* The forms a user can submit on page p: where to, and with which fields.  The
\* hidden picture_index is the position in the listing the page was made from;
\* meant, the picture shown there, is kept for the properties.
Forms(p) ==
    CASE p.kind = "login" ->
            {[to |-> <<"auth">>, form |-> [do |-> "login", password |-> w]] : w \in Passwords}
      [] p.kind = "recognize" -> {[to |-> <<"recognize">>, form |-> [do |-> "recognize"]]}
      [] p.kind = "settings" ->
            {[to |-> <<"settings">>, form |-> [do |-> "threshold", value |-> v]] : v \in Inputs}
      [] p.kind = "enroll" ->
            {[to |-> <<"enroll">>, form |-> [do |-> "enroll", name |-> n, face |-> face]] :
                n \in Names, face \in Uploads}
            \cup
            UNION {{[to |-> <<"enroll", "delete">>, form |-> [do |-> "delete", name |-> n]]}
                   \cup
                   {[to |-> <<"enroll", "delete-picture">>,
                     form |-> [do |-> "delete_picture", name |-> n, index |-> k - 1,
                               meant |-> p.users[n].pictures[k]]] :
                       k \in DOMAIN p.users[n].pictures} :
                   n \in {m \in Names : p.users[m] # NoUser}}
      [] OTHER -> {}
-----------------------------------------------------------------------------
\* The cookie.

\* Mutant of CookiePath: the cookie of the pages only.
CookiePath_PagesOnly == UI(<<>>)

\* The Path attribute of the cookie: the whole application.
CookiePath == Base

\* The Path with which logout clears the cookie.
LogoutPath == Base

\* Does the browser send the cookie with a request for url?
Sent(url) == \E path \in jar : IsPrefix(path, url)

\* authMiddleware: the login form and its target are open, everything else
\* needs the cookie (or X-Token, which a page cannot send).
Public(url) == url \in {UI(<<"login">>), UI(<<"auth">>), UI(<<"logout">>)}
-----------------------------------------------------------------------------
UIInit ==
    /\ Init
    /\ process = "up"
    /\ templates = Warm
    /\ gallery \in [Names -> InitUsers]
    /\ jar = {}
    /\ signedIn = FALSE
    /\ step = [t \in Tabs |-> "idle"]
    /\ request = [t \in Tabs |-> [url |-> UI(<<"login">>), form |-> NoForm, admitted |-> TRUE]]
    /\ page = [t \in Tabs |-> Blank]
    /\ outdated = [t \in Tabs |-> FALSE]

\* The browser.

\* A tab asks for url; the cookie goes along if its path covers it.
Send(t, url, form) ==
    /\ process = "up"
    /\ step[t] = "idle"
    /\ step' = [step EXCEPT ![t] = "sent"]
    /\ request' = [request EXCEPT ![t] =
                      [url |-> url, form |-> form, admitted |-> Public(url) \/ Sent(url)]]
    /\ page' = [page EXCEPT ![t] = Blank]
    /\ UNCHANGED <<settings, process, templates, gallery, browser>>

\* The address of the dashboard is typed in, or of the statistics, which no page
\* links to.
Visit(t) == \E name \in {"", "stats"} : Send(t, UI(<<name>>), NoForm) /\ UNCHANGED outdated

Follow(t) ==
    \E link \in Anchors(page[t].kind) :
        Send(t, Resolve(request[t].url, link.ref), NoForm) /\ UNCHANGED outdated

Submit(t) ==
    \E f \in Forms(page[t]) :
        /\ f.form.do \in Submits[t]
        /\ Send(t, Resolve(request[t].url, f.to), f.form)
        /\ UNCHANGED outdated

\* The page is reloaded, by hand or by its timer, and a form is posted again.
Reload(t) ==
    /\ page[t].kind # "blank"
    /\ Send(t, request[t].url, request[t].form)
    /\ outdated' = [outdated EXCEPT ![t] = @ \/ request[t].form # NoForm]

\* No page offers it, but POST /ui/logout is served.
PostLogout(t) == Send(t, UI(<<"logout">>), [do |-> "logout"]) /\ UNCHANGED outdated

\* authCookieDuration is over.
Expire ==
    /\ jar # {}
    /\ jar' = {}
    /\ signedIn' = FALSE
    /\ UNCHANGED <<settings, process, templates, gallery, step, request, page, outdated>>
-----------------------------------------------------------------------------
\* The server: the middleware and the login handlers.

Asked(t, url) == step[t] = "sent" /\ request[t].url = url
Posted(t, do) == request[t].form # NoForm /\ request[t].form.do = do

\* The response is p; to is "idle" when nothing is left to do for it.
Reply(t, p, to) ==
    /\ page' = [page EXCEPT ![t] = p]
    /\ step' = [step EXCEPT ![t] = to]

\* 302, and the browser follows.
Redirect(t, url) ==
    /\ request' = [request EXCEPT ![t] =
                      [url |-> url, form |-> NoForm,
                       admitted |-> Public(url) \/ \E path \in jar' : IsPrefix(path, url)]]
    /\ UNCHANGED <<step, page>>

Login(t) ==
    /\ Asked(t, UI(<<"login">>))
    /\ Reply(t, Page("login"), "idle")
    /\ UNCHANGED <<settings, process, templates, gallery, browser, request, outdated>>

Authenticate(t) ==
    /\ Asked(t, UI(<<"auth">>))
    /\ Posted(t, "login")
    /\ IF request[t].form.password = "right"
         THEN /\ jar' = jar \cup {CookiePath}
              /\ signedIn' = TRUE
              /\ Redirect(t, UI(<<"">>))
         ELSE /\ Reply(t, Page("login"), "idle")
              /\ UNCHANGED <<browser, request>>
    /\ UNCHANGED <<settings, process, templates, gallery, outdated>>

Logout(t) ==
    /\ Asked(t, UI(<<"logout">>))
    /\ jar' = jar \ {LogoutPath}
    /\ signedIn' = FALSE
    /\ Redirect(t, UI(<<"login">>))
    /\ UNCHANGED <<settings, process, templates, gallery, outdated>>

\* A page without the cookie.
Deny(t) ==
    /\ step[t] = "sent"
    /\ ~request[t].admitted
    /\ UNCHANGED browser
    /\ Redirect(t, UI(<<"login">>))
    /\ UNCHANGED <<settings, process, templates, gallery, outdated>>
-----------------------------------------------------------------------------
\* The server: the pages.

Served(t, urls) == step[t] = "sent" /\ request[t].admitted /\ request[t].url \in urls

EnrollURLs == {UI(<<"enroll">>), UI(<<"enroll", "delete">>), UI(<<"enroll", "delete-picture">>)}
PlainURLs == {UI(<<name>>) : name \in {"", "recognize", "audit", "stats"}}

\* renderIndex, handleUIRecognize (POST: after the API's handler, in process),
\* handleUIAudit, handleUIStats.
ShowPlain(t) ==
    /\ Served(t, PlainURLs)
    /\ Reply(t, Page(IF Last(request[t].url) = "" THEN "index" ELSE Last(request[t].url)), "render")
    /\ UNCHANGED <<settings, process, templates, gallery, browser, request, outdated>>

\* ComputeStats fails: there is no statistics page; the dashboard does without.
StatsFail(t) ==
    /\ Served(t, {UI(<<"stats">>)})
    /\ Reply(t, Page("error"), "idle")
    /\ UNCHANGED <<settings, process, templates, gallery, browser, request, outdated>>

\* A path that handleUI does not know.
NotFound(t) ==
    /\ step[t] = "sent"
    /\ request[t].admitted
    /\ request[t].url \notin EnrollURLs \cup PlainURLs \cup {UI(<<"settings">>)}
    /\ ~Public(request[t].url)
    /\ Reply(t, Page("error"), "idle")
    /\ UNCHANGED <<settings, process, templates, gallery, browser, request, outdated>>

\* handleUIEnroll, GET: straight to the listing.
ShowEnroll(t) ==
    /\ Served(t, EnrollURLs)
    /\ request[t].form = NoForm
    /\ step' = [step EXCEPT ![t] = "list"]
    /\ UNCHANGED <<settings, process, templates, gallery, browser, request, page, outdated>>

\* The gallery becomes new; every other listing made before is out of date.
Change(t, new) ==
    /\ gallery' = new
    /\ outdated' = [u \in Tabs |-> outdated[u] \/ u # t]

\* The upload goes through the API's handler, in process: EnrollImage may find
\* no face in it or no room, and the page lists the users either way.
EnrollPicture(t) ==
    LET form == request[t].form
    IN  /\ Served(t, EnrollURLs)
        /\ Posted(t, "enroll")
        /\ \/ /\ HasRoom(gallery[form.name])
              /\ Change(t, [gallery EXCEPT ![form.name] = WithFace(@, form.face)])
           \/ UNCHANGED <<gallery, outdated>>
        /\ step' = [step EXCEPT ![t] = "list"]
        /\ UNCHANGED <<settings, process, templates, browser, request, page>>

\* No such user, or the transaction fails: the page says so and lists nobody.
DeleteUser(t) ==
    LET n == request[t].form.name
    IN  /\ Served(t, EnrollURLs)
        /\ Posted(t, "delete")
        /\ \/ /\ gallery[n] # NoUser
              /\ Change(t, [gallery EXCEPT ![n] = NoUser])
              /\ step' = [step EXCEPT ![t] = "list"]
              /\ UNCHANGED page
           \/ /\ Reply(t, Page("enroll"), "render")
              /\ UNCHANGED <<gallery, outdated>>
        /\ UNCHANGED <<settings, process, templates, browser, request>>

\* Mutant of DeletePicture: the posted index is taken to count from one.
DeletePicture_OneBased(t) ==
    LET form == request[t].form
    IN  /\ Served(t, EnrollURLs)
        /\ Posted(t, "delete_picture")
        /\ \/ /\ gallery[form.name] # NoUser
              /\ form.index \in DOMAIN gallery[form.name].embeddings
              /\ Change(t, [gallery EXCEPT ![form.name] = WithoutPicture(@, form.index - 1)])
              /\ step' = [step EXCEPT ![t] = "list"]
              /\ UNCHANGED page
           \/ /\ Reply(t, Page("enroll"), "render")
              /\ UNCHANGED <<gallery, outdated>>
        /\ UNCHANGED <<settings, process, templates, browser, request>>

\* The picture is the one that has the posted index now.  No such user or index,
\* or a failing Save: as above.
DeletePicture(t) ==
    LET form == request[t].form
    IN  /\ Served(t, EnrollURLs)
        /\ Posted(t, "delete_picture")
        /\ \/ /\ gallery[form.name] # NoUser
              /\ form.index < Len(gallery[form.name].embeddings)
              /\ Change(t, [gallery EXCEPT ![form.name] = WithoutPicture(@, form.index)])
              /\ step' = [step EXCEPT ![t] = "list"]
              /\ UNCHANGED page
           \/ /\ Reply(t, Page("enroll"), "render")
              /\ UNCHANGED <<gallery, outdated>>
        /\ UNCHANGED <<settings, process, templates, browser, request>>

\* The listing of the page, after the deletion or upload; when it fails, the page
\* lists nobody.
ListUsers(t) ==
    /\ step[t] = "list"
    /\ \E users \in {gallery, NoListing} : Reply(t, [Page("enroll") EXCEPT !.users = users], "render")
    /\ outdated' = [outdated EXCEPT ![t] = FALSE]
    /\ UNCHANGED <<settings, process, templates, gallery, browser, request>>

SettingsPage(threshold, updated) ==
    [Page("settings") EXCEPT !.threshold = threshold, !.updated = updated]

\* handleUISettings, GET, or POST of a value that SetThreshold rejects.
ShowSettings(t) ==
    /\ Served(t, {UI(<<"settings">>)})
    /\ Posted(t, "threshold") => Rejected(request[t].form.value)
    /\ Reply(t, SettingsPage(live, FALSE), "render")
    /\ UNCHANGED <<settings, process, templates, gallery, browser, request, outdated>>

\* POST: SetThreshold validates ...
PostThreshold(t) ==
    /\ Served(t, {UI(<<"settings">>)})
    /\ Posted(t, "threshold")
    /\ Validate(t)
    /\ value'[t] = request[t].form.value
    /\ step' = [step EXCEPT ![t] = "set"]
    /\ UNCHANGED <<process, templates, gallery, browser, request, page, outdated>>

\* ... saves ...
SaveThreshold(t) ==
    /\ step[t] = "set"
    /\ Save(t)
    /\ UNCHANGED <<process, templates, gallery, browser, step, request, page, outdated>>

\* ... or fails: the form shows the current threshold,
ThresholdNotSaved(t) ==
    /\ step[t] = "set"
    /\ SaveFails(t)
    /\ Reply(t, SettingsPage(live, FALSE), "render")
    /\ UNCHANGED <<process, templates, gallery, browser, request, outdated>>

\* ... and makes it live: the form shows the new one.
ThresholdUpdated(t) ==
    /\ step[t] = "set"
    /\ Publish(t)
    /\ Reply(t, SettingsPage(value[t], TRUE), "render")
    /\ UNCHANGED <<process, templates, gallery, browser, request, outdated>>
-----------------------------------------------------------------------------
\* renderTemplate: templateCache is a map without a lock.

Writing(t) == \E u \in Tabs \ {t} : step[u] = "write"

\* Mutant of Lookup: the template is parsed and stored for every page.
Lookup_Always(t) ==
    /\ step[t] = "render"
    /\ step' = [step EXCEPT ![t] = "parse"]
    /\ UNCHANGED <<settings, process, templates, gallery, browser, request, page, outdated>>

Lookup(t) ==
    /\ step[t] = "render"
    /\ step' = [step EXCEPT ![t] = IF page[t].kind \in templates THEN "idle" ELSE "parse"]
    /\ UNCHANGED <<settings, process, templates, gallery, browser, request, page, outdated>>

\* The template has been parsed; the assignment to the map begins ...
BeginWrite(t) ==
    /\ step[t] = "parse"
    /\ step' = [step EXCEPT ![t] = "write"]
    /\ UNCHANGED <<settings, process, templates, gallery, browser, request, page, outdated>>

\* ... and ends, and the page is sent.
EndWrite(t) ==
    /\ step[t] = "write"
    /\ templates' = templates \cup {page[t].kind}
    /\ step' = [step EXCEPT ![t] = "idle"]
    /\ UNCHANGED <<settings, process, gallery, browser, request, page, outdated>>

\* The process ends; requests are cut off and the tabs show an error.
End(how) ==
    /\ process = "up"
    /\ process' = how
    /\ templates' = {}
    /\ step' = [t \in Tabs |-> "idle"]
    /\ page' = [t \in Tabs |-> IF step[t] = "idle" THEN page[t] ELSE Blank]
    /\ UNCHANGED <<settings, gallery, browser, request, outdated>>

\* The Go runtime may notice that a map is used while it is written, and then
\* ends the process: "concurrent map read and map write".
Abort(t) ==
    /\ step[t] \in {"render", "parse"}
    /\ Writing(t)
    /\ End("aborted")

Stop == End("stopped")

\* The process starts again on the same database.
Start ==
    /\ process # "up"
    /\ process' = "up"
    /\ Restart
    /\ templates' = Warm
    /\ UNCHANGED <<gallery, browser, step, request, page, outdated>>
-----------------------------------------------------------------------------
UINext ==
    \/ \E t \in Tabs :
          \/ Visit(t) \/ Follow(t) \/ Submit(t) \/ Reload(t) \/ PostLogout(t)
          \/ Login(t) \/ Authenticate(t) \/ Logout(t) \/ Deny(t)
          \/ ShowPlain(t) \/ StatsFail(t) \/ NotFound(t)
          \/ ShowEnroll(t) \/ EnrollPicture(t) \/ DeleteUser(t) \/ DeletePicture(t) \/ ListUsers(t)
          \/ ShowSettings(t) \/ PostThreshold(t) \/ SaveThreshold(t)
          \/ ThresholdNotSaved(t) \/ ThresholdUpdated(t)
          \/ Lookup(t) \/ BeginWrite(t) \/ EndWrite(t) \/ Abort(t)
    \/ Expire \/ Stop \/ Start

UISpec == UIInit /\ [][UINext]_uiVars
-----------------------------------------------------------------------------
Steps == {"idle", "sent", "list", "set", "render", "parse", "write"}

UITypeOK ==
    /\ process \in {"up", "aborted", "stopped"}
    /\ templates \subseteq Templates
    /\ \A n \in Names : gallery[n] # NoUser => Bounded(gallery[n]) /\ Aligned(gallery[n])
    /\ signedIn \in BOOLEAN
    /\ step \in [Tabs -> Steps]
    /\ process # "up" => step = [t \in Tabs |-> "idle"]
    /\ \A t \in Tabs :
          /\ request[t].admitted \in BOOLEAN
          /\ page[t].kind \in Templates \cup {"blank", "login", "error"}
          /\ step[t] = "set" <=> process = "up" /\ t \in Setters /\ pc[t] # "idle"
          /\ step[t] \in {"sent", "list", "set"} => page[t] = Blank

\* The middleware and the cookie agree on what a session covers.  While signed in,
\* every link, form, stylesheet and fetch of the page that a tab shows is admitted,
\* also the API's URLs outside /ui/ and under a prefix that the ingress strips;
\* after a logout in any tab, the cookie goes with none of them, from whichever tab.
SessionCoversPages ==
    \A t \in Tabs : \A link \in Links(page[t].kind) :
       LET url == Resolve(request[t].url, link.ref)
       IN  IF signedIn THEN Public(url) \/ Sent(url) ELSE ~Sent(url)

\* The posted index deletes the picture the user pointed at, and that one only,
\* unless another tab has changed the gallery since the listing was read, or the
\* browser posts the form again: the two cases in which the handler deletes
\* whatever has moved to that index.
DeletesPictureMeant ==
    [][\A t \in Tabs :
          LET form == request[t].form
          IN  (gallery' # gallery /\ step'[t] # step[t] /\ Posted(t, "delete_picture")) =>
                 \/ outdated[t]
                 \/ \E k \in DOMAIN gallery[form.name].pictures :
                       /\ gallery[form.name].pictures[k] = form.meant
                       /\ gallery' = [gallery EXCEPT ![form.name] = WithoutPicture(@, k - 1)]
      ]_<<step, gallery>>

CacheIsWarm ==
    /\ process = "up"
    /\ templates = Templates
    /\ \A t \in Tabs : step[t] \notin {"parse", "write"}

\* Once every template is cached and no request still holds one it has parsed
\* itself, it stays so until the process is stopped: no page is parsed again, and
\* concurrent page requests cannot end the process any more.
WarmCacheNeverAborts ==
    [][CacheIsWarm => CacheIsWarm' \/ process' = "stopped"]_<<process, templates, step>>

\* A settings page shows a threshold that has been live, so that recognition has
\* compared with it; one that reports "Threshold updated" shows one that has, and
\* that was on disk as well: a value whose Save failed is never shown as set, nor
\* one that was saved while the assignment of the live value is still to come.
ShownThresholdWasInForce ==
    \A t \in Tabs : page[t].kind = "settings" =>
       /\ page[t].threshold \in inForce
       /\ page[t].updated => page[t].threshold \in written

\* Every link, form and fetch of a page that is shown leads to what it names.
LinksLeadToTheirTargets ==
    \A t \in Tabs : \A link \in Links(page[t].kind) :
       Resolve(request[t].url, link.ref) = link.target
=============================================================================
