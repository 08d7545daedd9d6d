-------------------------------- MODULE Proxy --------------------------------
(***************************************************************************)
(* The request path of Templier's proxy: the error tracker, the choice     *)
(* between the app and the error page, the repeated attempts to reach an   *)
(* app that restarts, and the script added to the app's documents.  The    *)
(* steps of a request are separate actions, so the tracker and the app     *)
(* change in between.  Module Tabs adds the browser and specifies both.    *)
(***************************************************************************)
EXTENDS Naturals

CONSTANTS
    Clients,            \* who sends requests, one at a time each
    NumWatchers,        \* len(Config.CustomWatcherNames)
    Messages,           \* the error messages an entry of the tracker may have
    MaxRetries,         \* ReverseProxyRetries, 20 in the code
    Shapes,             \* the app's responses: see Shape
    SpareCapacity       \* cap(jsInjection) leaves room for a closing tag

NoMsg == 0              \* the empty string
IndexTempl == 0
IndexGolangciLint == 1
IndexGo == 2
IndexExit == 3
LastIndex == 3 + NumWatchers
Indexes == 0..LastIndex
App == LastIndex + 1    \* names the app's content where an index is expected

Tags == {"head", "HEAD", "body", "BODY", "none"}
Shape == [bodiless : BOOLEAN,                       \* 1xx, 204 or 304
          skip : BOOLEAN,                           \* asked for by HTMX or Datastar
          events : BOOLEAN,                         \* text/event-stream
          enc : {"", "gzip", "br", "other"}, body : {"html", "text", "empty"},
          tag : Tags]

ASSUME ProxyAssumption ==
    /\ NumWatchers \in Nat /\ MaxRetries \in Nat \ {0}
    /\ Messages \subseteq Nat \ {NoMsg}
    /\ Shapes \subseteq Shape /\ SpareCapacity \in BOOLEAN

VARIABLES
    errMsgBuffer,       \* statetrack.Tracker
    appUp, appVer,      \* the app listens, and the version of what it serves
    spare,              \* the tag in the spare capacity of jsInjection
    rpc,                \* progress of each request
    at,                 \* the index read next, or the attempts made
    shape,              \* the app's response
    answer,             \* what is sent: does it hold the script, what does it show,
                        \* is the closing tag the one that was replaced
    stood, lasted       \* history: entries that stood at some time, and all the time,
                        \* since the request was found to need the error page

appVars == <<appUp, appVer>>
requestVars == <<rpc, at, shape, answer, stood, lasted>>
proxyVars == <<errMsgBuffer, appVars, spare, requestVars>>

Rpcs == {"none", "decide", "report", "forward", "sent", "modify", "copy", "respond"}
Entries == {<<i, m>> : i \in Indexes, m \in Messages}
Answers(versions) == [script : BOOLEAN, intact : BOOLEAN,
                      shows : (SUBSET Entries) \cup {{<<App, v>>} : v \in versions}]

Nothing == [script |-> FALSE, intact |-> TRUE, shows |-> {}]
NoShape == [bodiless |-> FALSE, skip |-> FALSE, events |-> FALSE, enc |-> "",
            body |-> "empty", tag |-> "none"]

ProxyTypeOK(versions) ==
    /\ errMsgBuffer \in [Indexes -> Messages \cup {NoMsg}]
    /\ appUp \in BOOLEAN /\ appVer \in versions
    /\ spare \in Tags
    /\ rpc \in [Clients -> Rpcs]
    /\ at \in [Clients -> 0..LastIndex \cup 0..MaxRetries]
    /\ shape \in [Clients -> Shapes \cup {NoShape}]
    /\ answer \in [Clients -> Answers(versions)]
    /\ stood \in [Clients -> SUBSET Entries] /\ lasted \in [Clients -> SUBSET Entries]
    /\ \A c \in Clients : lasted[c] \subseteq stood[c]

ProxyInit ==
    /\ errMsgBuffer = [i \in Indexes |-> NoMsg]
    /\ appUp = FALSE /\ appVer = 0
    /\ spare = "none"
    /\ rpc = [c \in Clients |-> "none"] /\ at = [c \in Clients |-> 0]
    /\ shape = [c \in Clients |-> NoShape] /\ answer = [c \in Clients |-> Nothing]
    /\ stood = [c \in Clients |-> {}] /\ lasted = [c \in Clients |-> {}]

-----------------------------------------------------------------------------
(* statetrack.Tracker.  Set stores a message other than the one that is there and *)
(* announces it, for which module Tabs stands.                                    *)

Standing(buffer) == {<<i, buffer[i]>> : i \in {j \in Indexes : buffer[j] # NoMsg}}

\* ErrIndex() # -1
AnyError == \E i \in Indexes : errMsgBuffer[i] # NoMsg

Set(i, m) ==
    /\ errMsgBuffer[i] # m
    /\ errMsgBuffer' = [errMsgBuffer EXCEPT ![i] = m]
    /\ stood' = [c \in Clients |-> IF rpc[c] = "report"
                                     THEN stood[c] \cup Standing(errMsgBuffer') ELSE stood[c]]
    /\ lasted' = [c \in Clients |-> lasted[c] \cap Standing(errMsgBuffer')]
    /\ UNCHANGED <<appVars, spare, rpc, at, shape, answer>>

-----------------------------------------------------------------------------
(* The generated templates: jsInjection, and pageError, which renders the reports *)
(* and the script.                                                                *)

WithScript(content) == [content EXCEPT !.script = TRUE]
PageError(reports) == WithScript([Nothing EXCEPT !.shows = reports])

-----------------------------------------------------------------------------
(* Server.ServeHTTP and the error page *)

Goto(c, from, to) == rpc[c] = from /\ rpc' = [rpc EXCEPT ![c] = to]

\* The request arrives; a client that gives up on an earlier one leaves it behind,
\* which changes nothing.
Send(c) ==
    /\ rpc' = [rpc EXCEPT ![c] = "decide"]
    /\ at' = [at EXCEPT ![c] = 0]
    /\ shape' = [shape EXCEPT ![c] = NoShape]
    /\ answer' = [answer EXCEPT ![c] = Nothing]
    /\ stood' = [stood EXCEPT ![c] = {}] /\ lasted' = [lasted EXCEPT ![c] = {}]

\* Any error at all selects the error page.
Decide(c) ==
    /\ Goto(c, "decide", IF AnyError THEN "report" ELSE "forward")
    /\ LET now == IF AnyError THEN Standing(errMsgBuffer) ELSE {} IN
         stood' = [stood EXCEPT ![c] = now] /\ lasted' = [lasted EXCEPT ![c] = now]
    /\ UNCHANGED <<errMsgBuffer, appVars, spare, at, shape, answer>>

\* Mutant: a crash of the app is reported beside the other errors.
OnlyTemplAlone == {IndexTempl}

\* Errors of templ and of the app's process are reported without the others.
Alone == {IndexTempl, IndexExit}

\* newReports reads one entry after the other, each under the mutex; pageError
\* renders what was found together with the script.
ReadEntry(c) ==
    LET i == at[c]
        found == i \in Indexes /\ errMsgBuffer[i] # NoMsg
        last == i = LastIndex \/ (found /\ i \in Alone)
        reports == (IF i \in Alone /\ found THEN {} ELSE answer[c].shows)
                     \cup (IF found THEN {<<i, errMsgBuffer[i]>>} ELSE {})
    IN  /\ Goto(c, "report", IF last THEN "respond" ELSE "report")
        /\ at' = [at EXCEPT ![c] = IF last THEN 0 ELSE i + 1]
        /\ answer' = [answer EXCEPT ![c] = PageError(reports)]
        /\ UNCHANGED <<errMsgBuffer, appVars, spare, shape, stood, lasted>>

-----------------------------------------------------------------------------
(* roundTripper.RoundTrip: whatever went wrong, the request is sent again after a *)
(* pause of 100 ms times the integral part of 1.5^k, neither the client's context *)
(* nor ProxyTimeout is looked at.                                                  *)

\* Mutant: a failed attempt is not counted.
FailUncounted(c) ==
    /\ rpc' = [rpc EXCEPT ![c] = "forward"]
    /\ UNCHANGED <<at, answer>>

\* The attempt failed; after the last one ErrorHandler answers with 502.
Fail(c) ==
    /\ rpc' = [rpc EXCEPT ![c] = IF at[c] + 1 = MaxRetries THEN "respond" ELSE "forward"]
    /\ at' = [at EXCEPT ![c] = @ + 1]
    /\ UNCHANGED answer

Attempt(c) ==
    /\ rpc[c] = "forward"
    /\ IF appUp THEN Goto(c, "forward", "sent") /\ UNCHANGED <<at, answer>> ELSE Fail(c)
    /\ UNCHANGED <<errMsgBuffer, appVars, spare, shape, stood, lasted>>

\* The app answers with what it serves now, or the connection broke.  An app that
\* runs need not answer: the transport has no timeout, and ProxyTimeout is not
\* applied to it.
Receive(c) ==
    /\ rpc[c] = "sent"
    /\ \/ /\ appUp
          /\ \E s \in Shapes : shape' = [shape EXCEPT ![c] = s]
          /\ Goto(c, "sent", "modify")
          /\ answer' = [answer EXCEPT ![c].shows = {<<App, appVer>>}]
          /\ UNCHANGED at
       \/ ~appUp /\ Fail(c) /\ UNCHANGED shape
    /\ UNCHANGED <<errMsgBuffer, appVars, spare, stood, lasted>>

-----------------------------------------------------------------------------
(* Server.modifyResponse and WriteWithInjection *)

\* Mutant: responses without a body are unpacked like others.
PassesHeaders(s) == s.skip \/ s.events

\* Passed on as it is.
Passes(s) == s.skip \/ s.bodiless \/ s.events

\* gzip.NewReader fails for a body that is empty.
Unreadable(s) == s.enc = "gzip" /\ s.body = "empty"

\* http.DetectContentType sees HTML; an encoding nobody unpacked hides it.
Injectable(s) == s.body = "html" /\ s.enc # "other"

\* Up to the call of WriteWithInjection.  A closing tag is replaced by the script
\* and the tag, appended to jsInjection: with spare capacity append writes the tag
\* into the array that all requests share.
Modify(c) ==
    LET s == shape[c]
        inject == ~Passes(s) /\ ~Unreadable(s) /\ Injectable(s)
    IN
    /\ Goto(c, "modify", IF inject THEN "copy" ELSE "respond")
    /\ spare' = IF inject /\ s.tag # "none" /\ SpareCapacity THEN s.tag ELSE spare
    /\ answer' = [answer EXCEPT ![c].shows = IF ~Passes(s) /\ Unreadable(s) THEN {} ELSE @]
    /\ UNCHANGED <<errMsgBuffer, appVars, at, shape, stood, lasted>>

\* bytes.Replace copies the appended slice, or the script is put in front.
Inject(c) ==
    /\ Goto(c, "copy", "respond")
    /\ answer' = [answer EXCEPT ![c] = [WithScript(@) EXCEPT !.intact =
                    shape[c].tag # "none" /\ SpareCapacity => spare = shape[c].tag]]
    /\ UNCHANGED <<errMsgBuffer, appVars, spare, at, shape, stood, lasted>>

RequestStep(c) ==
    \/ Decide(c) \/ ReadEntry(c) \/ Attempt(c) \/ Receive(c) \/ Modify(c) \/ Inject(c)

-----------------------------------------------------------------------------
(* Properties *)

PageTruthful(c) ==
    rpc[c] = "respond" /\ stood[c] # {} =>
        LET reports == answer[c].shows
            of(i, entries) == {e \in entries : e[1] = i}
            templ == of(IndexTempl, reports)
            exit == of(IndexExit, reports)
        IN  /\ reports \subseteq stood[c]
            /\ of(IndexTempl, lasted[c]) \subseteq templ
            /\ templ # {} => reports = templ
            /\ templ = {} => of(IndexExit, lasted[c]) \subseteq exit
            /\ exit # {} => reports = exit
            /\ templ = {} /\ exit = {} => lasted[c] \subseteq reports

\* Entries are read one at a time while they change: a served error page still
\* tells no error that did not stand while the request was handled, and misses
\* none that stood all the time, unless an error that is reported alone hides it.
ErrorPageTruthful == \A c \in Clients : PageTruthful(c)

\* The comment in modifyResponse: a response that the app gave is not turned into
\* an error; the client sees 502 only after the last attempt to reach the app.
No502FromResponse ==
    \A c \in Clients : rpc[c] = "respond" /\ stood[c] = {} /\ answer[c].shows = {}
        => at[c] = MaxRetries

\* An answer with headers only, to HEAD for instance, that names an encoding.
HeadersOnly(s) ==
    s.enc = "gzip" /\ s.body = "empty" /\ ~s.skip /\ ~s.bodiless /\ ~s.events

\* A response becomes a 502 exactly if it consists of headers only and names an
\* encoding that cannot be unpacked; every other 502 comes from the last of the
\* attempts to reach the app, and no later response is lost to one.
BadGatewayExplained ==
    \A c \in Clients : rpc[c] = "respond" /\ stood[c] = {} =>
        (answer[c].shows = {} <=> at[c] = MaxRetries \/ HeadersOnly(shape[c]))

\* The comment of WriteWithInjection: a document gets the script and keeps the
\* closing tag that it had.
InjectionIntact == \A c \in Clients : answer[c].intact
=============================================================================
