-------------------------------- MODULE Tabs --------------------------------
(***************************************************************************)
(* What a browser tab shows while errors come and go and the app is        *)
(* replaced: the broadcaster's listeners, the web socket connection that   *)
(* the script of a page opens, the handler that serves it, and the app     *)
(* launcher's announcement of a new app.  Notifications go to unbuffered   *)
(* channels without blocking: a handler gets one only while it waits.      *)
(*                                                                         *)
(* Each client of the proxy is a tab.  A request is a load of the page.    *)
(***************************************************************************)
EXTENDS Proxy

CONSTANTS
    Conns,              \* web socket connections, used again once they are closed
    NoConn,
    Changing,           \* the indexes of the tracker that errors come up at
    MaxChanges,         \* bound on the changes of the tracker
    MaxVersions,        \* bound on the starts of the app
    MaxStops            \* bound on the restarts of Templier

ASSUME TabsAssumption ==
    /\ NoConn \notin Conns /\ Changing \subseteq Indexes
    /\ MaxChanges \in Nat /\ MaxVersions \in Nat /\ MaxStops \in Nat

VARIABLES
    serving, stops,     \* Templier runs
    changes, announce,  \* changes made; the launcher is to announce the app it started
    h,                  \* progress of the handler of each connection
    stateListeners, reloadListeners,    \* of the tracker's and of the reload broadcaster
    inbox,              \* connections with a reload message in flight
    broken,             \* connections that the browser closed
    page,               \* what a tab shows
    ws, conn,           \* the script's socket and its connection
    overlay,            \* the script's "reconnecting" overlay
    fresh               \* history: connections whose tab showed the current state when
                        \* their handler began to wait

envVars == <<serving, stops, changes, announce>>
connVars == <<h, stateListeners, reloadListeners, inbox, fresh>>
tabVars == <<broken, page, ws, conn, overlay>>
vars == <<proxyVars, envVars, connVars, tabVars>>

HandlerPcs == {"none", "upgraded", "added", "first", "select", "write", "loop", "leave", "left"}
Listening == {"added", "first", "select", "write", "loop", "leave"}

TabTypeOK ==
    /\ serving \in BOOLEAN /\ stops \in 0..MaxStops
    /\ changes \in 0..MaxChanges /\ announce \in BOOLEAN
    /\ h \in [Conns -> HandlerPcs]
    /\ stateListeners = {c \in Conns : h[c] \in Listening}
    /\ reloadListeners = {c \in Conns : h[c] \in (Listening \ {"added"}) \cup {"left"}}
    /\ inbox \subseteq Conns /\ broken \subseteq Conns /\ fresh \subseteq Conns
    /\ ws \in [Clients -> {"off", "connect", "open"}]
    /\ conn \in [Clients -> Conns \cup {NoConn}]
    /\ overlay \in [Clients -> BOOLEAN]
    /\ \A t \in Clients : conn[t] # NoConn <=> ws[t] = "open"
    /\ page \in [Clients -> Answers(0..MaxVersions)]

TypeOK == ProxyTypeOK(0..MaxVersions) /\ TabTypeOK

Init ==
    /\ ProxyInit
    /\ serving = TRUE /\ stops = 0 /\ changes = 0 /\ announce = FALSE
    /\ h = [c \in Conns |-> "none"]
    /\ stateListeners = {} /\ reloadListeners = {}
    /\ inbox = {} /\ broken = {} /\ fresh = {}
    /\ page = [t \in Clients |-> Nothing]
    /\ ws = [t \in Clients |-> "off"] /\ conn = [t \in Clients |-> NoConn]
    /\ overlay = [t \in Clients |-> FALSE]

\* What a page loaded now would show.
Current ==
    LET errors == Standing(errMsgBuffer)
        alone(i) == {e \in errors : e[1] = i}
    IN  IF errors = {} THEN {<<App, appVer>>}
        ELSE IF alone(IndexTempl) # {} THEN alone(IndexTempl)
        ELSE IF alone(IndexExit) # {} THEN alone(IndexExit) ELSE errors

-----------------------------------------------------------------------------
(* SignalBroadcaster.BroadcastNonblock *)

\* Listeners that do not wait are left out.
BroadcastNonblock(listeners) ==
    h' = [c \in Conns |-> IF c \in listeners /\ h[c] = "select" THEN "write" ELSE h[c]]

SetEntry(i, m) ==
    /\ serving /\ changes < MaxChanges
    /\ changes' = changes + 1
    /\ Set(i, m)
    /\ BroadcastNonblock(stateListeners)
    /\ UNCHANGED <<serving, stops, announce, stateListeners, reloadListeners, inbox, fresh,
                   tabVars>>

-----------------------------------------------------------------------------
(* The app launcher and Templier itself, as the proxy sees them *)

StopApp ==
    /\ appUp
    /\ appUp' = FALSE
    /\ UNCHANGED <<errMsgBuffer, appVer, spare, requestVars, envVars, connVars, tabVars>>

\* The server runs and has passed its health check.
StartApp ==
    /\ serving /\ ~appUp /\ appVer < MaxVersions
    /\ appUp' = TRUE /\ appVer' = appVer + 1
    /\ announce' = TRUE
    /\ UNCHANGED <<errMsgBuffer, spare, requestVars, serving, stops, changes, connVars,
                   tabVars>>

\* reload.BroadcastNonblock() after a restart.
Announce ==
    /\ announce
    /\ announce' = FALSE
    /\ BroadcastNonblock(reloadListeners)
    /\ UNCHANGED <<proxyVars, serving, stops, changes, stateListeners, reloadListeners,
                   inbox, fresh, tabVars>>

\* Templier ends, with its app; loads under way end in the browser's own error, and
\* so do the loads of the tabs that got a reload message before the connection ended.
Stop ==
    /\ serving /\ stops < MaxStops
    /\ serving' = FALSE /\ stops' = stops + 1 /\ announce' = FALSE
    /\ errMsgBuffer' = [i \in Indexes |-> NoMsg]
    /\ appUp' = FALSE
    /\ h' = [c \in Conns |-> "none"]
    /\ stateListeners' = {} /\ reloadListeners' = {}
    /\ inbox' = {} /\ broken' = {} /\ fresh' = {}
    /\ \E told \in SUBSET {t \in Clients : conn[t] \in inbox} :
         LET lost == {t \in Clients : rpc[t] # "none"} \cup told IN
         /\ page' = [t \in Clients |-> IF t \in lost THEN Nothing ELSE page[t]]
         /\ ws' = [t \in Clients |-> IF t \in lost THEN "off" ELSE ws[t]]
         /\ conn' = [t \in Clients |-> IF t \in lost THEN NoConn ELSE conn[t]]
         /\ overlay' = [t \in Clients |-> t \notin lost /\ overlay[t]]
    /\ rpc' = [t \in Clients |-> "none"]
    /\ UNCHANGED <<appVer, spare, at, shape, answer, stood, lasted, changes>>

Start ==
    /\ ~serving
    /\ serving' = TRUE
    /\ UNCHANGED <<proxyVars, stops, changes, announce, connVars, tabVars>>

-----------------------------------------------------------------------------
(* Server.handleProxyEvents, per connection *)

Step(c, from, to) == h[c] = from /\ h' = [h EXCEPT ![c] = to]

\* Mutant: the tracker is not listened to.
AddReloadListenerOnly(c) ==
    /\ \/ Step(c, "upgraded", "added") /\ UNCHANGED <<stateListeners, reloadListeners>>
       \/ /\ Step(c, "added", "first")
          /\ reloadListeners' = reloadListeners \cup {c} /\ UNCHANGED stateListeners
    /\ UNCHANGED <<proxyVars, envVars, inbox, fresh, tabVars>>

AddListeners(c) ==
    /\ \/ /\ Step(c, "upgraded", "added")
          /\ stateListeners' = stateListeners \cup {c} /\ UNCHANGED reloadListeners
       \/ /\ Step(c, "added", "first")
          /\ reloadListeners' = reloadListeners \cup {c} /\ UNCHANGED stateListeners
    /\ UNCHANGED <<proxyVars, envVars, inbox, fresh, tabVars>>

\* The handler begins to wait in its select statement.
Wait(c) ==
    /\ Step(c, "first", "select") \/ Step(c, "loop", "select")
    /\ fresh' = IF h[c] = "first" /\ \E t \in Clients : conn[t] = c /\ page[t].shows = Current
                THEN fresh \cup {c} ELSE fresh
    /\ UNCHANGED <<proxyVars, envVars, stateListeners, reloadListeners, inbox, tabVars>>

\* The goroutine that reads finds the connection closed and cancels the context.
Cancelled(c) ==
    /\ c \in broken
    /\ Step(c, "select", "leave")
    /\ UNCHANGED <<proxyVars, envVars, stateListeners, reloadListeners, inbox, fresh, tabVars>>

\* writeWSMsg; it fails on a broken connection or when the deadline passes.
WriteWSMsg(c) ==
    /\ \/ Step(c, "write", "loop") /\ inbox' = inbox \cup ({c} \ broken)
       \/ Step(c, "write", "leave") /\ UNCHANGED inbox
    /\ UNCHANGED <<proxyVars, envVars, stateListeners, reloadListeners, fresh, tabVars>>

\* Mutant: the reload broadcaster keeps the listener.
LeaveOne(c) ==
    /\ \/ /\ Step(c, "leave", "left")
          /\ stateListeners' = stateListeners \ {c}
          /\ UNCHANGED <<reloadListeners, broken, fresh>>
       \/ /\ Step(c, "left", "none")
          /\ broken' = broken \ {c} /\ fresh' = fresh \ {c}
          /\ UNCHANGED <<stateListeners, reloadListeners>>
    /\ UNCHANGED <<proxyVars, envVars, inbox, page, ws, conn, overlay>>

\* The deferred functions; the last one closes the connection.
Leave(c) ==
    /\ \/ /\ Step(c, "leave", "left")
          /\ stateListeners' = stateListeners \ {c}
          /\ UNCHANGED <<reloadListeners, broken, fresh>>
       \/ /\ Step(c, "left", "none")
          /\ reloadListeners' = reloadListeners \ {c}
          /\ broken' = broken \ {c} /\ fresh' = fresh \ {c}
          /\ UNCHANGED stateListeners
    /\ UNCHANGED <<proxyVars, envVars, inbox, page, ws, conn, overlay>>

HandlerStep(c) == AddListeners(c) \/ Wait(c) \/ Cancelled(c) \/ WriteWSMsg(c) \/ Leave(c)

-----------------------------------------------------------------------------
(* The browser and the script *)

\* The user opens the page or loads it again.
Load(t) ==
    /\ serving /\ rpc[t] = "none"
    /\ Send(t)
    /\ UNCHANGED <<errMsgBuffer, appVars, spare, envVars, connVars, tabVars>>

ServeHTTP(t) ==
    /\ RequestStep(t)
    /\ UNCHANGED <<envVars, connVars, tabVars>>

\* The old page goes and closes its connection, the new one's script connects.
\* A response without a body says that the browser's copy, which has the script,
\* is current.
Show(t) ==
    LET script == answer[t].script \/ shape[t].bodiless IN
    /\ Goto(t, "respond", "none")
    /\ page' = [page EXCEPT ![t] = [answer[t] EXCEPT !.script = script]]
    /\ ws' = [ws EXCEPT ![t] = IF script THEN "connect" ELSE "off"]
    /\ broken' = broken \cup {c \in Conns : c = conn[t] /\ h[c] # "none"}
    /\ inbox' = inbox \ {conn[t]}
    /\ conn' = [conn EXCEPT ![t] = NoConn]
    /\ overlay' = [overlay EXCEPT ![t] = FALSE]
    /\ answer' = [answer EXCEPT ![t] = Nothing]
    /\ shape' = [shape EXCEPT ![t] = NoShape]
    /\ stood' = [stood EXCEPT ![t] = {}] /\ lasted' = [lasted EXCEPT ![t] = {}]
    /\ at' = [at EXCEPT ![t] = 0]
    /\ UNCHANGED <<errMsgBuffer, appVars, spare, envVars, h, stateListeners,
                   reloadListeners, fresh>>

\* Mutant: a page that was out of touch is not loaded again.
ConnectKeepsPage(t) ==
    /\ serving /\ ws[t] = "connect"
    /\ ws' = [ws EXCEPT ![t] = "open"]
    /\ \E c \in Conns :
        /\ \A u \in Clients : conn[u] # c
        /\ conn' = [conn EXCEPT ![t] = c]
        /\ Step(c, "none", "upgraded")
    /\ UNCHANGED <<proxyVars, envVars, stateListeners, reloadListeners, inbox, fresh,
                   broken, page, overlay>>

\* onopen: a tab that was out of touch loads its page again.
Connect(t) ==
    /\ serving /\ ws[t] = "connect"
    /\ ws' = [ws EXCEPT ![t] = "open"]
    /\ \E c \in Conns :
        /\ \A u \in Clients : conn[u] # c
        /\ conn' = [conn EXCEPT ![t] = c]
        /\ Step(c, "none", "upgraded")
    /\ IF overlay[t] THEN Send(t) ELSE UNCHANGED requestVars
    /\ UNCHANGED <<errMsgBuffer, appVars, spare, envVars, stateListeners, reloadListeners,
                   inbox, fresh, broken, page, overlay>>

\* onclose, of an open socket or of an attempt to connect: the overlay is shown and
\* the script connects again after 300 ms.
OnClose(t) ==
    /\ \/ ws[t] = "open" /\ h[conn[t]] = "none" /\ conn[t] \notin inbox
       \/ ws[t] = "connect" /\ ~serving /\ ~overlay[t]
    /\ ws' = [ws EXCEPT ![t] = "connect"]
    /\ conn' = [conn EXCEPT ![t] = NoConn]
    /\ overlay' = [overlay EXCEPT ![t] = TRUE]
    /\ UNCHANGED <<proxyVars, envVars, connVars, broken, page>>

\* onmessage, "r": a load that is under way is started again.
OnMessage(t) ==
    /\ serving /\ conn[t] \in inbox
    /\ inbox' = inbox \ {conn[t]}
    /\ Send(t)
    /\ UNCHANGED <<errMsgBuffer, appVars, spare, envVars, h, stateListeners,
                   reloadListeners, fresh, tabVars>>

TabStep(t) == ServeHTTP(t) \/ Show(t) \/ Connect(t) \/ OnClose(t) \/ OnMessage(t)

-----------------------------------------------------------------------------
Next ==
    \/ \E i \in Changing, m \in Messages \cup {NoMsg} : SetEntry(i, m)
    \/ StopApp \/ StartApp \/ Announce \/ Stop \/ Start
    \/ \E c \in Conns : HandlerStep(c)
    \/ \E t \in Clients : Load(t) \/ TabStep(t)

\* The request waits for the answer of an app that runs.
AwaitsApp(t) == rpc[t] = "sent" /\ appUp

\* Goroutines and tabs are scheduled, a launcher that started the app goes on.
\* Nothing makes a running app answer.
Fairness ==
    /\ WF_vars(Announce)
    /\ \A c \in Conns : WF_vars(HandlerStep(c))
    /\ \A t \in Clients :
        WF_vars(\/ ~AwaitsApp(t) /\ ServeHTTP(t)
                \/ Show(t) \/ Connect(t) \/ OnClose(t) \/ OnMessage(t))

Spec == Init /\ [][Next]_vars
FairSpec == Spec /\ Fairness

-----------------------------------------------------------------------------
(* Properties *)

\* The connection is open, no message is on its way and no load under way.
Quiet(t) ==
    /\ ws[t] = "open" /\ h[conn[t]] = "select" /\ conn[t] \notin inbox
    /\ rpc[t] = "none" /\ ~announce

\* A notification that finds the handler busy is lost, but only while a reload is
\* under way already: a tab that was up to date when its handler began to wait
\* shows the current errors or the current app whenever nothing is under way.
ConnectedTabCurrent ==
    \A t \in Clients : Quiet(t) /\ conn[t] \in fresh => page[t].shows = Current

\* Every load ends, in a page or an error, however long the app stays away and
\* however often it is started again; only an app that runs and never answers
\* keeps it, for as long as that app runs.
LoadsEnd ==
    \A t \in Clients : <>[]AwaitsApp(t) \/ ((rpc[t] # "none") ~> (rpc[t] = "none"))

\* A tab that lost its connection loads its page again once Templier is back,
\* unless that load never gets its answer from a running app.
LostTabReloads ==
    \A t \in Clients :
        <>[]AwaitsApp(t) \/ ((overlay[t] /\ serving) ~> (~overlay[t] \/ ~serving))

\* The handler of a page that is gone takes its channels out of both broadcasters.
ListenersLeave ==
    \A c \in Conns : c \in broken ~> c \notin stateListeners \cup reloadListeners

\* statetrack.Tracker.AddListener: the channel is written to when a state change
\* happens, so a connected tab shows the current state.
TabCurrent == \A t \in Clients : Quiet(t) => page[t].shows = Current
=============================================================================
