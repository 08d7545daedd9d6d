----------------------------- MODULE TabsProofs -----------------------------
(***************************************************************************)
(* What the proxy answers and what a tab shows, for any number of tabs,    *)
(* connections, custom watchers, messages, responses and attempts, and for *)
(* any bounds.                                                             *)
(***************************************************************************)
EXTENDS Tabs, TLAPS

-----------------------------------------------------------------------------
(* The operators. *)

LEMMA Numbers ==
    /\ NumWatchers \in Nat /\ MaxRetries \in Nat \ {0} /\ LastIndex \in Nat
    /\ Messages \subseteq Nat \ {0} /\ Shapes \subseteq Shape /\ SpareCapacity \in BOOLEAN
    /\ NoConn \notin Conns /\ Changing \subseteq Indexes
    /\ MaxChanges \in Nat /\ MaxVersions \in Nat /\ MaxStops \in Nat
    /\ IndexTempl \in Indexes /\ IndexExit \in Indexes /\ LastIndex \in Indexes
    /\ App \notin Indexes
BY ProxyAssumption, TabsAssumption
   DEF LastIndex, Indexes, App, IndexTempl, IndexExit, NoMsg

Versions == 0..MaxVersions
Buffers == [Indexes -> Messages \cup {NoMsg}]

\* What stands is one entry at most for each index, with the message that it has.
LEMMA StandingEntries ==
  ASSUME NEW b \in Buffers
  PROVE  /\ Standing(b) \subseteq Entries
         /\ \A e \in Standing(b) : e[1] \in Indexes /\ b[e[1]] # NoMsg /\ e = <<e[1], b[e[1]]>>
         /\ \A i \in Indexes : b[i] # NoMsg => <<i, b[i]>> \in Standing(b)
BY DEF Buffers, Standing, Entries

LEMMA EntryIndex ==
  ASSUME NEW e \in Entries
  PROVE  e[1] \in Indexes
BY DEF Entries

LEMMA AnswerChanges ==
  ASSUME NEW S, NEW r \in [script : BOOLEAN, intact : BOOLEAN, shows : S],
         NEW b \in BOOLEAN, NEW x \in S
  PROVE  /\ WithScript(r) \in [script : BOOLEAN, intact : BOOLEAN, shows : S]
         /\ [r EXCEPT !.intact = b] \in [script : BOOLEAN, intact : BOOLEAN, shows : S]
         /\ [r EXCEPT !.script = b] \in [script : BOOLEAN, intact : BOOLEAN, shows : S]
         /\ [r EXCEPT !.shows = x] \in [script : BOOLEAN, intact : BOOLEAN, shows : S]
BY DEF WithScript

Shown == (SUBSET Entries) \cup {{<<App, v>>} : v \in Versions}

LEMMA ShownSets ==
  /\ Answers(Versions) = [script : BOOLEAN, intact : BOOLEAN, shows : Shown]
  /\ {} \in Shown /\ SUBSET Entries \subseteq Shown
  /\ \A v \in Versions : {<<App, v>>} \in Shown
BY DEF Answers, Shown

LEMMA AnswerTypes ==
  /\ Nothing \in Answers(Versions)
  /\ \A r \in Answers(Versions), b \in BOOLEAN, x \in Shown :
       /\ WithScript(r) \in Answers(Versions)
       /\ [r EXCEPT !.intact = b] \in Answers(Versions)
       /\ [r EXCEPT !.script = b] \in Answers(Versions)
       /\ [r EXCEPT !.shows = x] \in Answers(Versions)
  /\ \A es \in SUBSET Entries : PageError(es) \in Answers(Versions)
<1>1. Nothing \in [script : BOOLEAN, intact : BOOLEAN, shows : Shown]
  BY ShownSets DEF Nothing
<1>2. ASSUME NEW r \in Answers(Versions), NEW b \in BOOLEAN, NEW x \in Shown
      PROVE  /\ WithScript(r) \in Answers(Versions)
             /\ [r EXCEPT !.intact = b] \in Answers(Versions)
             /\ [r EXCEPT !.script = b] \in Answers(Versions)
             /\ [r EXCEPT !.shows = x] \in Answers(Versions)
  BY AnswerChanges, ShownSets
<1>3. ASSUME NEW es \in SUBSET Entries PROVE PageError(es) \in Answers(Versions)
  <2>1. [Nothing EXCEPT !.shows = es] \in Answers(Versions)
    BY <1>1, <1>2, ShownSets
  <2>. QED  BY <2>1, <1>2, ShownSets DEF PageError
<1>. QED  BY <1>1, <1>2, <1>3, ShownSets

\* What an answer shows is kept by the script and by what became of the tag.
LEMMA AnswerShows ==
  /\ Nothing.shows = {}
  /\ \A es \in SUBSET Entries : PageError(es).shows = es
  /\ \A r \in Answers(Versions), b \in BOOLEAN :
       [WithScript(r) EXCEPT !.intact = b].shows = r.shows
BY DEF Nothing, PageError, WithScript, Answers

-----------------------------------------------------------------------------
(* The invariant. *)

\* A request in each of its steps.  While the error page is put together it holds what
\* was read of the entries passed so far, and nothing that is reported alone.
RequestInv(c) ==
    /\ rpc[c] = "decide" => at[c] = 0 /\ answer[c] = Nothing /\ shape[c] = NoShape
    /\ rpc[c] = "report" =>
         /\ stood[c] # {} /\ at[c] \in Indexes
         /\ lasted[c] \subseteq Standing(errMsgBuffer)
         /\ Standing(errMsgBuffer) \subseteq stood[c]
         /\ answer[c].shows \subseteq stood[c]
         /\ \A e \in answer[c].shows : e[1] < at[c] /\ e[1] \notin Alone
         /\ \A e \in lasted[c] : e[1] < at[c] => e \in answer[c].shows
    /\ rpc[c] \in {"forward", "sent", "modify", "copy"} => stood[c] = {}
    /\ rpc[c] \in {"forward", "sent", "modify", "copy"} => at[c] \in 0..MaxRetries - 1
    /\ rpc[c] \in {"forward", "sent"} => answer[c].shows = {} /\ shape[c] = NoShape
    /\ rpc[c] = "modify" => shape[c] \in Shapes
    /\ rpc[c] = "copy" => ~HeadersOnly(shape[c])
    /\ rpc[c] \in {"modify", "copy"} => answer[c].shows # {}
    /\ rpc[c] = "respond" /\ stood[c] = {} =>
         (answer[c].shows = {} <=> at[c] = MaxRetries \/ HeadersOnly(shape[c]))

RequestsInv == \A c \in Clients : RequestInv(c)

\* A connection belongs to one tab at most, and a tab keeps none that it closed.
ConnInv ==
    /\ \A t, u \in Clients : conn[t] # NoConn /\ conn[t] = conn[u] => t = u
    /\ broken \subseteq {c \in Conns : h[c] # "none"}
    /\ \A t \in Clients : conn[t] \notin broken
    /\ fresh \subseteq {c \in Conns : h[c] \in {"select", "write", "loop", "leave", "left"}}

\* Why a tab may be out of date while its handler waits: it is about to be told, or it
\* was and loads its page again.
FreshInv ==
    \A t \in Clients : conn[t] \in fresh =>
        LET told == conn[t] \in inbox \/ rpc[t] # "none" IN
        /\ h[conn[t]] = "select" => page[t].shows = Current \/ announce \/ told
        /\ h[conn[t]] = "loop" => told

ProxyInv == ProxyTypeOK(0..MaxVersions) /\ RequestsInv /\ ErrorPageTruthful

TabInv == TabTypeOK /\ ConnInv /\ FreshInv

Inv == ProxyInv /\ TabInv

-----------------------------------------------------------------------------
(* Steps of the proxy *)

\* An error comes up, is replaced or goes away.
LEMMA SetStep ==
  ASSUME ProxyInv, NEW i \in Indexes, NEW m \in Messages \cup {NoMsg}, Set(i, m)
  PROVE  ProxyInv'
<1> USE DEF ProxyInv, ProxyTypeOK
<1>1. errMsgBuffer \in Buffers /\ errMsgBuffer' \in Buffers
  BY DEF Set, Buffers
<1>2. Standing(errMsgBuffer') \subseteq Entries
  BY <1>1, StandingEntries
<1>3. ProxyTypeOK(Versions)'
  <2>1. stood' \in [Clients -> SUBSET Entries] /\ lasted' \in [Clients -> SUBSET Entries]
    BY <1>2 DEF Set
  <2>2. \A c \in Clients : lasted'[c] \subseteq stood'[c]
    BY DEF Set
  <2>. QED  BY <1>1, <2>1, <2>2 DEF Set, appVars, Buffers, Versions
<1>4. ASSUME NEW c \in Clients PROVE RequestInv(c)' /\ PageTruthful(c)'
  <2>1. /\ RequestInv(c) /\ PageTruthful(c)
        /\ rpc' = rpc /\ at' = at /\ shape' = shape /\ answer' = answer
        /\ lasted'[c] = lasted[c] \cap Standing(errMsgBuffer')
        /\ stood'[c] = IF rpc[c] = "report"
                          THEN stood[c] \cup Standing(errMsgBuffer') ELSE stood[c]
    BY DEF Set, RequestsInv, ErrorPageTruthful
  <2>2. RequestInv(c)'
    BY <2>1 DEF RequestInv
  <2>3. PageTruthful(c)'
    BY <2>1 DEF PageTruthful
  <2>. QED  BY <2>2, <2>3
<1>. QED  BY <1>3, <1>4 DEF RequestsInv, ErrorPageTruthful, Versions

\* What a step of one request has to keep, given that it leaves the others alone.
LEMMA OneRequest ==
  ASSUME ProxyInv, NEW c \in Clients,
         UNCHANGED <<errMsgBuffer, appVars>>, spare' \in Tags,
         NEW pc \in Rpcs, rpc' = [rpc EXCEPT ![c] = pc],
         NEW n \in 0..LastIndex \cup 0..MaxRetries, at' = [at EXCEPT ![c] = n],
         NEW s \in Shapes \cup {NoShape}, shape' = [shape EXCEPT ![c] = s],
         NEW r \in Answers(Versions), answer' = [answer EXCEPT ![c] = r],
         NEW st \in SUBSET Entries, stood' = [stood EXCEPT ![c] = st],
         NEW la \in SUBSET st, lasted' = [lasted EXCEPT ![c] = la],
         RequestInv(c)', PageTruthful(c)'
  PROVE  ProxyInv'
<1> USE DEF ProxyInv, ProxyTypeOK
<1>1. ProxyTypeOK(Versions)'
  BY DEF appVars, Versions
<1>2. ASSUME NEW d \in Clients, d # c PROVE RequestInv(d)' /\ PageTruthful(d)'
  <2>1. /\ rpc'[d] = rpc[d] /\ at'[d] = at[d] /\ shape'[d] = shape[d]
        /\ answer'[d] = answer[d] /\ stood'[d] = stood[d] /\ lasted'[d] = lasted[d]
        /\ errMsgBuffer' = errMsgBuffer
        /\ RequestInv(d) /\ PageTruthful(d)
    BY <1>2 DEF RequestsInv, ErrorPageTruthful
  <2>2. RequestInv(d)'
    BY <2>1 DEF RequestInv
  <2>3. PageTruthful(d)'
    BY <2>1 DEF PageTruthful
  <2>. QED  BY <2>2, <2>3
<1>. QED  BY <1>1, <1>2 DEF RequestsInv, ErrorPageTruthful, Versions

LEMMA SendStep ==
  ASSUME ProxyInv, NEW c \in Clients, Send(c), UNCHANGED <<errMsgBuffer, appVars, spare>>
  PROVE  ProxyInv'
<1>1. 0 \in 0..LastIndex \cup 0..MaxRetries
  BY Numbers
<1>2. RequestInv(c)' /\ PageTruthful(c)'
  BY DEF ProxyInv, ProxyTypeOK, Send, RequestInv, PageTruthful
<1>3. spare' \in Tags
  BY DEF ProxyInv, ProxyTypeOK
<1>4. /\ "decide" \in Rpcs /\ NoShape \in Shapes \cup {NoShape}
      /\ {} \in SUBSET Entries /\ {} \in SUBSET {} /\ Nothing \in Answers(Versions)
  BY AnswerTypes DEF Rpcs
<1>. QED  BY <1>1, <1>2, <1>3, <1>4, OneRequest DEF Send

LEMMA DecideStep ==
  ASSUME ProxyInv, NEW c \in Clients, Decide(c)
  PROVE  ProxyInv'
<1> DEFINE now == IF AnyError THEN Standing(errMsgBuffer) ELSE {}
           pc == IF AnyError THEN "report" ELSE "forward"
<1> USE DEF ProxyInv, ProxyTypeOK
<1>1. errMsgBuffer \in Buffers
  BY DEF Buffers
<1>2. now \in SUBSET Entries /\ (AnyError => now # {})
  BY <1>1, StandingEntries DEF AnyError
<1>3. /\ rpc[c] = "decide" /\ pc \in Rpcs /\ rpc' = [rpc EXCEPT ![c] = pc]
      /\ stood' = [stood EXCEPT ![c] = now] /\ lasted' = [lasted EXCEPT ![c] = now]
      /\ UNCHANGED <<errMsgBuffer, appVars, spare, at, shape, answer>>
  BY DEF Decide, Goto, Rpcs
<1>4. at[c] = 0 /\ answer[c] = Nothing /\ shape[c] = NoShape /\ RequestInv(c)
  BY <1>3 DEF RequestsInv, RequestInv
<1>5. /\ at' = [at EXCEPT ![c] = at[c]] /\ shape' = [shape EXCEPT ![c] = shape[c]]
      /\ answer' = [answer EXCEPT ![c] = answer[c]]
  BY <1>3
<1>6. PageTruthful(c)'
  BY <1>3 DEF PageTruthful
<1>7. RequestInv(c)'
  <2>1. /\ rpc'[c] = pc /\ at'[c] = 0 /\ answer'[c].shows = {} /\ shape'[c] = NoShape
        /\ stood'[c] = now /\ lasted'[c] = now
    BY <1>3, <1>4, AnswerShows
  <2>2. 0 \in 0..MaxRetries - 1 /\ 0 \in Indexes
    BY Numbers DEF Indexes
  <2>3. \A e \in now : ~(e[1] < 0)
    BY <1>2, EntryIndex, Numbers DEF Indexes
  <2>4. CASE AnyError
    BY <2>1, <2>2, <2>3, <2>4, <1>2, <1>3 DEF RequestInv
  <2>5. CASE ~AnyError
    BY <2>1, <2>2, <2>5 DEF RequestInv
  <2>. QED  BY <2>4, <2>5
<1> HIDE DEF now, pc, ProxyInv
<1>8. /\ spare' \in Tags /\ now \in SUBSET now /\ at[c] \in 0..LastIndex \cup 0..MaxRetries
      /\ shape[c] \in Shapes \cup {NoShape} /\ answer[c] \in Answers(Versions)
  BY <1>3 DEF ProxyInv, Versions
<1>. QED  BY <1>2, <1>3, <1>5, <1>6, <1>7, <1>8, OneRequest, Zenon

\* One entry is read.  The page is served with the last one, or with one that is
\* reported alone.
LEMMA ReadEntryStep ==
  ASSUME ProxyInv, NEW c \in Clients, ReadEntry(c)
  PROVE  ProxyInv'
<1> DEFINE i == at[c]
           found == i \in Indexes /\ errMsgBuffer[i] # NoMsg
           last == i = LastIndex \/ (found /\ i \in Alone)
           entry == <<i, errMsgBuffer[i]>>
           before == answer[c].shows
           reports == (IF i \in Alone /\ found THEN {} ELSE before)
                        \cup (IF found THEN {entry} ELSE {})
           pc == IF last THEN "respond" ELSE "report"
           next == IF last THEN 0 ELSE i + 1
<1>1. /\ rpc[c] = "report" /\ rpc' = [rpc EXCEPT ![c] = pc]
      /\ at' = [at EXCEPT ![c] = next]
      /\ answer' = [answer EXCEPT ![c] = PageError(reports)]
      /\ UNCHANGED <<errMsgBuffer, appVars, spare, shape, stood, lasted>>
  BY DEF ReadEntry, Goto
<1>2. errMsgBuffer \in Buffers
  BY DEF ProxyInv, ProxyTypeOK, Buffers
<1>3. /\ stood[c] # {} /\ i \in Indexes
      /\ lasted[c] \subseteq Standing(errMsgBuffer)
      /\ Standing(errMsgBuffer) \subseteq stood[c]
      /\ before \subseteq stood[c]
      /\ \A e \in before : e[1] < i /\ e[1] \notin Alone
      /\ \A e \in lasted[c] : e[1] < i => e \in before
      /\ stood[c] \in SUBSET Entries /\ lasted[c] \in SUBSET stood[c]
  BY <1>1 DEF ProxyInv, ProxyTypeOK, RequestsInv, RequestInv
<1>4. found => entry \in Standing(errMsgBuffer) /\ entry[1] = i
  BY <1>2, <1>3, StandingEntries
<1>5. reports \subseteq stood[c]
  BY <1>3, <1>4
<1>6. \A e \in lasted[c] : e[1] \in Indexes /\ (e[1] = i => found /\ e = entry)
  BY <1>2, <1>3, StandingEntries
<1>7. /\ rpc'[c] = pc /\ at'[c] = next /\ answer'[c] = PageError(reports)
      /\ answer'[c].shows = reports
      /\ stood'[c] = stood[c] /\ lasted'[c] = lasted[c] /\ errMsgBuffer' = errMsgBuffer
  BY <1>1, <1>3, <1>5, AnswerShows DEF ProxyInv, ProxyTypeOK
<1> HIDE DEF entry, before
<1>8. i \in 0..LastIndex /\ LastIndex \in Nat
  BY <1>3, Numbers DEF Indexes
<1>9. RequestInv(c)'
  <2>1. CASE last
    BY <2>1, <1>3, <1>7 DEF RequestInv
  <2>2. CASE ~last
    <3>1. i + 1 \in Indexes
      BY <2>2, <1>8 DEF Indexes
    <3>2. reports = IF found THEN before \cup {entry} ELSE before
      BY <2>2
    <3>3. \A e \in reports : e[1] < i + 1 /\ e[1] \notin Alone
      <4>1. \A e \in before : e[1] \in Indexes
        BY <1>3, EntryIndex
      <4>2. \A e \in before : e[1] < i + 1
        BY <4>1, <1>3, <1>8, Numbers DEF Indexes
      <4>3. found => entry[1] < i + 1 /\ entry[1] \notin Alone
        BY <2>2, <1>4, <1>8
      <4>. QED  BY <4>2, <4>3, <3>2, <1>3
    <3>4. \A e \in lasted[c] : e[1] < i + 1 => e \in reports
      <4>1. \A e \in lasted[c] : e[1] < i + 1 => e[1] < i \/ e[1] = i
        BY <1>6, <1>8, Numbers DEF Indexes
      <4>. QED  BY <4>1, <3>2, <1>3, <1>6
    <3> HIDE DEF reports, found, last
    <3>. QED  BY <3>1, <3>3, <3>4, <2>2, <1>3, <1>5, <1>7 DEF RequestInv
  <2>. QED  BY <2>1, <2>2
<1>10. PageTruthful(c)'
  <2>0. CASE ~last
    BY <2>0, <1>7 DEF PageTruthful
  <2>1. CASE last /\ found /\ i = IndexTempl
    <3>1. reports = {entry} /\ entry[1] = IndexTempl
      BY <2>1, <1>4 DEF Alone
    <3>2. \A e \in lasted[c] : e[1] = IndexTempl => e = entry
      BY <2>1, <1>6
    <3>. QED  BY <2>1, <3>1, <3>2, <1>5, <1>7 DEF PageTruthful, IndexTempl, IndexExit
  <2>2. CASE last /\ found /\ i = IndexExit
    <3>1. reports = {entry} /\ entry[1] = IndexExit
      BY <2>2, <1>4 DEF Alone
    <3>2. \A e \in lasted[c] : e[1] = IndexExit => e = entry
      BY <2>2, <1>6
    <3>3. \A e \in lasted[c] : e[1] # IndexTempl
      BY <2>2, <1>3 DEF IndexTempl, IndexExit, Alone
    <3>. QED  BY <2>2, <3>1, <3>2, <3>3, <1>5, <1>7 DEF PageTruthful, IndexTempl, IndexExit
  <2>3. CASE last /\ ~(found /\ i \in Alone)
    <3>1. i = LastIndex /\ reports = IF found THEN before \cup {entry} ELSE before
      BY <2>3
    <3>2. lasted[c] \subseteq reports
      <4>1. \A e \in lasted[c] : e[1] < i \/ e[1] = i
        BY <3>1, <1>6, <1>8 DEF Indexes
      <4>. QED  BY <4>1, <3>1, <1>3, <1>6
    <3>3. \A e \in reports : e[1] \notin Alone
      BY <3>1, <2>3, <1>3, <1>4
    <3> HIDE DEF reports, found, last
    <3>. QED  BY <3>2, <3>3, <1>5, <1>7 DEF PageTruthful, Alone
  <2>. QED  BY <2>0, <2>1, <2>2, <2>3 DEF Alone
<1>11. /\ next \in 0..LastIndex \cup 0..MaxRetries /\ pc \in Rpcs
       /\ PageError(reports) \in Answers(Versions) /\ spare' \in Tags
       /\ shape[c] \in Shapes \cup {NoShape} /\ shape' = [shape EXCEPT ![c] = shape[c]]
       /\ stood' = [stood EXCEPT ![c] = stood[c]] /\ lasted' = [lasted EXCEPT ![c] = lasted[c]]
       /\ UNCHANGED <<errMsgBuffer, appVars>>
  <2>1. next \in 0..LastIndex /\ pc \in Rpcs
    BY <1>8 DEF Rpcs
  <2>2. PageError(reports) \in Answers(Versions)
    BY <1>3, <1>5, AnswerTypes
  <2> HIDE DEF next, pc, reports
  <2>. QED  BY <2>1, <2>2, <1>1 DEF ProxyInv, ProxyTypeOK
<1> HIDE DEF i, found, last, next, pc, reports
<1>12. /\ rpc' = [rpc EXCEPT ![c] = pc] /\ at' = [at EXCEPT ![c] = next]
       /\ answer' = [answer EXCEPT ![c] = PageError(reports)]
       /\ stood[c] \in SUBSET Entries /\ lasted[c] \in SUBSET stood[c]
  BY <1>1, <1>3
<1>. QED  BY <1>9, <1>10, <1>11, <1>12, OneRequest, Zenon

\* A request that goes on to the app, or comes back from it, has met no error.
LEMMA Forwarded ==
  ASSUME ProxyInv, NEW c \in Clients, rpc[c] \in {"forward", "sent", "modify", "copy"}
  PROVE  /\ stood[c] = {} /\ lasted[c] = {}
         /\ stood = [stood EXCEPT ![c] = {}] /\ lasted = [lasted EXCEPT ![c] = {}]
         /\ at[c] \in 0..LastIndex \cup 0..MaxRetries /\ at = [at EXCEPT ![c] = at[c]]
         /\ shape[c] \in Shapes \cup {NoShape} /\ shape = [shape EXCEPT ![c] = shape[c]]
         /\ answer[c] \in Answers(Versions) /\ answer = [answer EXCEPT ![c] = answer[c]]
         /\ spare \in Tags /\ appVer \in Versions
         /\ {} \in SUBSET Entries /\ {} \in SUBSET {}
         /\ {"forward", "sent", "modify", "copy", "respond"} \subseteq Rpcs
<1>1. RequestInv(c) /\ lasted[c] \subseteq stood[c]
  BY DEF ProxyInv, ProxyTypeOK, RequestsInv
<1>2. stood[c] = {}
  BY <1>1 DEF RequestInv
<1>. QED  BY <1>1, <1>2 DEF ProxyInv, ProxyTypeOK, Versions, Rpcs

LEMMA FailStep ==
  ASSUME ProxyInv, NEW c \in Clients, rpc[c] \in {"forward", "sent"}, Fail(c),
         UNCHANGED <<errMsgBuffer, appVars, spare, shape, stood, lasted>>
  PROVE  ProxyInv'
<1> DEFINE pc == IF at[c] + 1 = MaxRetries THEN "respond" ELSE "forward"
<1>1. rpc' = [rpc EXCEPT ![c] = pc] /\ at' = [at EXCEPT ![c] = at[c] + 1] /\ answer' = answer
  BY DEF Fail
<1>2. at[c] \in 0..MaxRetries - 1 /\ answer[c].shows = {} /\ shape[c] = NoShape
  BY DEF ProxyInv, RequestsInv, RequestInv
<1>3. /\ at[c] + 1 \in 0..MaxRetries /\ (pc # "respond" => at[c] + 1 \in 0..MaxRetries - 1)
      /\ pc = "respond" => at[c] + 1 = MaxRetries
  BY <1>2, Numbers
<1>4. /\ rpc'[c] = pc /\ at'[c] = at[c] + 1 /\ stood'[c] = {}
      /\ answer'[c].shows = {} /\ shape'[c] = NoShape
  BY <1>1, <1>2, Forwarded DEF ProxyInv, ProxyTypeOK
<1>5. RequestInv(c)'
  BY <1>3, <1>4 DEF RequestInv
<1>6. PageTruthful(c)'
  BY <1>4 DEF PageTruthful
<1>7. /\ pc \in Rpcs /\ at[c] + 1 \in 0..LastIndex \cup 0..MaxRetries /\ spare' \in Tags
      /\ UNCHANGED <<errMsgBuffer, appVars>>
  BY <1>3, Forwarded
<1>8. /\ shape[c] \in Shapes \cup {NoShape} /\ shape' = [shape EXCEPT ![c] = shape[c]]
      /\ answer[c] \in Answers(Versions) /\ answer' = [answer EXCEPT ![c] = answer[c]]
      /\ stood' = [stood EXCEPT ![c] = {}] /\ lasted' = [lasted EXCEPT ![c] = {}]
      /\ {} \in SUBSET Entries /\ {} \in SUBSET {}
  BY <1>1, Forwarded
<1> HIDE DEF pc
<1>. QED  BY <1>1, <1>5, <1>6, <1>7, <1>8, OneRequest, Zenon

LEMMA AttemptStep ==
  ASSUME ProxyInv, NEW c \in Clients, Attempt(c)
  PROVE  ProxyInv'
<1>1. rpc[c] = "forward" /\ UNCHANGED <<errMsgBuffer, appVars, spare, shape, stood, lasted>>
  BY DEF Attempt
<1>2. CASE appUp
  <2>1. rpc' = [rpc EXCEPT ![c] = "sent"] /\ at' = at /\ answer' = answer
    BY <1>2 DEF Attempt, Goto
  <2>2. /\ rpc'[c] = "sent" /\ stood'[c] = {} /\ at'[c] \in 0..MaxRetries - 1
        /\ answer'[c].shows = {} /\ shape'[c] = NoShape
    BY <1>1, <2>1, Forwarded DEF ProxyInv, ProxyTypeOK, RequestsInv, RequestInv
  <2>3. RequestInv(c)' /\ PageTruthful(c)'
    BY <2>2 DEF RequestInv, PageTruthful
  <2>4. /\ "sent" \in Rpcs /\ at[c] \in 0..LastIndex \cup 0..MaxRetries /\ spare' \in Tags
        /\ at' = [at EXCEPT ![c] = at[c]] /\ UNCHANGED <<errMsgBuffer, appVars>>
    BY <1>1, <2>1, Forwarded
  <2>5. /\ shape[c] \in Shapes \cup {NoShape} /\ shape' = [shape EXCEPT ![c] = shape[c]]
        /\ answer[c] \in Answers(Versions) /\ answer' = [answer EXCEPT ![c] = answer[c]]
        /\ stood' = [stood EXCEPT ![c] = {}] /\ lasted' = [lasted EXCEPT ![c] = {}]
        /\ {} \in SUBSET Entries /\ {} \in SUBSET {}
    BY <1>1, <2>1, Forwarded
  <2>. QED  BY <2>1, <2>3, <2>4, <2>5, OneRequest, Zenon
<1>3. CASE ~appUp
  BY <1>1, <1>3, FailStep DEF Attempt
<1>. QED  BY <1>2, <1>3

LEMMA ReceiveStep ==
  ASSUME ProxyInv, NEW c \in Clients, Receive(c)
  PROVE  ProxyInv'
<1>1. rpc[c] = "sent" /\ UNCHANGED <<errMsgBuffer, appVars, spare, stood, lasted>>
  BY DEF Receive
<1>2. CASE appUp
  <2> DEFINE r == [answer[c] EXCEPT !.shows = {<<App, appVer>>}]
  <2>1. /\ rpc' = [rpc EXCEPT ![c] = "modify"] /\ at' = at
        /\ answer' = [answer EXCEPT ![c] = r]
    BY <1>2 DEF Receive, Goto
  <2>2. PICK s \in Shapes : shape' = [shape EXCEPT ![c] = s]
    BY <1>2 DEF Receive
  <2>3. r \in Answers(Versions) /\ r.shows = {<<App, appVer>>}
    <3>1. answer[c] \in Answers(Versions) /\ {<<App, appVer>>} \in Shown
      BY <1>1, Forwarded, ShownSets
    <3>. QED  BY <3>1, AnswerTypes DEF Answers
  <2> HIDE DEF r
  <2>4. /\ rpc'[c] = "modify" /\ stood'[c] = {} /\ shape'[c] = s /\ answer'[c] = r
        /\ at'[c] \in 0..MaxRetries - 1
    BY <1>1, <2>1, <2>2, Forwarded DEF ProxyInv, ProxyTypeOK, RequestsInv, RequestInv
  <2>5. RequestInv(c)' /\ PageTruthful(c)'
    BY <2>3, <2>4 DEF RequestInv, PageTruthful
  <2>6. /\ "modify" \in Rpcs /\ at[c] \in 0..LastIndex \cup 0..MaxRetries /\ spare' \in Tags
        /\ at' = [at EXCEPT ![c] = at[c]] /\ UNCHANGED <<errMsgBuffer, appVars>>
        /\ s \in Shapes \cup {NoShape}
        /\ stood' = [stood EXCEPT ![c] = {}] /\ lasted' = [lasted EXCEPT ![c] = {}]
        /\ {} \in SUBSET Entries /\ {} \in SUBSET {}
    BY <1>1, <2>1, Forwarded
  <2>. QED  BY <2>1, <2>2, <2>3, <2>5, <2>6, OneRequest, Zenon
<1>3. CASE ~appUp
  BY <1>1, <1>3, FailStep DEF Receive
<1>. QED  BY <1>2, <1>3

LEMMA ModifyStep ==
  ASSUME ProxyInv, NEW c \in Clients, Modify(c)
  PROVE  ProxyInv'
<1> DEFINE s == shape[c]
           lost == ~Passes(s) /\ Unreadable(s)
           inject == ~Passes(s) /\ ~Unreadable(s) /\ Injectable(s)
           pc == IF inject THEN "copy" ELSE "respond"
           r == IF lost THEN [answer[c] EXCEPT !.shows = {}] ELSE answer[c]
<1>1. /\ rpc[c] = "modify" /\ rpc' = [rpc EXCEPT ![c] = pc]
      /\ UNCHANGED <<errMsgBuffer, appVars, at, shape, stood, lasted>>
  BY DEF Modify, Goto
<1>2. answer[c] \in Answers(Versions) /\ answer = [answer EXCEPT ![c] = answer[c]]
  BY <1>1, Forwarded
<1>3. answer' = [answer EXCEPT ![c] = r]
  <2>1. answer' = [answer EXCEPT ![c] = [answer[c] EXCEPT !.shows = IF lost THEN {} ELSE answer[c].shows]]
    BY DEF Modify
  <2>2. [answer[c] EXCEPT !.shows = answer[c].shows] = answer[c]
    BY <1>2 DEF Answers
  <2>3. [answer[c] EXCEPT !.shows = IF lost THEN {} ELSE answer[c].shows] = r
    BY <2>2
  <2>. QED  BY <2>1, <2>3
<1>4. spare' \in Tags
  <2>1. s \in Shapes /\ spare \in Tags
    BY <1>1, Forwarded DEF ProxyInv, RequestsInv, RequestInv
  <2>2. s.tag \in Tags
    BY <2>1, Numbers DEF Shape
  <2>. QED  BY <2>1, <2>2 DEF Modify
<1>5. s \in Shapes /\ answer[c].shows # {} /\ at[c] \in 0..MaxRetries - 1
  BY <1>1 DEF ProxyInv, RequestsInv, RequestInv
<1>6. /\ r \in Answers(Versions) /\ (~lost => r = answer[c]) /\ (lost => r.shows = {})
      /\ at[c] # MaxRetries
      /\ lost <=> HeadersOnly(s)
  <2>1. r \in Answers(Versions) /\ (~lost => r = answer[c])
    BY <1>2, AnswerTypes, ShownSets
  <2>2. lost => r.shows = {}
    BY <1>2 DEF Answers
  <2>3. at[c] # MaxRetries
    BY <1>5, Numbers
  <2>4. lost <=> HeadersOnly(s)
    BY <1>5, Numbers DEF HeadersOnly, Passes, Unreadable, Shape
  <2>. QED  BY <2>1, <2>2, <2>3, <2>4
<1> HIDE DEF r
<1>7. /\ rpc'[c] = pc /\ stood'[c] = {} /\ answer'[c] = r
      /\ shape'[c] = s /\ at'[c] = at[c]
  BY <1>1, <1>3, Forwarded DEF ProxyInv, ProxyTypeOK
<1>8. RequestInv(c)' /\ PageTruthful(c)'
  <2>1. CASE lost
    <3>1. pc = "respond"
      BY <2>1
    <3>. QED  BY <2>1, <3>1, <1>6, <1>7 DEF RequestInv, PageTruthful
  <2>2. CASE ~lost
    BY <2>2, <1>5, <1>6, <1>7 DEF RequestInv, PageTruthful
  <2>. QED  BY <2>1, <2>2
<1>9. /\ pc \in Rpcs /\ at[c] \in 0..LastIndex \cup 0..MaxRetries
      /\ at' = [at EXCEPT ![c] = at[c]] /\ UNCHANGED <<errMsgBuffer, appVars>>
      /\ shape[c] \in Shapes \cup {NoShape} /\ shape' = [shape EXCEPT ![c] = shape[c]]
      /\ stood' = [stood EXCEPT ![c] = {}] /\ lasted' = [lasted EXCEPT ![c] = {}]
      /\ {} \in SUBSET Entries /\ {} \in SUBSET {}
  BY <1>1, Forwarded
<1> HIDE DEF pc, s, lost, inject
<1>. QED  BY <1>1, <1>3, <1>4, <1>6, <1>8, <1>9, OneRequest, Zenon

LEMMA InjectStep ==
  ASSUME ProxyInv, NEW c \in Clients, Inject(c)
  PROVE  ProxyInv'
<1> DEFINE keeps == shape[c].tag # "none" /\ SpareCapacity => spare = shape[c].tag
           r == [WithScript(answer[c]) EXCEPT !.intact = keeps]
<1>1. /\ rpc[c] = "copy" /\ rpc' = [rpc EXCEPT ![c] = "respond"]
      /\ answer' = [answer EXCEPT ![c] = r]
      /\ UNCHANGED <<errMsgBuffer, appVars, spare, at, shape, stood, lasted>>
  BY DEF Inject, Goto
<1>2. /\ answer[c] \in Answers(Versions) /\ answer[c].shows # {}
      /\ at'[c] # MaxRetries /\ ~HeadersOnly(shape'[c])
  BY <1>1, Forwarded, Numbers DEF ProxyInv, RequestsInv, RequestInv
<1>3. r \in Answers(Versions) /\ r.shows = answer[c].shows
  <2>1. keeps \in BOOLEAN
    OBVIOUS
  <2> HIDE DEF keeps
  <2>2. WithScript(answer[c]) \in Answers(Versions)
    BY <1>2, AnswerTypes, ShownSets
  <2>. QED  BY <2>1, <2>2, <1>2, AnswerTypes, AnswerShows, ShownSets
<1> HIDE DEF r
<1>4. rpc'[c] = "respond" /\ stood'[c] = {} /\ answer'[c] = r
  BY <1>1, Forwarded DEF ProxyInv, ProxyTypeOK
<1>5. RequestInv(c)' /\ PageTruthful(c)'
  BY <1>2, <1>3, <1>4 DEF RequestInv, PageTruthful
<1>6. /\ "respond" \in Rpcs /\ at[c] \in 0..LastIndex \cup 0..MaxRetries /\ spare' \in Tags
      /\ at' = [at EXCEPT ![c] = at[c]] /\ UNCHANGED <<errMsgBuffer, appVars>>
      /\ shape[c] \in Shapes \cup {NoShape} /\ shape' = [shape EXCEPT ![c] = shape[c]]
      /\ stood' = [stood EXCEPT ![c] = {}] /\ lasted' = [lasted EXCEPT ![c] = {}]
      /\ {} \in SUBSET Entries /\ {} \in SUBSET {}
  BY <1>1, Forwarded
<1>. QED  BY <1>1, <1>3, <1>5, <1>6, OneRequest, Zenon

LEMMA RequestSteps ==
  ASSUME ProxyInv, NEW c \in Clients, RequestStep(c)
  PROVE  ProxyInv' /\ rpc[c] # "none" /\ \A d \in Clients : rpc[d] # "none" => rpc'[d] # "none"
<1>1. ProxyInv'
  BY DecideStep, ReadEntryStep, AttemptStep, ReceiveStep, ModifyStep, InjectStep
     DEF RequestStep
<1>2. \E pc \in Rpcs \ {"none"} : rpc[c] # "none" /\ rpc' = [rpc EXCEPT ![c] = pc]
  BY DEF RequestStep, Decide, ReadEntry, Attempt, Receive, Modify, Inject, Goto, Fail, Rpcs
<1>. QED  BY <1>1, <1>2 DEF ProxyInv, ProxyTypeOK

-----------------------------------------------------------------------------
(* Steps of the launcher and of Templier *)

LEMMA ProxyUnchanged ==
  ASSUME ProxyInv, UNCHANGED proxyVars
  PROVE  ProxyInv' /\ Current' = Current
<1>1. ProxyTypeOK(Versions)'
  BY DEF ProxyInv, ProxyTypeOK, proxyVars, appVars, requestVars, Versions
<1>2. RequestsInv' /\ ErrorPageTruthful' /\ Current' = Current
  BY DEF ProxyInv, RequestsInv, RequestInv, ErrorPageTruthful, PageTruthful, proxyVars, appVars,
         requestVars, Current
<1>. QED  BY <1>1, <1>2 DEF ProxyInv, Versions

\* A broadcast leaves none of the listeners waiting.
LEMMA BroadcastStep ==
  ASSUME h \in [Conns -> HandlerPcs], NEW ls, \A c \in Conns : h[c] = "select" => c \in ls,
         BroadcastNonblock(ls)
  PROVE  /\ h' \in [Conns -> HandlerPcs]
         /\ \A c \in Conns : h'[c] # "select"
         /\ \A c \in Conns : h'[c] = h[c] \/ (h[c] = "select" /\ h'[c] = "write")
BY DEF BroadcastNonblock, HandlerPcs

\* Both broadcasters reach whoever waits.
LEMMA BroadcastKeeps ==
  ASSUME TabInv, NEW ls, \A c \in Conns : h[c] = "select" => c \in ls, BroadcastNonblock(ls),
         UNCHANGED <<serving, stops, stateListeners, reloadListeners, inbox, fresh, tabVars, rpc>>,
         changes' \in 0..MaxChanges, announce' \in BOOLEAN
  PROVE  TabInv'
<1>1. /\ h' \in [Conns -> HandlerPcs] /\ \A c \in Conns : h'[c] # "select"
      /\ \A c \in Conns : h'[c] = h[c] \/ (h[c] = "select" /\ h'[c] = "write")
  BY BroadcastStep DEF TabInv, TabTypeOK
<1>2. TabTypeOK'
  BY <1>1 DEF TabInv, TabTypeOK, tabVars, Listening
<1>3. ConnInv'
  BY <1>1 DEF TabInv, TabTypeOK, ConnInv, tabVars
<1>4. FreshInv'
  BY <1>1 DEF TabInv, TabTypeOK, FreshInv, tabVars
<1>. QED  BY <1>2, <1>3, <1>4 DEF TabInv

LEMMA Waiting ==
  ASSUME TabInv, NEW c \in Conns, h[c] = "select"
  PROVE  c \in stateListeners /\ c \in reloadListeners
BY DEF TabInv, TabTypeOK, Listening

LEMMA SetEntryStep ==
  ASSUME Inv, NEW i \in Changing, NEW m \in Messages \cup {NoMsg}, SetEntry(i, m)
  PROVE  Inv'
<1>1. ProxyInv'
  BY SetStep, Numbers DEF Inv, SetEntry
<1>2. changes' \in 0..MaxChanges /\ announce' \in BOOLEAN /\ UNCHANGED rpc
  BY Numbers DEF Inv, TabInv, TabTypeOK, SetEntry, Set
<1>3. TabInv'
  BY <1>2, Waiting, BroadcastKeeps DEF Inv, SetEntry
<1>. QED  BY <1>1, <1>3 DEF Inv

LEMMA AnnounceStep ==
  ASSUME Inv, Announce
  PROVE  Inv'
<1>1. ProxyInv'
  BY ProxyUnchanged DEF Inv, Announce
<1>2. /\ changes' \in 0..MaxChanges /\ announce' \in BOOLEAN
      /\ UNCHANGED <<serving, stops, stateListeners, reloadListeners, inbox, fresh, tabVars, rpc>>
  BY DEF Inv, TabInv, TabTypeOK, Announce, proxyVars, requestVars
<1>3. TabInv'
  BY <1>2, Waiting, BroadcastKeeps DEF Inv, Announce
<1>. QED  BY <1>1, <1>3 DEF Inv

\* The app comes and goes: nothing else of the proxy changes.
LEMMA AppStep ==
  ASSUME ProxyInv, appUp' \in BOOLEAN, appVer' \in Versions,
         UNCHANGED <<errMsgBuffer, spare, requestVars>>
  PROVE  ProxyInv'
<1>1. ProxyTypeOK(Versions)'
  BY DEF ProxyInv, ProxyTypeOK, requestVars, Versions
<1>2. RequestsInv' /\ ErrorPageTruthful'
  BY DEF ProxyInv, RequestsInv, RequestInv, ErrorPageTruthful, PageTruthful, requestVars
<1>. QED  BY <1>1, <1>2 DEF ProxyInv, Versions

LEMMA StopAppStep ==
  ASSUME Inv, StopApp
  PROVE  Inv'
<1>1. ProxyInv'
  BY AppStep DEF Inv, StopApp, ProxyInv, ProxyTypeOK, Versions
<1>2. Current' = Current
  BY DEF StopApp, Current
<1>3. TabTypeOK' /\ ConnInv' /\ FreshInv'
  BY <1>2 DEF Inv, TabInv, TabTypeOK, ConnInv, FreshInv, StopApp, envVars, connVars, tabVars,
              requestVars
<1>. QED  BY <1>1, <1>3 DEF Inv, TabInv

LEMMA StartAppStep ==
  ASSUME Inv, StartApp
  PROVE  Inv'
<1>1. appVer' \in Versions
  BY Numbers DEF Inv, ProxyInv, ProxyTypeOK, StartApp, Versions
<1>2. ProxyInv'
  BY <1>1, AppStep DEF Inv, StartApp
<1>3. TabTypeOK' /\ ConnInv' /\ FreshInv'
  BY DEF Inv, TabInv, TabTypeOK, ConnInv, FreshInv, StartApp, connVars, tabVars, requestVars
<1>. QED  BY <1>2, <1>3 DEF Inv, TabInv

LEMMA StopStep ==
  ASSUME Inv, Stop
  PROVE  Inv'
<1>1. /\ rpc' = [t \in Clients |-> "none"] /\ appUp' = FALSE
      /\ errMsgBuffer' = [i \in Indexes |-> NoMsg]
      /\ UNCHANGED <<appVer, spare, at, shape, answer, stood, lasted>>
  BY DEF Stop
<1>2. ProxyInv'
  <2>1. ProxyTypeOK(Versions)'
    BY <1>1 DEF Inv, ProxyInv, ProxyTypeOK, Versions, Rpcs
  <2>2. RequestsInv' /\ ErrorPageTruthful'
    BY <1>1 DEF RequestsInv, RequestInv, ErrorPageTruthful, PageTruthful
  <2>. QED  BY <2>1, <2>2 DEF ProxyInv, Versions
<1>0. PICK told \in SUBSET {t \in Clients : conn[t] \in inbox} :
          LET lost == {t \in Clients : rpc[t] # "none"} \cup told IN
          /\ page' = [t \in Clients |-> IF t \in lost THEN Nothing ELSE page[t]]
          /\ ws' = [t \in Clients |-> IF t \in lost THEN "off" ELSE ws[t]]
          /\ conn' = [t \in Clients |-> IF t \in lost THEN NoConn ELSE conn[t]]
          /\ overlay' = [t \in Clients |-> t \notin lost /\ overlay[t]]
  BY DEF Stop
<1> DEFINE lost == {t \in Clients : rpc[t] # "none"} \cup told
<1>3. /\ serving' = FALSE /\ stops' \in 0..MaxStops /\ announce' = FALSE /\ changes' = changes
      /\ h' = [c \in Conns |-> "none"] /\ stateListeners' = {} /\ reloadListeners' = {}
      /\ inbox' = {} /\ broken' = {} /\ fresh' = {}
      /\ page' = [t \in Clients |-> IF t \in lost THEN Nothing ELSE page[t]]
      /\ ws' = [t \in Clients |-> IF t \in lost THEN "off" ELSE ws[t]]
      /\ conn' = [t \in Clients |-> IF t \in lost THEN NoConn ELSE conn[t]]
      /\ overlay' = [t \in Clients |-> t \notin lost /\ overlay[t]]
  BY <1>0, Numbers DEF Stop, Inv, TabInv, TabTypeOK
<1>4. TabTypeOK'
  <2>1. page' \in [Clients -> Answers(0..MaxVersions)]
    BY <1>3, AnswerTypes DEF Inv, TabInv, TabTypeOK, Versions
  <2>2. overlay' \in [Clients -> BOOLEAN]
    BY <1>3 DEF Inv, TabInv, TabTypeOK
  <2>3. /\ ws' \in [Clients -> {"off", "connect", "open"}]
        /\ conn' \in [Clients -> Conns \cup {NoConn}]
        /\ \A t \in Clients : conn'[t] # NoConn <=> ws'[t] = "open"
    BY <1>3 DEF Inv, TabInv, TabTypeOK
  <2>4. /\ h' \in [Conns -> HandlerPcs]
        /\ {c \in Conns : h'[c] \in Listening} = {}
        /\ {c \in Conns : h'[c] \in (Listening \ {"added"}) \cup {"left"}} = {}
    BY <1>3 DEF HandlerPcs, Listening
  <2>. QED  BY <1>3, <2>1, <2>2, <2>3, <2>4 DEF Inv, TabInv, TabTypeOK
<1>5. ConnInv' /\ FreshInv'
  BY <1>3 DEF Inv, TabInv, TabTypeOK, ConnInv, FreshInv
<1>. QED  BY <1>2, <1>4, <1>5 DEF Inv, TabInv

LEMMA StartStep ==
  ASSUME Inv, Start
  PROVE  Inv'
<1>1. ProxyInv' /\ Current' = Current
  BY ProxyUnchanged DEF Inv, Start
<1>2. TabTypeOK' /\ ConnInv' /\ FreshInv'
  BY <1>1 DEF Inv, TabInv, TabTypeOK, ConnInv, FreshInv, Start, connVars, tabVars, proxyVars,
              requestVars
<1>. QED  BY <1>1, <1>2 DEF Inv, TabInv

-----------------------------------------------------------------------------
(* Steps of a handler *)

LEMMA StepOf ==
  ASSUME TabInv, NEW c \in Conns, NEW from, NEW to \in HandlerPcs, Step(c, from, to)
  PROVE  /\ h' \in [Conns -> HandlerPcs] /\ h[c] = from /\ h'[c] = to
         /\ \A d \in Conns : d # c => h'[d] = h[d]
BY DEF TabInv, TabTypeOK, Step

LEMMA AddListenersStep ==
  ASSUME Inv, NEW c \in Conns, AddListeners(c)
  PROVE  Inv'
<1>1. ProxyInv' /\ Current' = Current /\ UNCHANGED <<rpc, envVars, inbox, fresh, tabVars>>
  BY ProxyUnchanged DEF Inv, AddListeners, proxyVars, requestVars
<1>2. ASSUME NEW from \in {"upgraded", "added"}, NEW to \in {"added", "first"},
             Step(c, from, to), from # to,
             stateListeners' = stateListeners \cup {c},
             reloadListeners' = IF to = "first" THEN reloadListeners \cup {c} ELSE reloadListeners
      PROVE  TabInv'
  <2>1. /\ h' \in [Conns -> HandlerPcs] /\ h[c] = from /\ h'[c] = to
        /\ \A d \in Conns : d # c => h'[d] = h[d]
    BY <1>2, StepOf DEF Inv, HandlerPcs
  <2>2. TabTypeOK'
    BY <1>1, <1>2, <2>1 DEF Inv, TabInv, TabTypeOK, Listening, envVars, tabVars
  <2>3. ConnInv'
    BY <1>1, <1>2, <2>1 DEF Inv, TabInv, ConnInv, tabVars
  <2>4. FreshInv'
    BY <1>1, <1>2, <2>1 DEF Inv, TabInv, TabTypeOK, ConnInv, FreshInv, tabVars, envVars
  <2>. QED  BY <2>2, <2>3, <2>4 DEF TabInv
<1>3. CASE Step(c, "upgraded", "added") /\ stateListeners' = stateListeners \cup {c}
           /\ UNCHANGED reloadListeners
  BY <1>1, <1>2, <1>3 DEF Inv
<1>4. CASE Step(c, "added", "first") /\ reloadListeners' = reloadListeners \cup {c}
           /\ UNCHANGED stateListeners
  <2>1. stateListeners' = stateListeners \cup {c}
    BY <1>4 DEF Step, Inv, TabInv, TabTypeOK, Listening
  <2>. QED  BY <1>1, <1>2, <1>4, <2>1 DEF Inv
<1>. QED  BY <1>1, <1>3, <1>4 DEF Inv, AddListeners

\* The handler of a tab that shows the current state begins to wait.
LEMMA WaitStep ==
  ASSUME Inv, NEW c \in Conns, Wait(c)
  PROVE  Inv'
<1>1. /\ ProxyInv' /\ Current' = Current
      /\ UNCHANGED <<rpc, envVars, stateListeners, reloadListeners, inbox, tabVars>>
  BY ProxyUnchanged DEF Inv, Wait, proxyVars, requestVars
<1>2. /\ h' \in [Conns -> HandlerPcs] /\ h[c] \in {"first", "loop"} /\ h'[c] = "select"
      /\ \A d \in Conns : d # c => h'[d] = h[d]
  BY StepOf DEF Inv, HandlerPcs, Wait
<1>3. /\ fresh \subseteq fresh' /\ fresh' \subseteq fresh \cup {c}
      /\ c \in fresh' /\ c \notin fresh =>
           \E t \in Clients : conn[t] = c /\ page[t].shows = Current
      /\ h[c] = "loop" => fresh' = fresh
  BY <1>2 DEF Wait
<1>4. TabTypeOK'
  BY <1>1, <1>2, <1>3 DEF Inv, TabInv, TabTypeOK, Listening, envVars, tabVars
<1>5. ConnInv'
  BY <1>1, <1>2, <1>3 DEF Inv, TabInv, ConnInv, tabVars
<1>6. FreshInv'
  <2> SUFFICES ASSUME NEW t \in Clients, conn[t] \in fresh'
               PROVE  LET told == conn[t] \in inbox \/ rpc[t] # "none" IN
                      /\ h'[conn[t]] = "select" => page[t].shows = Current \/ announce \/ told
                      /\ h'[conn[t]] = "loop" => told
    BY <1>1 DEF FreshInv, tabVars, envVars
  <2>1. CASE conn[t] # c
    BY <1>2, <1>3, <2>1 DEF Inv, TabInv, ConnInv, FreshInv
  <2>2. CASE conn[t] = c /\ h[c] = "first"
    <3>1. c \notin fresh
      BY <2>2 DEF Inv, TabInv, ConnInv
    <3>2. PICK u \in Clients : conn[u] = c /\ page[u].shows = Current
      BY <3>1, <2>2, <1>3
    <3>3. u = t
      BY <3>2, <2>2, Numbers DEF Inv, TabInv, ConnInv
    <3>. QED  BY <3>2, <3>3, <2>2, <1>2
  <2>3. CASE conn[t] = c /\ h[c] = "loop"
    BY <1>2, <1>3, <2>3 DEF Inv, TabInv, FreshInv
  <2>. QED  BY <1>2, <2>1, <2>2, <2>3
<1>. QED  BY <1>1, <1>4, <1>5, <1>6 DEF Inv, TabInv

LEMMA CancelledStep ==
  ASSUME Inv, NEW c \in Conns, Cancelled(c)
  PROVE  Inv'
<1>1. /\ ProxyInv' /\ Current' = Current
      /\ UNCHANGED <<rpc, envVars, stateListeners, reloadListeners, inbox, fresh, tabVars>>
  BY ProxyUnchanged DEF Inv, Cancelled, proxyVars, requestVars
<1>2. /\ h' \in [Conns -> HandlerPcs] /\ h[c] = "select" /\ h'[c] = "leave"
      /\ \A d \in Conns : d # c => h'[d] = h[d]
  BY StepOf DEF Inv, HandlerPcs, Cancelled
<1>3. TabTypeOK'
  BY <1>1, <1>2 DEF Inv, TabInv, TabTypeOK, Listening, envVars, tabVars
<1>4. ConnInv' /\ FreshInv'
  BY <1>1, <1>2 DEF Inv, TabInv, TabTypeOK, ConnInv, FreshInv, tabVars, envVars
<1>. QED  BY <1>1, <1>3, <1>4 DEF Inv, TabInv

\* The message that is written makes the tab load its page again: its connection is
\* not a broken one.
LEMMA WriteStep ==
  ASSUME Inv, NEW c \in Conns, WriteWSMsg(c)
  PROVE  Inv'
<1>1. /\ ProxyInv' /\ Current' = Current
      /\ UNCHANGED <<rpc, envVars, stateListeners, reloadListeners, fresh, tabVars>>
  BY ProxyUnchanged DEF Inv, WriteWSMsg, proxyVars, requestVars
<1>2. /\ h' \in [Conns -> HandlerPcs] /\ h[c] = "write" /\ h'[c] \in {"loop", "leave"}
      /\ \A d \in Conns : d # c => h'[d] = h[d]
      /\ inbox' = IF h'[c] = "loop" THEN inbox \cup ({c} \ broken) ELSE inbox
  BY StepOf DEF Inv, HandlerPcs, WriteWSMsg
<1>3. TabTypeOK'
  BY <1>1, <1>2 DEF Inv, TabInv, TabTypeOK, Listening, envVars, tabVars
<1>4. ConnInv'
  BY <1>1, <1>2 DEF Inv, TabInv, ConnInv, tabVars
<1>5. FreshInv'
  <2>1. \A t \in Clients : conn[t] = c => c \notin broken
    BY DEF Inv, TabInv, ConnInv
  <2>. QED  BY <1>1, <1>2, <2>1 DEF Inv, TabInv, TabTypeOK, FreshInv, tabVars, envVars
<1>. QED  BY <1>1, <1>3, <1>4, <1>5 DEF Inv, TabInv

LEMMA LeaveStep ==
  ASSUME Inv, NEW c \in Conns, Leave(c)
  PROVE  Inv'
<1>1. /\ ProxyInv' /\ Current' = Current
      /\ UNCHANGED <<rpc, envVars, inbox, page, ws, conn, overlay>>
  BY ProxyUnchanged DEF Inv, Leave, proxyVars, requestVars
<1>2. CASE /\ Step(c, "leave", "left") /\ stateListeners' = stateListeners \ {c}
           /\ UNCHANGED <<reloadListeners, broken, fresh>>
  <2>1. /\ h' \in [Conns -> HandlerPcs] /\ h[c] = "leave" /\ h'[c] = "left"
        /\ \A d \in Conns : d # c => h'[d] = h[d]
    BY <1>2, StepOf DEF Inv, HandlerPcs
  <2>2. TabTypeOK'
    BY <1>1, <1>2, <2>1 DEF Inv, TabInv, TabTypeOK, Listening, envVars
  <2>3. ConnInv' /\ FreshInv'
    BY <1>1, <1>2, <2>1 DEF Inv, TabInv, TabTypeOK, ConnInv, FreshInv, envVars
  <2>. QED  BY <1>1, <2>2, <2>3 DEF Inv, TabInv
<1>3. CASE /\ Step(c, "left", "none") /\ reloadListeners' = reloadListeners \ {c}
           /\ broken' = broken \ {c} /\ fresh' = fresh \ {c} /\ UNCHANGED stateListeners
  <2>1. /\ h' \in [Conns -> HandlerPcs] /\ h[c] = "left" /\ h'[c] = "none"
        /\ \A d \in Conns : d # c => h'[d] = h[d]
    BY <1>3, StepOf DEF Inv, HandlerPcs
  <2>2. TabTypeOK'
    BY <1>1, <1>3, <2>1 DEF Inv, TabInv, TabTypeOK, Listening, envVars
  <2>3. ConnInv' /\ FreshInv'
    BY <1>1, <1>3, <2>1 DEF Inv, TabInv, TabTypeOK, ConnInv, FreshInv, envVars
  <2>. QED  BY <1>1, <2>2, <2>3 DEF Inv, TabInv
<1>. QED  BY <1>1, <1>2, <1>3 DEF Inv, Leave

-----------------------------------------------------------------------------
(* Steps of the browser *)

LEMMA LoadStep ==
  ASSUME Inv, NEW t \in Clients, Load(t)
  PROVE  Inv'
<1>1. ProxyInv' /\ Current' = Current
  BY SendStep DEF Inv, Load, Current, appVars
<1>2. /\ \A u \in Clients : rpc[u] # "none" => rpc'[u] # "none"
      /\ UNCHANGED <<envVars, connVars, tabVars>>
  BY DEF Inv, ProxyInv, ProxyTypeOK, Load, Send
<1>3. TabTypeOK' /\ ConnInv' /\ FreshInv'
  BY <1>1, <1>2 DEF Inv, TabInv, TabTypeOK, ConnInv, FreshInv, envVars, connVars, tabVars
<1>. QED  BY <1>1, <1>3 DEF Inv, TabInv

LEMMA ServeStep ==
  ASSUME Inv, NEW t \in Clients, ServeHTTP(t)
  PROVE  Inv'
<1>1. ProxyInv' /\ \A u \in Clients : rpc[u] # "none" => rpc'[u] # "none"
  BY RequestSteps DEF Inv, ServeHTTP
<1>2. Current' = Current /\ UNCHANGED <<envVars, connVars, tabVars>>
  BY DEF ServeHTTP, RequestStep, Decide, ReadEntry, Attempt, Receive, Modify, Inject, Current,
         appVars
<1>3. TabTypeOK' /\ ConnInv' /\ FreshInv'
  BY <1>1, <1>2 DEF Inv, TabInv, TabTypeOK, ConnInv, FreshInv, envVars, connVars, tabVars
<1>. QED  BY <1>1, <1>3 DEF Inv, TabInv

\* A connection that is closed is nobody's.
LEMMA ShowStep ==
  ASSUME Inv, NEW t \in Clients, Show(t)
  PROVE  Inv'
<1> DEFINE script == answer[t].script \/ shape[t].bodiless
           shown == [answer[t] EXCEPT !.script = script]
<1>1. ProxyInv'
  <2>1. RequestInv(t)' /\ PageTruthful(t)'
    BY DEF Inv, ProxyInv, ProxyTypeOK, Show, Goto, RequestInv, PageTruthful
  <2>2. /\ "none" \in Rpcs /\ NoShape \in Shapes \cup {NoShape} /\ spare' \in Tags
        /\ {} \in SUBSET Entries /\ {} \in SUBSET {} /\ Nothing \in Answers(Versions)
        /\ 0 \in 0..LastIndex \cup 0..MaxRetries /\ ProxyInv
    BY AnswerTypes, Numbers DEF Inv, ProxyInv, ProxyTypeOK, Rpcs, Show
  <2>3. /\ rpc' = [rpc EXCEPT ![t] = "none"] /\ at' = [at EXCEPT ![t] = 0]
        /\ shape' = [shape EXCEPT ![t] = NoShape] /\ answer' = [answer EXCEPT ![t] = Nothing]
        /\ stood' = [stood EXCEPT ![t] = {}] /\ lasted' = [lasted EXCEPT ![t] = {}]
        /\ UNCHANGED <<errMsgBuffer, appVars>>
    BY DEF Show, Goto
  <2>. QED  BY <2>1, <2>2, <2>3, OneRequest, Zenon
<1>2. /\ page' = [page EXCEPT ![t] = shown]
      /\ ws' = [ws EXCEPT ![t] = IF script THEN "connect" ELSE "off"]
      /\ broken' = broken \cup {c \in Conns : c = conn[t] /\ h[c] # "none"}
      /\ inbox' = inbox \ {conn[t]} /\ conn' = [conn EXCEPT ![t] = NoConn]
      /\ overlay' = [overlay EXCEPT ![t] = FALSE]
      /\ UNCHANGED <<envVars, h, stateListeners, reloadListeners, fresh>>
  BY DEF Show
<1>3. Current' = Current /\ \A u \in Clients : u # t => rpc'[u] = rpc[u]
  BY DEF Inv, ProxyInv, ProxyTypeOK, Show, Goto, Current, appVars
<1>4. shown \in Answers(Versions)
  <2>1. answer[t] \in Answers(Versions) /\ shape[t] \in Shapes \cup {NoShape}
    BY DEF Inv, ProxyInv, ProxyTypeOK, Versions
  <2>2. script \in BOOLEAN
    OBVIOUS
  <2> HIDE DEF script
  <2>. QED  BY <2>1, <2>2, AnswerTypes, ShownSets
<1> HIDE DEF shown, script
<1>5. TabTypeOK'
  BY <1>2, <1>4 DEF Inv, TabInv, TabTypeOK, envVars, Versions
<1>6. conn' \in [Clients -> Conns \cup {NoConn}] /\ conn'[t] = NoConn
      /\ \A u \in Clients : u # t => conn'[u] = conn[u] /\ page'[u] = page[u]
  BY <1>2 DEF Inv, TabInv, TabTypeOK
<1>7. \A u \in Clients : u # t /\ conn[u] # NoConn => conn[u] # conn[t]
  BY DEF Inv, TabInv, ConnInv
<1>8. ConnInv'
  BY <1>2, <1>6, <1>7, Numbers DEF Inv, TabInv, TabTypeOK, ConnInv
<1>9. FreshInv'
  <2>1. NoConn \notin fresh
    BY Numbers DEF Inv, TabInv, ConnInv
  <2>. QED  BY <1>2, <1>3, <1>6, <1>7, <2>1 DEF Inv, TabInv, FreshInv, envVars
<1>. QED  BY <1>1, <1>5, <1>8, <1>9 DEF Inv, TabInv

LEMMA ConnectStep ==
  ASSUME Inv, NEW t \in Clients, Connect(t)
  PROVE  Inv'
<1>1. /\ ProxyInv' /\ Current' = Current
      /\ \A u \in Clients : rpc[u] # "none" => rpc'[u] # "none"
  <2>1. CASE overlay[t]
    BY <2>1, SendStep DEF Inv, ProxyInv, ProxyTypeOK, Connect, Send, Current, appVars
  <2>2. CASE ~overlay[t]
    BY <2>2, ProxyUnchanged DEF Inv, Connect, proxyVars, requestVars
  <2>. QED  BY <2>1, <2>2
<1>2. PICK c \in Conns : /\ \A u \in Clients : conn[u] # c
                         /\ conn' = [conn EXCEPT ![t] = c] /\ Step(c, "none", "upgraded")
  BY DEF Connect
<1>3. /\ h' \in [Conns -> HandlerPcs] /\ h[c] = "none" /\ h'[c] = "upgraded"
      /\ \A d \in Conns : d # c => h'[d] = h[d]
  BY <1>2, StepOf DEF Inv, HandlerPcs
<1>4. /\ ws' = [ws EXCEPT ![t] = "open"]
      /\ UNCHANGED <<envVars, stateListeners, reloadListeners, inbox, fresh, broken, page, overlay>>
  BY DEF Connect
<1>5. conn'[t] = c /\ c # NoConn /\ \A u \in Clients : u # t => conn'[u] = conn[u]
  BY <1>2, Numbers DEF Inv, TabInv, TabTypeOK
<1>6. TabTypeOK'
  BY <1>2, <1>3, <1>4, <1>5 DEF Inv, TabInv, TabTypeOK, Listening, envVars
<1>7. ConnInv'
  BY <1>2, <1>3, <1>4, <1>5 DEF Inv, TabInv, ConnInv
<1>8. FreshInv'
  <2>1. c \notin fresh
    BY <1>3 DEF Inv, TabInv, ConnInv
  <2>. QED  BY <1>1, <1>2, <1>3, <1>4, <1>5, <2>1 DEF Inv, TabInv, ConnInv, FreshInv, envVars
<1>. QED  BY <1>1, <1>6, <1>7, <1>8 DEF Inv, TabInv

LEMMA OnCloseStep ==
  ASSUME Inv, NEW t \in Clients, OnClose(t)
  PROVE  Inv'
<1>1. /\ ProxyInv' /\ Current' = Current
      /\ UNCHANGED <<rpc, envVars, connVars, broken, page>>
      /\ ws' = [ws EXCEPT ![t] = "connect"] /\ conn' = [conn EXCEPT ![t] = NoConn]
      /\ overlay' = [overlay EXCEPT ![t] = TRUE]
  BY ProxyUnchanged DEF Inv, OnClose, proxyVars, requestVars
<1>2. conn'[t] = NoConn /\ \A u \in Clients : u # t => conn'[u] = conn[u]
  BY <1>1 DEF Inv, TabInv, TabTypeOK
<1>3. TabTypeOK'
  BY <1>1 DEF Inv, TabInv, TabTypeOK, envVars, connVars
<1>4. ConnInv' /\ FreshInv'
  <2>1. NoConn \notin fresh /\ NoConn \notin broken
    BY Numbers DEF Inv, TabInv, TabTypeOK
  <2>. QED  BY <1>1, <1>2, <2>1 DEF Inv, TabInv, ConnInv, FreshInv, envVars, connVars
<1>. QED  BY <1>1, <1>3, <1>4 DEF Inv, TabInv

LEMMA OnMessageStep ==
  ASSUME Inv, NEW t \in Clients, OnMessage(t)
  PROVE  Inv'
<1>1. ProxyInv' /\ Current' = Current
  BY SendStep DEF Inv, OnMessage, Current, appVars
<1>2. /\ rpc'[t] = "decide" /\ \A u \in Clients : u # t => rpc'[u] = rpc[u]
      /\ inbox' = inbox \ {conn[t]}
      /\ UNCHANGED <<envVars, h, stateListeners, reloadListeners, fresh, tabVars>>
  BY DEF Inv, ProxyInv, ProxyTypeOK, OnMessage, Send
<1>3. TabTypeOK' /\ ConnInv'
  BY <1>2 DEF Inv, TabInv, TabTypeOK, ConnInv, envVars, tabVars
<1>4. FreshInv'
  <2>1. \A u \in Clients : u # t /\ conn[u] \in fresh => conn[u] # conn[t]
    BY Numbers DEF Inv, TabInv, TabTypeOK, ConnInv
  <2>. QED  BY <1>1, <1>2, <2>1 DEF Inv, TabInv, FreshInv, envVars, tabVars
<1>. QED  BY <1>1, <1>3, <1>4 DEF Inv, TabInv

-----------------------------------------------------------------------------
(* The theorems. *)

LEMMA Initially ==
  ASSUME Init
  PROVE  Inv
<1> USE DEF Init, ProxyInit
<1>1. ProxyTypeOK(Versions)
  <2>1. /\ at \in [Clients -> 0..LastIndex \cup 0..MaxRetries] /\ appVer \in Versions
    BY Numbers DEF Versions
  <2>2. /\ shape \in [Clients -> Shapes \cup {NoShape}]
        /\ answer \in [Clients -> Answers(Versions)]
    BY AnswerTypes
  <2>. QED  BY <2>1, <2>2 DEF ProxyTypeOK, Rpcs, Tags
<1>2. RequestsInv /\ ErrorPageTruthful
  BY DEF RequestsInv, RequestInv, ErrorPageTruthful, PageTruthful
<1>3. TabTypeOK
  <2>1. page \in [Clients -> Answers(Versions)]
    BY AnswerTypes
  <2>2. /\ h \in [Conns -> HandlerPcs]
        /\ {c \in Conns : h[c] \in Listening} = {}
        /\ {c \in Conns : h[c] \in (Listening \ {"added"}) \cup {"left"}} = {}
    BY DEF HandlerPcs, Listening
  <2>3. /\ ws \in [Clients -> {"off", "connect", "open"}]
        /\ conn \in [Clients -> Conns \cup {NoConn}] /\ overlay \in [Clients -> BOOLEAN]
        /\ \A t \in Clients : conn[t] # NoConn <=> ws[t] = "open"
    OBVIOUS
  <2>4. stops \in 0..MaxStops /\ changes \in 0..MaxChanges
    BY Numbers
  <2>. QED  BY <2>1, <2>2, <2>3, <2>4 DEF TabTypeOK, Versions
<1>4. ConnInv /\ FreshInv
  BY Numbers DEF ConnInv, FreshInv
<1>. QED  BY <1>1, <1>2, <1>3, <1>4 DEF Inv, ProxyInv, TabInv, Versions

LEMMA Unchanged ==
  ASSUME Inv, UNCHANGED vars
  PROVE  Inv'
<1>1. ProxyInv' /\ Current' = Current
  BY ProxyUnchanged DEF Inv, vars
<1>2. TabTypeOK' /\ ConnInv' /\ FreshInv'
  BY <1>1 DEF Inv, TabInv, TabTypeOK, ConnInv, FreshInv, vars, envVars, connVars, tabVars,
              proxyVars, requestVars
<1>. QED  BY <1>1, <1>2 DEF Inv, TabInv

LEMMA NextStep ==
  ASSUME Inv, Next
  PROVE  Inv'
<1>1. ASSUME NEW c \in Conns, HandlerStep(c) PROVE Inv'
  BY <1>1, AddListenersStep, WaitStep, CancelledStep, WriteStep, LeaveStep DEF HandlerStep
<1>2. ASSUME NEW t \in Clients, Load(t) \/ TabStep(t) PROVE Inv'
  BY <1>2, LoadStep, ServeStep, ShowStep, ConnectStep, OnCloseStep, OnMessageStep DEF TabStep
<1>. QED  BY <1>1, <1>2, SetEntryStep, StopAppStep, StartAppStep, AnnounceStep, StopStep,
             StartStep DEF Next

\* The invariant that the results below rest on.
THEOREM TabsInvariant == Spec => []Inv
<1>1. Inv /\ [Next]_vars => Inv'
  BY NextStep, Unchanged
<1>. QED  BY <1>1, Initially, PTL DEF Spec

\* The types, and that the sets of listeners are what the handlers' progress says.
THEOREM TabsTypeCorrect == Spec => []TypeOK
<1>1. Inv => TypeOK
  BY DEF Inv, ProxyInv, TabInv, TypeOK
<1>. QED  BY <1>1, TabsInvariant, PTL

\* An error page tells no error that did not stand while it was put together, and
\* misses none that stood all the time (newReports), whatever is set meanwhile.
THEOREM ErrorPagesAreTruthful == Spec => []ErrorPageTruthful
<1>1. Inv => ErrorPageTruthful
  BY DEF Inv, ProxyInv
<1>. QED  BY <1>1, TabsInvariant, PTL

\* Whatever responses the app gives, a client sees 502 exactly after the last of the
\* attempts, or for an answer with headers only that is said to be packed and is not
\* passed on (modifyResponse, RoundTrip).
THEOREM NoErrorFromResponse == Spec => []BadGatewayExplained
<1>1. Inv => BadGatewayExplained
  BY DEF Inv, ProxyInv, RequestsInv, RequestInv, BadGatewayExplained
<1>. QED  BY <1>1, TabsInvariant, PTL

\* A tab that was current when its handler began to wait is current whenever nothing
\* is under way, whatever notifications were lost (handleProxyEvents).
THEOREM TabsStayCurrent == Spec => []ConnectedTabCurrent
<1>1. Inv => ConnectedTabCurrent
  BY DEF Inv, TabInv, FreshInv, ConnectedTabCurrent, Quiet
<1>. QED  BY <1>1, TabsInvariant, PTL
=============================================================================
