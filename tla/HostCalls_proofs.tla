-------------------------- MODULE HostCalls_proofs --------------------------
(***************************************************************************)
(* Proofs about HostCalls for every set of pages and every bound: an answer*)
(* is the one the guest waits for, and every envelope that was signed is a *)
(* beginning of what the mission has done.                                 *)
(***************************************************************************)
EXTENDS HostCalls, FiniteSetTheorems, SequenceTheorems, TLAPS

Place == {"running", "http", "http_sent", "tcp", "tcp_sent", "ai", "ai_sent",
          "navigate", "loading", "act", "acting"}
Guests == [at : Place, call : 0..MaxCalls, page : Page \cup {None}, last : 0..MaxCalls]

(* The calls: a call that is under way is later than the last answer, and the
   guest has read no answer later than that. *)
CallInv ==
    /\ guest \in Guests
    /\ pending \in 0..MaxCalls
    /\ reads \in Seq(1..MaxCalls)
    /\ guest.last <= guest.call
    /\ guest.at # "running" => guest.last < guest.call
    /\ AnswersAreCurrent

-----------------------------------------------------------------------------
(* The calls.  What a step makes of guest, pending and reads. *)
CallSame == UNCHANGED <<guest, pending, reads>>
Moves(at, p) ==
    /\ guest.at # "running"
    /\ guest' = [guest EXCEPT !.at = at, !.page = p]
    /\ UNCHANGED <<pending, reads>>

LEMMA Bounded == MaxCalls \in Nat /\ MaxRedirects \in Nat /\ MaxEvents \in Nat /\ None \notin Page
  BY HostCallAssumption

LEMMA Fields ==
    ASSUME CallInv
    PROVE  /\ guest.at \in Place /\ guest.call \in 0..MaxCalls
           /\ guest.page \in Page \cup {None} /\ guest.last \in 0..MaxCalls
  BY DEF CallInv, Guests

LEMMA Reads ==
    ASSUME CallInv
    PROVE  /\ Len(reads) \in Nat
           /\ \A i \in 1..Len(reads) : reads[i] \in Int /\ reads[i] <= guest.last
<1>1. reads \in Seq(1..MaxCalls)
  BY DEF CallInv
<1>2. \A i \in 1..Len(reads) : reads[i] \in 1..MaxCalls
  BY <1>1, ElementOfSeq
<1>3. \A i \in 1..Len(reads) : reads[i] <= guest.last
  BY DEF CallInv, AnswersAreCurrent
<1> QED
  BY <1>1, <1>2, <1>3, LenProperties

LEMMA MovesCall ==
    ASSUME CallInv, NEW at \in Place, NEW p \in Page \cup {None}, Moves(at, p)
    PROVE  CallInv'
<1>1. /\ guest' \in Guests /\ guest'.at = at /\ guest'.call = guest.call
      /\ guest'.last = guest.last
  BY Fields DEF CallInv, Moves, Guests
<1> QED
  BY <1>1, Fields DEF CallInv, Moves, AnswersAreCurrent

LEMMA RejectedCall ==
    ASSUME CallInv, CallRejected
    PROVE  CallInv'
<1>1. guest.call + 1 \in 0..MaxCalls
  BY Fields, Bounded DEF CallRejected
<1>2. /\ guest' \in Guests /\ guest'.at = guest.at /\ guest'.call = guest.call + 1
      /\ guest'.last = guest.last /\ pending' = pending /\ reads' = reads
  BY <1>1, Fields DEF CallInv, CallRejected, Guests
<1> QED
  BY <1>2, Fields, Bounded DEF CallInv, CallRejected, AnswersAreCurrent

LEMMA EnterCall ==
    ASSUME CallInv, NEW at \in Place, Enter(at)
    PROVE  CallInv'
<1>1. guest.call + 1 \in 0..MaxCalls
  BY Fields, Bounded DEF Enter
<1>2. /\ guest' \in Guests /\ guest'.at = at /\ guest'.call = guest.call + 1
      /\ guest'.last = guest.last /\ pending' = pending /\ reads' = reads
  BY <1>1, Fields DEF CallInv, Enter, Guests
<1> QED
  BY <1>2, Fields, Bounded DEF CallInv, Enter, AnswersAreCurrent

(* An answer: the guest runs again, and nothing it has read is as late. *)
LEMMA AnswerCall ==
    ASSUME CallInv, NEW n \in 1..MaxCalls, guest.last < n,
           guest' \in Guests, guest'.at = "running", guest'.call = n, guest'.last = n,
           pending' = n, reads' = reads
    PROVE  CallInv'
<1>1. \A i \in 1..Len(reads) : reads[i] < n /\ reads[i] <= n
  BY Reads, Fields
<1>2. \A i, j \in 1..Len(reads) : i < j => reads[i] < reads[j]
  BY DEF CallInv, AnswersAreCurrent
<1>3. AnswersAreCurrent'
  BY <1>1, <1>2 DEF AnswersAreCurrent
<1> QED
  BY <1>3, Fields, Bounded DEF CallInv

LEMMA ReturnCall ==
    ASSUME CallInv, Return, guest.at # "running"
    PROVE  CallInv'
<1>1. guest.last < guest.call /\ guest.call \in 1..MaxCalls
  BY Fields, Bounded DEF CallInv
<1>2. /\ guest' \in Guests /\ guest'.at = "running" /\ guest'.call = guest.call
      /\ guest'.last = guest.call
  BY <1>1, Fields DEF CallInv, Return, Guests, Place
<1> QED
  BY <1>1, <1>2, AnswerCall DEF Return, Answer

LEMMA UndecodedCall ==
    ASSUME CallInv, Undecoded
    PROVE  CallInv'
<1>1. guest.last < guest.call + 1 /\ guest.call + 1 \in 1..MaxCalls
  BY Fields, Bounded DEF CallInv, Undecoded
<1> DEFINE n == guest.call + 1
<1>2. guest' = [guest EXCEPT !.call = n, !.last = n] /\ guest.at = "running"
      /\ pending' = n /\ reads' = reads
  BY DEF Undecoded, Answer
<1>3. n \in 1..MaxCalls /\ n \in 0..MaxCalls /\ guest.last < n
  BY <1>1
<1> HIDE DEF n
<1>4. guest' \in Guests /\ guest'.at = "running" /\ guest'.call = n /\ guest'.last = n
  BY <1>2, <1>3 DEF CallInv, Guests
<1> QED
  BY <1>2, <1>3, <1>4, AnswerCall

LEMMA ReadCall ==
    ASSUME CallInv, ReadResponse
    PROVE  CallInv'
<1> DEFINE k == Len(reads)
<1>1. pending \in 1..MaxCalls /\ pending = guest.last /\ reads \in Seq(1..MaxCalls)
  BY Bounded DEF CallInv, ReadResponse, AnswersAreCurrent
<1>8. reads' = Append(reads, pending) /\ pending # 0
  BY DEF ReadResponse
<1>9. \A i \in 1..k : reads[i] < pending /\ reads[i] \in Int
  BY <1>8, Reads DEF CallInv, AnswersAreCurrent
<1>2. /\ reads' \in Seq(1..MaxCalls) /\ Len(reads') = k + 1 /\ k \in Nat
      /\ \A i \in 1..k : reads'[i] = reads[i] /\ reads[i] < pending /\ reads[i] \in Int
      /\ reads'[k + 1] = pending
  BY <1>1, <1>8, <1>9, AppendProperties, LenProperties
<1>3. pending' = 0 /\ guest' = guest
  BY DEF ReadResponse
<1>4. \A i, j \in 1..k : i < j => reads[i] < reads[j]
  BY DEF CallInv, AnswersAreCurrent
<1> HIDE DEF k
<1>5. \A i, j \in 1..(k + 1) : i < j => reads'[i] < reads'[j]
  <2> SUFFICES ASSUME NEW i \in 1..(k + 1), NEW j \in 1..(k + 1), i < j
               PROVE  reads'[i] < reads'[j]
    OBVIOUS
  <2>1. i \in 1..k /\ (j \in 1..k \/ j = k + 1)
    BY <1>2
  <2> QED
    BY <1>2, <1>4, <2>1
<1>6. \A i \in 1..(k + 1) : reads'[i] <= pending
  <2> SUFFICES ASSUME NEW i \in 1..(k + 1)
               PROVE  reads'[i] <= pending
    OBVIOUS
  <2>1. i \in 1..k \/ i = k + 1
    BY <1>2
  <2> QED
    BY <1>1, <1>2, <2>1
<1>7. AnswersAreCurrent'
  BY <1>1, <1>2, <1>3, <1>5, <1>6 DEF AnswersAreCurrent
<1> QED
  BY <1>2, <1>3, <1>7, Bounded DEF CallInv

LEMMA AtCall ==
    ASSUME CallInv, NEW at \in Place, guest.at # "running",
           guest' = [guest EXCEPT !.at = at], UNCHANGED <<pending, reads>>
    PROVE  CallInv'
<1>1. /\ guest' \in Guests /\ guest'.at = at /\ guest'.call = guest.call
      /\ guest'.last = guest.last
  BY Fields DEF CallInv, Guests
<1> QED
  BY <1>1, Fields DEF CallInv, AnswersAreCurrent

-----------------------------------------------------------------------------
(* The browser: a closed page never opens again, and only open pages wait. *)
Sessions == [browser : {"none", "up", "lost"}, active : Page \cup {None},
             interceptor : Page \cup {None}]
BrowserInv ==
    /\ session \in Sessions
    /\ pages \subseteq Page /\ IsFiniteSet(pages)
    /\ gone \subseteq Page \ pages
    /\ paused \subseteq pages /\ stuck \subseteq pages
    /\ misled \in BOOLEAN
    /\ session.browser = "none" => pages = {} /\ gone = {}

(* The page a navigation works on is not a closed one. *)
LEMMA NavigatedPage == BrowserInv => NavigateIn \subseteq Page \ gone
  BY DEF BrowserInv, NavigateIn

LEMMA Paused == BrowserInv => IsFiniteSet(paused) /\ paused \subseteq Page
  BY FS_Subset DEF BrowserInv

LEMMA SessionFields ==
    ASSUME BrowserInv
    PROVE  /\ session.browser \in {"none", "up", "lost"}
           /\ session.active \in Page \cup {None} /\ session.interceptor \in Page \cup {None}
  BY DEF BrowserInv, Sessions

LEMMA WithActive ==
    ASSUME BrowserInv, NEW p \in Page \cup {None}
    PROVE  /\ [session EXCEPT !.active = p] \in Sessions
           /\ [session EXCEPT !.active = p].browser = session.browser
           /\ [session EXCEPT !.active = p].interceptor = session.interceptor
  BY DEF BrowserInv, Sessions

LEMMA InterceptType ==
    ASSUME NEW s \in Sessions, NEW p \in Page
    PROVE  Intercept(s, p) \in Sessions /\ Intercept(s, p).browser = s.browser
  BY DEF Intercept, Sessions

(* What a step may do to the pages of a browser that is up. *)
LEMMA PagesStep ==
    ASSUME BrowserInv, session' \in Sessions, session'.browser # "none",
           pages' \subseteq Page \ gone', IsFiniteSet(pages'), gone' \subseteq Page,
           paused' \subseteq pages', stuck' \subseteq pages', misled' \in BOOLEAN
    PROVE  BrowserInv'
  BY DEF BrowserInv

LEMMA NavigatePages ==
    ASSUME BrowserInv, Navigate
    PROVE  BrowserInv'
<1>1. PICK p \in NavigateIn :
        /\ session' = Intercept([session EXCEPT !.active = IF pages = {} THEN p ELSE @], p)
        /\ pages' = pages \cup {p} /\ paused' = paused \cup {p} /\ stuck' = stuck \ {p}
  BY DEF Navigate
<1>2. session.browser = "up" /\ gone' = gone /\ misled' = misled
  BY DEF Navigate
<1>3. p \in Page \ gone
  BY NavigatedPage
<1> DEFINE q == IF pages = {} THEN p ELSE session.active
<1>4. q \in Page \cup {None}
  BY <1>3, SessionFields
<1>5. session' = Intercept([session EXCEPT !.active = q], p)
  BY <1>1
<1> HIDE DEF q
<1>6. session' \in Sessions /\ session'.browser = "up"
  BY <1>2, <1>3, <1>4, <1>5, WithActive, InterceptType
<1>7. IsFiniteSet(pages') /\ pages' \subseteq Page \ gone /\ paused' \subseteq pages'
      /\ stuck' \subseteq pages'
  BY <1>1, <1>3, FS_AddElement DEF BrowserInv
<1> QED
  BY <1>2, <1>6, <1>7, PagesStep DEF BrowserInv

LEMMA ActPages ==
    ASSUME BrowserInv, Act
    PROVE  BrowserInv'
<1>1. PICK p \in (IF session.active # None THEN {session.active} \cap pages ELSE pages) :
        session' = Intercept([session EXCEPT !.active = p], p)
        \/ session' = [session EXCEPT !.active = p]
  BY DEF Act
<1>2. session.browser = "up" /\ UNCHANGED <<pages, paused, stuck, gone, misled>>
  BY DEF Act
<1>3. p \in Page
  BY <1>1 DEF BrowserInv
<1> DEFINE s == [session EXCEPT !.active = p]
<1>4. s \in Sessions /\ s.browser = "up" /\ (session' = s \/ session' = Intercept(s, p))
  BY <1>1, <1>2, <1>3, WithActive
<1> HIDE DEF s
<1>5. session' \in Sessions /\ session'.browser = "up"
  BY <1>3, <1>4, InterceptType
<1> QED
  BY <1>2, <1>5 DEF BrowserInv

LEMMA LaunchPages ==
    ASSUME BrowserInv, Launch
    PROVE  BrowserInv'
<1>1. PICK p \in Page : pages' \in {{}, {p}}
  BY DEF Launch
<1>2. /\ session' = [session EXCEPT !.browser = "up"] /\ session.browser = "none"
      /\ UNCHANGED <<paused, stuck, gone, misled>>
  BY DEF Launch
<1>3. pages = {} /\ gone = {} /\ paused = {} /\ stuck = {}
  BY <1>2 DEF BrowserInv
<1>4. session' \in Sessions /\ session'.browser = "up"
  BY <1>2 DEF BrowserInv, Sessions
<1>5. IsFiniteSet(pages') /\ pages' \subseteq Page
  BY <1>1, FS_EmptySet, FS_Singleton
<1> QED
  BY <1>2, <1>3, <1>4, <1>5 DEF BrowserInv

LEMMA ChangePages ==
    ASSUME BrowserInv, PagesChange
    PROVE  BrowserInv'
<1>1. /\ session.browser = "up" /\ gone' = gone \cup (pages \ pages')
      /\ paused' = paused \cap pages' /\ stuck' = stuck \cap pages' /\ misled' = misled
  BY DEF PagesChange
<1>2. session' \in Sessions /\ session'.browser # "none"
  BY <1>1 DEF PagesChange, BrowserInv, Sessions
<1>3. IsFiniteSet(pages') /\ pages' \subseteq Page \ gone'
  <2>1. CASE \E p \in Page \ (pages \cup gone) : pages' = pages \cup {p}
    BY <1>1, <2>1, FS_AddElement DEF BrowserInv
  <2>2. CASE pages' \subseteq pages
    BY <1>1, <2>2, FS_Subset DEF BrowserInv
  <2> QED
    BY <2>1, <2>2 DEF PagesChange
<1>4. gone' \subseteq Page
  BY <1>1 DEF BrowserInv
<1> QED
  BY <1>1, <1>2, <1>3, <1>4, PagesStep DEF BrowserInv

LEMMA BrowserStep == BrowserInv /\ [Next]_vars => BrowserInv'
<1> SUFFICES ASSUME BrowserInv, [Next]_vars
             PROVE  BrowserInv'
  OBVIOUS
<1>1. ASSUME UNCHANGED <<session, pages, gone, misled>>, paused' \subseteq pages,
             stuck' \subseteq pages
      PROVE  BrowserInv'
  BY <1>1 DEF BrowserInv
<1>2. paused \subseteq pages /\ stuck \subseteq pages
  BY DEF BrowserInv
<1>3. CASE CallRejected \/ Undecoded \/ ReadResponse \/ UseStore \/ \E v \in BOOLEAN : SetDisclosure(v)
  BY <1>1, <1>2, <1>3 DEF CallRejected, Undecoded, ReadResponse, UseStore, SetDisclosure, browserVars
<1>4. CASE \/ \E at \in {"http", "tcp"} : BeginNetwork(at)
           \/ SendHttp \/ Redirected \/ ConnectTcp \/ NetworkReturns
  BY <1>1, <1>2, <1>4 DEF BeginNetwork, SendHttp, Redirected, ConnectTcp, NetworkReturns, browserVars
<1>5. CASE BeginAi \/ RefuseAi \/ SendAi \/ AiAnswers \/ \E at \in {"navigate", "act"} : BeginBrowser(at)
  BY <1>1, <1>2, <1>5 DEF BeginAi, RefuseAi, SendAi, AiAnswers, BeginBrowser, browserVars
<1>6. CASE BrowserFails
  BY <1>6 DEF BrowserFails, BrowserInv
<1>7. CASE Navigated
  <2>1. /\ session' = [session EXCEPT !.active = guest.page] /\ guest.page \in Page
        /\ UNCHANGED <<pages, paused, stuck, gone, misled>>
    BY <1>7 DEF Navigated, BrowserInv
  <2>2. session' \in Sessions /\ session'.browser = session.browser
    BY <2>1, WithActive
  <2> QED
    BY <2>1, <2>2 DEF BrowserInv
<1>8. CASE Acted \/ InterceptorSigns \/ InterceptorReleases \/ InterceptorPasses \/ \E p \in Page : PageRequests(p)
  BY <1>1, <1>2, <1>8 DEF Acted, InterceptorSigns, InterceptorReleases, InterceptorPasses, PageRequests, Stuck
<1>9. CASE UNCHANGED vars
  BY <1>1, <1>2, <1>9 DEF vars
<1> QED
  BY <1>3, <1>4, <1>5, <1>6, <1>7, <1>8, <1>9, LaunchPages, NavigatePages, ActPages,
     ChangePages DEF Next

LEMMA CallStep == CallInv /\ BrowserInv /\ [Next]_vars => CallInv'
<1> SUFFICES ASSUME CallInv, BrowserInv, [Next]_vars
             PROVE  CallInv'
  OBVIOUS
<1>1. CallSame => CallInv'
  BY DEF CallSame, CallInv, AnswersAreCurrent
<1>2. CASE (\E v \in BOOLEAN : SetDisclosure(v)) \/ UseStore \/ InterceptorSigns \/ Redirected
           \/ InterceptorReleases \/ InterceptorPasses \/ (\E p \in Page : PageRequests(p)) \/ PagesChange \/ Launch
           \/ UNCHANGED vars
  BY <1>1, <1>2 DEF SetDisclosure, UseStore, InterceptorSigns, InterceptorReleases, InterceptorPasses, PageRequests,
                    PagesChange, Launch, Redirected, vars, CallSame
<1>3. CASE (\E at \in {"http", "tcp"} : BeginNetwork(at)) \/ BeginAi
           \/ \E at \in {"navigate", "act"} : BeginBrowser(at)
  BY <1>3, EnterCall DEF BeginNetwork, BeginAi, BeginBrowser, Place
<1>4. CASE NetworkReturns \/ RefuseAi
           \/ AiAnswers \/ BrowserFails \/ Navigated \/ Acted
  BY <1>4, ReturnCall DEF NetworkReturns, RefuseAi, AiAnswers, BrowserFails,
                          Navigated, Acted
<1>5. CASE SendHttp
  BY <1>5, AtCall DEF SendHttp, Place
<1>6. CASE ConnectTcp
  BY <1>6, AtCall DEF ConnectTcp, Place
<1>7. CASE SendAi
  BY <1>7, AtCall DEF SendAi, Place
<1>8. CASE Navigate
  <2>1. PICK p \in NavigateIn : guest' = [guest EXCEPT !.at = "loading", !.page = p]
    BY <1>8 DEF Navigate
  <2>2. p \in Page /\ "loading" \in Place
    BY NavigatedPage DEF Place
  <2> QED
    BY <1>8, <2>1, <2>2, MovesCall DEF Navigate, Moves
<1>9. CASE Act
  <2>1. PICK p \in (IF session.active # None THEN {session.active} \cap pages ELSE pages) :
           \/ guest' = [guest EXCEPT !.at = "acting", !.page = p] /\ UNCHANGED <<pending, reads>>
           \/ Return
    BY <1>9 DEF Act
  <2>2. p \in Page /\ "acting" \in Place /\ guest.at # "running"
    BY <1>9, <2>1 DEF Place, BrowserInv, Act
  <2>3. CASE Return
    BY <2>2, <2>3, ReturnCall
  <2>4. CASE guest' = [guest EXCEPT !.at = "acting", !.page = p] /\ UNCHANGED <<pending, reads>>
    BY <2>2, <2>4, MovesCall DEF Moves
  <2> QED
    BY <2>1, <2>3, <2>4
<1> QED
  BY <1>2, <1>3, <1>4, <1>5, <1>6, <1>7, <1>8, <1>9, RejectedCall, UndecodedCall, ReadCall DEF Next

-----------------------------------------------------------------------------
(* What was recorded and signed. *)
Capabilities == {"network", "ai", "browser", "kv"}
Requests(log) == {i \in 1..Len(log) : log[i] \in Request}
CountOf(log) == Cardinality(Requests(log))
CapsOf(log) == {Capability[log[i]] : i \in 1..Len(log)}
Begins(s, log) == Len(s) <= Len(log) /\ \A i \in 1..Len(s) : s[i] = log[i]

(* A mission whose counter and capabilities are those of its log. *)
Consistent(m) == m \in Envelope /\ m.count = CountOf(m.log) /\ m.caps = CapsOf(m.log)

(* An envelope is the mission as it was at one of its requests. *)
Sound(e, log) ==
    /\ Consistent(e)
    /\ e.log # <<>> /\ e.log[Len(e.log)] \in Request
    /\ Begins(e.log, log)

(* m is the mission, h what the interceptor holds, S the requests sent. *)
SignedOf(m, h, S) ==
    /\ Consistent(m)
    /\ \A e \in h.env : Sound(e, m.log)
    /\ \A s \in S : \A e \in s.env : Sound(e, m.log)
    /\ \A r, s \in S : r # s => r.env \cap s.env = {} \/ (r.call = s.call /\ r.call # 0)
    /\ \A s \in S : s.env \cap h.env = {}

LEMMA Events ==
    /\ Event = {"http", "tcp", "unbound", "ai", "ai_refused", "browser_action",
                "browser_http", "kv"}
    /\ \A e \in Event : Capability[e] \in Capabilities
    /\ Request \subseteq Event
  BY DEF Event, Capability, Capabilities, Request

LEMMA EnvelopeFields ==
    ASSUME NEW m \in Envelope
    PROVE  /\ m.count \in Nat /\ m.log \in Seq(Event) /\ m.caps \subseteq Capabilities
           /\ m = [count |-> m.count, log |-> m.log, caps |-> m.caps]
  BY DEF Envelope, Capabilities

LEMMA LogCounts ==
    ASSUME NEW log \in Seq(Event)
    PROVE  /\ IsFiniteSet(Requests(log)) /\ CountOf(log) \in Nat
           /\ Len(log) \in Nat /\ Requests(log) \subseteq 1..Len(log)
<1>1. Len(log) \in Nat
  OBVIOUS
<1>2. IsFiniteSet(1..Len(log)) /\ Requests(log) \subseteq 1..Len(log)
  BY <1>1, FS_Interval DEF Requests
<1> QED
  BY <1>1, <1>2, FS_Subset, FS_CardinalityType DEF CountOf

LEMMA Appended ==
    ASSUME NEW log \in Seq(Event), NEW x \in Event
    PROVE  /\ Append(log, x) \in Seq(Event) /\ Len(Append(log, x)) = Len(log) + 1
           /\ Len(log) \in Nat
           /\ Append(log, x)[Len(log) + 1] = x
           /\ \A i \in 1..Len(log) : Append(log, x)[i] = log[i]
  BY AppendProperties

LEMMA AppendCount ==
    ASSUME NEW log \in Seq(Event), NEW x \in Event
    PROVE  /\ CountOf(Append(log, x)) = CountOf(log) + (IF x \in Request THEN 1 ELSE 0)
           /\ CapsOf(Append(log, x)) = CapsOf(log) \cup {Capability[x]}
<1> DEFINE n == Len(log)
           later == Append(log, x)
<1>1. /\ n \in Nat /\ Len(later) = n + 1 /\ later[n + 1] = x
      /\ \A i \in 1..n : later[i] = log[i]
  BY Appended
<1> HIDE DEF later, n
<1>2. 1..Len(later) = (1..n) \cup {n + 1} /\ n + 1 \notin 1..n
  BY <1>1
<1>3. Requests(later) = IF x \in Request THEN Requests(log) \cup {n + 1} ELSE Requests(log)
  BY <1>1, <1>2 DEF Requests, n
<1>4. IsFiniteSet(Requests(log)) /\ CountOf(log) \in Nat /\ n + 1 \notin Requests(log)
  BY <1>2, LogCounts DEF Requests, n
<1>5. CountOf(later) = CountOf(log) + (IF x \in Request THEN 1 ELSE 0)
  <2>1. Cardinality(Requests(log) \cup {n + 1}) = Cardinality(Requests(log)) + 1
    BY <1>4, FS_AddElement
  <2>2. CASE x \in Request
    BY <1>3, <2>1, <2>2 DEF CountOf
  <2>3. CASE x \notin Request
    BY <1>3, <1>4, <2>3 DEF CountOf
  <2> QED
    BY <2>2, <2>3
<1>6. CapsOf(later) = CapsOf(log) \cup {Capability[x]}
  BY <1>1, <1>2 DEF CapsOf, n
<1> QED
  BY <1>5, <1>6 DEF later

LEMMA RecordedFields ==
    ASSUME NEW m \in Envelope, NEW x \in Event
    PROVE  /\ Recorded(m, x) \in Envelope /\ Counted(m, x) \in Envelope
           /\ Recorded(m, x).log = Append(m.log, x) /\ Counted(m, x).log = Append(m.log, x)
           /\ Recorded(m, x).count = m.count /\ Counted(m, x).count = m.count + 1
           /\ Recorded(m, x).caps = m.caps \cup {Capability[x]}
           /\ Counted(m, x).caps = m.caps \cup {Capability[x]}
<1>1. Append(m.log, x) \in Seq(Event) /\ m.caps \cup {Capability[x]} \in SUBSET Capabilities
      /\ m.count \in Nat /\ m.count + 1 \in Nat
  BY EnvelopeFields, Events, Appended
<1> DEFINE l == Append(m.log, x)
           c == m.caps \cup {Capability[x]}
<1>2. Recorded(m, x) = [m EXCEPT !.log = l, !.caps = c]
  BY DEF Recorded
<1>3. Counted(m, x) = [Recorded(m, x) EXCEPT !.count = @ + 1]
  BY DEF Counted
<1>4. l \in Seq(Event) /\ c \in SUBSET Capabilities
  BY <1>1
<1> HIDE DEF l, c
<1>5. /\ Recorded(m, x) \in Envelope /\ Recorded(m, x).log = l /\ Recorded(m, x).caps = c
      /\ Recorded(m, x).count = m.count
  BY <1>2, <1>4 DEF Envelope, Capabilities
<1>6. /\ Counted(m, x) \in Envelope /\ Counted(m, x).log = l /\ Counted(m, x).caps = c
      /\ Counted(m, x).count = m.count + 1
  BY <1>1, <1>3, <1>5 DEF Envelope, Capabilities
<1> QED
  BY <1>5, <1>6 DEF l, c

LEMMA StaysConsistent ==
    ASSUME NEW m, Consistent(m), NEW x \in Event
    PROVE  /\ x \in Request => Consistent(Counted(m, x))
           /\ x \notin Request => Consistent(Recorded(m, x))
<1>1. m \in Envelope /\ m.log \in Seq(Event) /\ m.count = CountOf(m.log)
      /\ m.caps = CapsOf(m.log) /\ CountOf(m.log) \in Nat
  BY EnvelopeFields, LogCounts DEF Consistent
<1> DEFINE c == Counted(m, x)
           r == Recorded(m, x)
           l == Append(m.log, x)
<1>2. /\ c \in Envelope /\ c.log = l /\ c.count = m.count + 1
      /\ c.caps = m.caps \cup {Capability[x]}
      /\ r \in Envelope /\ r.log = l /\ r.count = m.count
      /\ r.caps = m.caps \cup {Capability[x]}
  BY <1>1, RecordedFields
<1>3. /\ CountOf(l) = CountOf(m.log) + (IF x \in Request THEN 1 ELSE 0)
      /\ CapsOf(l) = CapsOf(m.log) \cup {Capability[x]}
  BY <1>1, AppendCount
<1> HIDE DEF c, r, l
<1>4. x \in Request => Consistent(c)
  BY <1>1, <1>2, <1>3 DEF Consistent
<1>5. x \notin Request => Consistent(r)
  BY <1>1, <1>2, <1>3 DEF Consistent
<1> QED
  BY <1>4, <1>5 DEF c, r

LEMMA StaysSound ==
    ASSUME NEW m \in Envelope, NEW x \in Event, NEW e, Sound(e, m.log)
    PROVE  Sound(e, Append(m.log, x))
<1>1. m.log \in Seq(Event) /\ e.log \in Seq(Event)
  BY EnvelopeFields DEF Sound, Consistent
<1>2. Begins(e.log, m.log) /\ Len(e.log) \in Nat
  BY <1>1 DEF Sound
<1>3. Begins(e.log, Append(m.log, x))
  BY <1>1, <1>2, Appended DEF Begins
<1> QED
  BY <1>3 DEF Sound

(* The envelope of a request tells of it, and differs from all that were signed
   before, since it counts one more. *)
LEMMA ToldSound ==
    ASSUME NEW m, Consistent(m), NEW x \in Request
    PROVE  /\ Told(Counted(m, x)) = Counted(m, x)
           /\ Sound(Told(Counted(m, x)), Append(m.log, x))
<1>1. m \in Envelope /\ x \in Event /\ m.log \in Seq(Event)
  BY EnvelopeFields, Events DEF Consistent
<1> DEFINE c == Counted(m, x)
<1>2. c \in Envelope /\ c.log = Append(m.log, x) /\ Consistent(c)
  BY <1>1, RecordedFields, StaysConsistent
<1> HIDE DEF c
<1>3. Told(c) = c
  BY <1>2, EnvelopeFields DEF Told
<1>4. c.log # <<>> /\ c.log[Len(c.log)] \in Request /\ Begins(c.log, c.log)
  BY <1>1, <1>2, Appended, AppendProperties DEF Begins
<1> QED
  BY <1>2, <1>3, <1>4 DEF Sound, c

LEMMA SoundCount ==
    ASSUME NEW m, Consistent(m), NEW e, Sound(e, m.log)
    PROVE  e.count \in Nat /\ e.count <= m.count
<1>1. /\ e \in Envelope /\ m \in Envelope /\ e.log \in Seq(Event) /\ m.log \in Seq(Event)
      /\ e.count = CountOf(e.log) /\ m.count = CountOf(m.log) /\ Begins(e.log, m.log)
  BY EnvelopeFields DEF Sound, Consistent
<1>2. Len(e.log) \in Nat /\ Len(m.log) \in Nat
  BY <1>1
<1>3. Requests(e.log) \subseteq Requests(m.log)
  BY <1>1, <1>2 DEF Begins, Requests
<1>4. CountOf(e.log) <= CountOf(m.log)
  BY <1>1, <1>3, LogCounts, FS_Subset DEF CountOf
<1> QED
  BY <1>1, <1>4, LogCounts

(* Something is recorded, or counted without being held or sent. *)
LEMMA SignedRecord ==
    ASSUME NEW m, NEW h, NEW S, SignedOf(m, h, S), NEW x \in Event, NEW n,
           \/ x \notin Request /\ n = Recorded(m, x)
           \/ x \in Request /\ n = Counted(m, x)
    PROVE  SignedOf(n, h, S)
<1>1. Consistent(m) /\ m \in Envelope
  BY DEF SignedOf, Consistent
<1>2. Consistent(n)
  BY <1>1, StaysConsistent
<1>3. n.log = Append(m.log, x)
  BY <1>1, RecordedFields
<1>4. \A e : Sound(e, m.log) => Sound(e, n.log)
  BY <1>1, <1>3, StaysSound
<1> QED
  BY <1>2, <1>4 DEF SignedOf

(* What signed_envelope_for_request makes of m is one envelope or none. *)
LEMMA FreshEnvelope ==
    ASSUME NEW m, NEW h, NEW S, SignedOf(m, h, S), NEW x \in Request,
           NEW env \in SUBSET Envelopes(Counted(m, x))
    PROVE  /\ \A e \in env : Sound(e, Counted(m, x).log)
           /\ env \cap h.env = {} /\ \A s \in S : s.env \cap env = {}
<1> DEFINE t == Told(Counted(m, x))
<1>1. Consistent(m) /\ m \in Envelope /\ x \in Event
  BY Events DEF SignedOf, Consistent
<1>2. env \subseteq {t}
  BY DEF Envelopes
<1>3. Sound(t, Append(m.log, x)) /\ Counted(m, x).log = Append(m.log, x)
      /\ t.count = m.count + 1 /\ m.count \in Nat
  BY <1>1, ToldSound, RecordedFields, EnvelopeFields
<1> HIDE DEF t
<1>4. \A e : Sound(e, m.log) => e # t
  <2> SUFFICES ASSUME NEW e, Sound(e, m.log), e = t
               PROVE  FALSE
    OBVIOUS
  <2>1. e.count <= m.count /\ e.count \in Nat
    BY <1>1, SoundCount
  <2> QED
    BY <1>3, <2>1
<1>5. t \notin h.env /\ \A s \in S : t \notin s.env
  BY <1>4 DEF SignedOf
<1> QED
  BY <1>2, <1>3, <1>5

LEMMA SignedSend ==
    ASSUME NEW m, NEW h, NEW S, SignedOf(m, h, S), NEW x \in Request,
           NEW env \in SUBSET Envelopes(Counted(m, x)), NEW r, r.env = env
    PROVE  SignedOf(Counted(m, x), h, S \cup {r})
<1>1. SignedOf(Counted(m, x), h, S)
  BY SignedRecord, Events
<1>2. /\ \A e \in r.env : Sound(e, Counted(m, x).log)
      /\ r.env \cap h.env = {} /\ \A s \in S : s.env \cap r.env = {} /\ r.env \cap s.env = {}
  BY FreshEnvelope
<1> QED
  BY <1>1, <1>2 DEF SignedOf

LEMMA SignedHold ==
    ASSUME NEW m, NEW h, NEW S, SignedOf(m, h, S), NEW x \in Request,
           NEW env \in SUBSET Envelopes(Counted(m, x)), NEW g, g.env = env
    PROVE  SignedOf(Counted(m, x), g, S)
<1>1. SignedOf(Counted(m, x), h, S)
  BY SignedRecord, Events
<1>2. /\ \A e \in g.env : Sound(e, Counted(m, x).log)
      /\ \A s \in S : s.env \cap g.env = {}
  BY FreshEnvelope
<1> QED
  BY <1>1, <1>2 DEF SignedOf

LEMMA SignedRelease ==
    ASSUME NEW m, NEW h, NEW S, SignedOf(m, h, S), NEW r, r.env \in {h.env, {}},
           NEW g, g.env = {}
    PROVE  SignedOf(m, g, S) /\ SignedOf(m, g, S \cup {r})
<1>1. SignedOf(m, g, S)
  BY DEF SignedOf
<1>2. /\ \A e \in r.env : Sound(e, m.log)
      /\ \A s \in S : s.env \cap r.env = {} /\ r.env \cap s.env = {}
  BY DEF SignedOf
<1>3. SignedOf(m, g, S \cup {r})
  BY <1>1, <1>2 DEF SignedOf
<1> QED
  BY <1>1, <1>3

LEMMA SignedUnbound ==
    ASSUME NEW m, NEW h, NEW S, SignedOf(m, h, S), NEW x \in Event \ Request, NEW r, r.env = {}
    PROVE  SignedOf(Recorded(m, x), h, S \cup {r})
<1>1. SignedOf(Recorded(m, x), h, S)
  BY SignedRecord
<1> QED
  BY <1>1 DEF SignedOf

(* A redirect leaves with the envelope of its call. *)
LEMMA SignedAgain ==
    ASSUME NEW m, NEW h, NEW S, SignedOf(m, h, S), NEW r \in S, r.call # 0,
           NEW q, q.env = r.env, q.call = r.call
    PROVE  SignedOf(m, h, S \cup {q})
<1>1. \A e \in q.env : Sound(e, m.log)
  BY DEF SignedOf
<1>2. \A s \in S : /\ s.env \cap q.env = {} \/ (s.call = q.call /\ s.call # 0)
                   /\ q.env \cap s.env = {} \/ (q.call = s.call /\ q.call # 0)
  BY DEF SignedOf
<1>3. q.env \cap h.env = {}
  BY DEF SignedOf
<1> QED
  BY <1>1, <1>2, <1>3 DEF SignedOf

SignInv == SignedOf(mission, held, sent)

LEMMA SignStep == SignInv /\ CallInv /\ [Next]_vars => SignInv'
<1> SUFFICES ASSUME SignInv, CallInv, [Next]_vars
             PROVE  SignedOf(mission', held', sent')
  BY DEF SignInv
<1>1. SignedOf(mission, held, sent)
  BY DEF SignInv
<1>2. ASSUME NEW x \in Event \ Request, Record(x), UNCHANGED <<held, sent>>
      PROVE  SignedOf(mission', held', sent')
  BY <1>1, <1>2, SignedRecord DEF Record
<1>3. ASSUME NEW x \in Request, NEW env \in SUBSET Envelopes(Counted(mission, x)),
             Sign(x, env), Send(guest.call, env), held' = held
      PROVE  SignedOf(mission', held', sent')
  <2> DEFINE r == [call |-> guest.call, hop |-> 0, env |-> env]
  <2>1. mission' = Counted(mission, x) /\ sent' = sent \cup {r} /\ r.env = env
    BY <1>3 DEF Sign, Send
  <2> HIDE DEF r
  <2> QED
    BY <1>1, <1>3, <2>1, SignedSend
<1>4. CASE SendHttp
  <2>1. held' = held
    BY <1>4 DEF SendHttp, browserVars
  <2>2. CASE Record("unbound") /\ Send(guest.call, {})
    <3> DEFINE r == [call |-> guest.call, hop |-> 0, env |-> {}]
    <3>1. mission' = Recorded(mission, "unbound") /\ sent' = sent \cup {r} /\ r.env = {}
      BY <2>2 DEF Record, Send
    <3>2. "unbound" \in Event \ Request
      BY Events DEF Request
    <3> HIDE DEF r
    <3> QED
      BY <1>1, <2>1, <3>1, <3>2, SignedUnbound
  <2>3. "http" \in Request
    BY DEF Request
  <2> QED
    BY <1>3, <1>4, <2>1, <2>2, <2>3 DEF SendHttp
<1>5. CASE SendAi
  BY <1>3, <1>5 DEF SendAi, browserVars, Request
<1>6. CASE ConnectTcp \/ RefuseAi \/ UseStore \/ \E at \in {"navigate", "act"} : BeginBrowser(at)
  <2>1. {"tcp", "ai_refused", "kv", "browser_action"} \subseteq Event \ Request
    BY Events DEF Request
  <2> QED
    BY <1>2, <1>6, <2>1 DEF ConnectTcp, RefuseAi, UseStore, BeginBrowser, browserVars
<1>7. ASSUME UNCHANGED <<mission, held, sent>>
      PROVE  SignedOf(mission', held', sent')
  BY <1>1, <1>7
<1>8. CASE InterceptorSigns
  <2>1. sent' = sent /\ "browser_http" \in Request
    BY <1>8 DEF InterceptorSigns, Request
  <2>2. PICK env \in SUBSET Envelopes(Counted(mission, "browser_http")) :
              /\ Sign("browser_http", env)
              /\ held' = [page |-> session.interceptor, env |-> env]
    BY <1>8 DEF InterceptorSigns
  <2>3. mission' = Counted(mission, "browser_http") /\ held'.env = env
    BY <2>2 DEF Sign
  <2> QED
    BY <1>1, <2>1, <2>3, SignedHold
<1>9. CASE InterceptorReleases
  <2> DEFINE r == [call |-> 0, hop |-> 0, env |-> held.env]
  <2>1. /\ mission' = mission /\ held'.env = {} /\ r.env = held.env
        /\ sent' = sent \/ sent' = sent \cup {r}
    BY <1>9 DEF InterceptorReleases, Send, hostVars
  <2> HIDE DEF r
  <2>2. SignedOf(mission, held', sent) /\ SignedOf(mission, held', sent \cup {r})
    BY <1>1, <2>1, SignedRelease
  <2> QED
    BY <2>1, <2>2
<1>12. CASE Redirected
  <2>1. PICK r \in sent : r.call = guest.call /\ sent' = sent \cup {[r EXCEPT !.hop = @ + 1]}
    BY <1>12 DEF Redirected
  <2> DEFINE q == [r EXCEPT !.hop = @ + 1]
  <2>2. q.env = r.env /\ q.call = r.call /\ sent' = sent \cup {q}
    BY <2>1
  <2> HIDE DEF q
  <2>3. mission' = mission /\ held' = held /\ guest.at # "running"
    BY <1>12 DEF Redirected, hostVars, browserVars
  <2>4. r.call # 0
    BY <2>1, <2>3, Fields DEF CallInv
  <2>5. SignedOf(mission, held, sent \cup {q})
    BY <1>1, <2>2, <2>4, SignedAgain
  <2> QED
    BY <2>2, <2>3, <2>5
<1>10. CASE CallRejected \/ Undecoded \/ ReadResponse \/ (\E v \in BOOLEAN : SetDisclosure(v))
            \/ (\E at \in {"http", "tcp"} : BeginNetwork(at)) \/ NetworkReturns

            \/ BeginAi \/ AiAnswers
  BY <1>7, <1>10 DEF CallRejected, Undecoded, ReadResponse, SetDisclosure, BeginNetwork,
                     NetworkReturns, BeginAi, AiAnswers, hostVars, browserVars
<1>11. CASE Launch \/ BrowserFails \/ Navigate \/ Navigated \/ Act \/ Acted \/ InterceptorPasses
            \/ (\E p \in Page : PageRequests(p)) \/ PagesChange \/ UNCHANGED vars
  BY <1>7, <1>11 DEF Launch, BrowserFails, Navigate, Navigated, Act, Acted, InterceptorPasses, PageRequests,
                     PagesChange, vars, hostVars
<1> QED
  BY <1>4, <1>5, <1>6, <1>8, <1>9, <1>10, <1>11, <1>12 DEF Next

-----------------------------------------------------------------------------
(* The bound of the behaviour hash: every entry that is owed has its room, one
   for each page whose request waits to be signed and for a call that does. *)
Due(at) == IF at \in {"http", "tcp", "ai", "navigate"} THEN 1 ELSE 0
Fits(n, P, at) == n + Cardinality(P) + Due(at) <= MaxEvents
RoomInv == Fits(Len(mission.log), paused, guest.at)

LEMMA Less ==
    ASSUME NEW n \in Nat, NEW P, NEW at, IsFiniteSet(P), Fits(n, P, at),
           NEW Q, NEW to, Q \subseteq P, Due(to) <= Due(at)
    PROVE  Fits(n, Q, to)
<1>1. /\ Cardinality(Q) <= Cardinality(P)
      /\ Cardinality(Q) \in Nat /\ Cardinality(P) \in Nat
  BY FS_Subset, FS_CardinalityType
<1> QED
  BY <1>1, Bounded DEF Fits, Due

LEMMA Allowed ==
    ASSUME BrowserInv, NEW n \in Nat, NEW k \in Nat, RoomFor(k), n = Len(mission.log)
    PROVE  /\ n + Cardinality(paused) + Due(guest.at) + k <= MaxEvents
           /\ Cardinality(paused) \in Nat
<1>1. Cardinality(paused) \in Nat
  BY Paused, FS_CardinalityType
<1> QED
  BY <1>1, Bounded DEF RoomFor, Owed, Due

(* The log after an entry. *)
LEMMA LogGrows ==
    ASSUME SignInv
    PROVE  /\ Len(mission.log) \in Nat
           /\ \A x \in Event : Record(x) => Len(mission'.log) = Len(mission.log) + 1
           /\ \A x \in Event : \A env : Sign(x, env) => Len(mission'.log) = Len(mission.log) + 1
<1>1. mission \in Envelope /\ mission.log \in Seq(Event)
  BY EnvelopeFields DEF SignInv, SignedOf, Consistent
<1>2. \A x \in Event : Len(Append(mission.log, x)) = Len(mission.log) + 1
  BY <1>1, Appended
<1>3. \A x \in Event : /\ Recorded(mission, x).log = Append(mission.log, x)
                       /\ Counted(mission, x).log = Append(mission.log, x)
  BY <1>1, RecordedFields
<1> QED
  BY <1>1, <1>2, <1>3 DEF Record, Sign

LEMMA Places ==
    /\ \A at : Due(at) \in {0, 1}
    /\ \A at \in {"running", "http_sent", "tcp_sent", "ai_sent", "loading", "act", "acting"} :
          Due(at) = 0
    /\ \A at \in {"http", "tcp", "ai", "navigate"} : Due(at) = 1
  BY DEF Due

LEMMA EnterRoom ==
    ASSUME CallInv, BrowserInv, SignInv, NEW at, Enter(at), UNCHANGED paused,
           \/ at \in {"http", "tcp", "ai"} /\ mission' = mission
           \/ at \in {"act", "navigate"} /\ Len(mission'.log) = Len(mission.log) + 1
    PROVE  RoomInv'
<1>1. guest.at = "running" /\ guest'.at = at
  <2>1. guest' = [guest EXCEPT !.at = at, !.call = @ + 1] /\ guest \in Guests
    BY DEF Enter, CallInv
  <2> QED
    BY <2>1 DEF Guests, Enter
<1>2. Due(guest.at) = 0
  BY <1>1, Places
<1> DEFINE n == Len(mission.log)
           w == Cardinality(paused)
<1>3. n \in Nat
  BY LogGrows
<1>4. CASE at = "navigate"
  <2>1. RoomFor(2)
    BY <1>4 DEF Enter
  <2>5. n + w + Due(guest.at) + 2 <= MaxEvents /\ w \in Nat
    BY <1>3, <2>1, Allowed
  <2>2. n + w + 2 <= MaxEvents /\ w \in Nat
    BY <1>2, <2>5
  <2>3. Len(mission'.log) = n + 1 /\ Due(at) = 1
    BY <1>4, Places
  <2> HIDE DEF n, w
  <2>4. (n + 1) + w + 1 <= MaxEvents
    BY <1>3, <2>2, Bounded
  <2> QED
    BY <1>1, <2>3, <2>4 DEF RoomInv, Fits, w
<1>5. CASE at # "navigate"
  <2>1. RoomFor(1)
    BY <1>5 DEF Enter
  <2>5. n + w + Due(guest.at) + 1 <= MaxEvents /\ w \in Nat
    BY <1>3, <2>1, Allowed
  <2>2. n + w + 1 <= MaxEvents /\ w \in Nat
    BY <1>2, <2>5
  <2>3. (Len(mission'.log) = n + 1 /\ Due(at) = 0) \/ (Len(mission'.log) = n /\ Due(at) = 1)
    BY <1>5, Places
  <2> HIDE DEF n, w
  <2>4. (n + 1) + w + 0 <= MaxEvents /\ n + w + 1 <= MaxEvents
    BY <1>3, <2>2, Bounded
  <2> QED
    BY <1>1, <2>3, <2>4 DEF RoomInv, Fits, w
<1> QED
  BY <1>4, <1>5

(* A call whose entry was owed records it. *)
LEMMA PaidRoom ==
    ASSUME RoomInv, BrowserInv, SignInv, UNCHANGED paused,
           Due(guest.at) = 1, Due(guest'.at) = 0, Len(mission'.log) = Len(mission.log) + 1
    PROVE  RoomInv'
<1> DEFINE n == Len(mission.log)
           w == Cardinality(paused)
<1>1. n \in Nat /\ w \in Nat
  BY LogGrows, Paused, FS_CardinalityType
<1>2. n + w + 1 <= MaxEvents
  BY DEF RoomInv, Fits
<1> HIDE DEF n, w
<1>3. (n + 1) + w + 0 <= MaxEvents
  BY <1>1, <1>2, Bounded
<1> QED
  BY <1>3 DEF RoomInv, Fits, n, w

LEMMA SameRoom ==
    ASSUME RoomInv, BrowserInv, SignInv, mission' = mission,
           paused' \subseteq paused, Due(guest'.at) <= Due(guest.at)
    PROVE  RoomInv'
  BY LogGrows, Paused, Less DEF RoomInv

LEMMA StoreRoom ==
    ASSUME BrowserInv, SignInv, UseStore
    PROVE  RoomInv'
<1> DEFINE n == Len(mission.log)
           w == Cardinality(paused)
           d == Due(guest.at)
<1>1. RoomFor(1) /\ UNCHANGED <<paused, held, guest>> /\ Record("kv")
  BY DEF UseStore, browserVars
<1>2. n \in Nat /\ Len(mission'.log) = n + 1
  BY <1>1, LogGrows, Events
<1>5. d \in Nat
  BY Places
<1>3. w \in Nat /\ n + w + d + 1 <= MaxEvents
  BY <1>1, <1>2, Allowed
<1> HIDE DEF n, w, d
<1>4. (n + 1) + w + d <= MaxEvents
  BY <1>2, <1>3, <1>5, Bounded
<1> QED
  BY <1>1, <1>2, <1>4 DEF RoomInv, Fits, w, d

(* A page asks: its entry is owed from now on. *)
LEMMA AskedRoom ==
    ASSUME BrowserInv, NEW n \in Nat, NEW d \in Nat, NEW p,
           n + Cardinality(paused) + d + 1 <= MaxEvents
    PROVE  n + Cardinality(paused \cup {p}) + d <= MaxEvents
<1> DEFINE c == Cardinality(paused)
           q == Cardinality(paused \cup {p})
<1>1. c \in Nat /\ q = IF p \in paused THEN c ELSE c + 1
  BY Paused, FS_AddElement, FS_CardinalityType
<1>2. n + c + d + 1 <= MaxEvents
  OBVIOUS
<1> HIDE DEF c, q
<1>3. n + q + d <= MaxEvents
  BY <1>1, <1>2, Bounded
<1> QED
  BY <1>3 DEF q

LEMMA AskRoom ==
    ASSUME BrowserInv, SignInv, NEW p \in Page, PageRequests(p)
    PROVE  RoomInv'
<1> DEFINE n == Len(mission.log)
           d == Due(guest.at)
<1>1. RoomFor(1) /\ UNCHANGED <<mission, held, guest>> /\ paused' = paused \cup {p}
  BY DEF PageRequests, hostVars
<1>2. n \in Nat /\ d \in Nat
  BY LogGrows, Places
<1>3. n + Cardinality(paused) + d + 1 <= MaxEvents
  BY <1>1, <1>2, Allowed
<1>4. n + Cardinality(paused \cup {p}) + d <= MaxEvents
  BY <1>2, <1>3, AskedRoom
<1> QED
  BY <1>1, <1>4 DEF RoomInv, Fits

LEMMA NavigateRoom ==
    ASSUME RoomInv, CallInv, BrowserInv, SignInv, Navigate
    PROVE  RoomInv'
<1>1. PICK p \in NavigateIn : paused' = paused \cup {p} /\ guest' = [guest EXCEPT !.at = "loading", !.page = p]
  BY DEF Navigate
<1>2. guest.at = "navigate" /\ UNCHANGED <<mission, held>>
  BY DEF Navigate, hostVars
<1>3. Due(guest.at) = 1
  BY <1>2, Places
<1>4. Due(guest'.at) = 0
  BY <1>1, Places DEF CallInv, Guests
<1> DEFINE n == Len(mission.log)
           z == 0
<1>5. n \in Nat /\ z \in Nat
  BY LogGrows
<1>6. n + Cardinality(paused) + 1 <= MaxEvents
  BY <1>3 DEF RoomInv, Fits
<1>7. Cardinality(paused) \in Nat
  BY Paused, FS_CardinalityType
<1>8. n + Cardinality(paused) + z + 1 <= MaxEvents
  BY <1>5, <1>6, <1>7
<1>9. n + Cardinality(paused \cup {p}) + z <= MaxEvents
  BY <1>5, <1>8, AskedRoom
<1> QED
  BY <1>1, <1>2, <1>4, <1>9 DEF RoomInv, Fits

(* The interceptor signs for a page: from then on its entry is no longer owed. *)
LEMMA InterceptorRoom ==
    ASSUME RoomInv, BrowserInv, SignInv, InterceptorSigns
    PROVE  RoomInv'
<1> DEFINE i == session.interceptor
           n == Len(mission.log)
           d == Due(guest.at)
           c == Cardinality(paused)
<1>1. i \in paused /\ guest' = guest /\ paused' = paused \ {i}
  BY DEF InterceptorSigns
<1>2. n \in Nat /\ Len(mission'.log) = n + 1
  BY LogGrows, Events DEF InterceptorSigns
<1>6. IsFiniteSet(paused) /\ d \in Nat
  BY Paused, Places
<1>7. c \in Nat /\ Cardinality(paused \ {i}) = c - 1
  BY <1>1, <1>6, FS_RemoveElement, FS_CardinalityType
<1>3. d \in Nat /\ c \in Nat /\ Cardinality(paused') = c - 1
  BY <1>1, <1>6, <1>7
<1>4. n + c + d <= MaxEvents
  BY DEF RoomInv, Fits
<1> HIDE DEF n, d, c, i
<1>5. (n + 1) + (c - 1) + d <= MaxEvents
  BY <1>2, <1>3, <1>4, Bounded
<1> QED
  BY <1>1, <1>2, <1>3, <1>5 DEF RoomInv, Fits, d

LEMMA RoomStep == RoomInv /\ CallInv /\ BrowserInv /\ SignInv /\ [Next]_vars => RoomInv'
<1> SUFFICES ASSUME RoomInv, CallInv, BrowserInv, SignInv, [Next]_vars
             PROVE  RoomInv'
  OBVIOUS
<1>1. guest \in Guests /\ Due(guest.at) <= Due(guest.at) /\ 0 <= Due(guest.at)
  BY Places DEF CallInv
<1>2. ASSUME mission' = mission, paused' \subseteq paused,
             guest'.at = guest.at \/ Due(guest'.at) = 0
      PROVE  RoomInv'
  BY <1>1, <1>2, SameRoom
<1>3. Return => Due(guest'.at) = 0
  BY <1>1, Places DEF Return, Guests
<1>4. CASE CallRejected \/ Undecoded
  <2>1. guest'.at = guest.at
    BY <1>1, <1>4 DEF CallRejected, Undecoded, Guests
  <2> QED
    BY <1>2, <1>4, <2>1 DEF CallRejected, Undecoded, hostVars, browserVars
<1>5. CASE ReadResponse \/ (\E v \in BOOLEAN : SetDisclosure(v)) \/ Launch \/ PagesChange
           \/ Redirected \/ InterceptorReleases \/ InterceptorPasses \/ UNCHANGED vars
  BY <1>2, <1>5 DEF ReadResponse, SetDisclosure, Launch, PagesChange, Redirected,
                    InterceptorReleases, InterceptorPasses, vars, hostVars, browserVars
<1>6. CASE NetworkReturns
           \/ AiAnswers \/ BrowserFails \/ Navigated \/ Acted
  BY <1>2, <1>3, <1>6 DEF NetworkReturns, AiAnswers, BrowserFails, Navigated, Acted,
                          hostVars, browserVars
<1>7. CASE Act
  <2>1. Due(guest'.at) = 0
    <3>1. CASE Return
      BY <1>3, <3>1
    <3>2. CASE \E p : guest' = [guest EXCEPT !.at = "acting", !.page = p]
      BY <1>1, <3>2, Places DEF Guests
    <3> QED
      BY <1>7, <3>1, <3>2 DEF Act
  <2> QED
    BY <1>2, <1>7, <2>1 DEF Act, hostVars
<1>8. CASE (\E at \in {"http", "tcp"} : BeginNetwork(at)) \/ BeginAi
  BY <1>8, EnterRoom DEF BeginNetwork, BeginAi, hostVars, browserVars
<1>9. CASE \E at \in {"navigate", "act"} : BeginBrowser(at)
  <2>1. PICK at \in {"navigate", "act"} : BeginBrowser(at)
    BY <1>9
  <2>2. Enter(at) /\ Record("browser_action") /\ UNCHANGED paused
    BY <2>1 DEF BeginBrowser, browserVars
  <2>3. Len(mission'.log) = Len(mission.log) + 1
    BY <2>2, LogGrows, Events
  <2> QED
    BY <2>2, <2>3, EnterRoom
<1>10. CASE SendHttp \/ SendAi \/ ConnectTcp \/ RefuseAi
  <2>1. guest.at \in {"http", "ai", "tcp"} /\ UNCHANGED paused
    BY <1>10 DEF SendHttp, SendAi, ConnectTcp, RefuseAi, browserVars
  <2>2. guest'.at \in {"http_sent", "ai_sent", "tcp_sent", "running"}
    BY <1>1, <1>10 DEF SendHttp, SendAi, ConnectTcp, RefuseAi, Return, Guests
  <2>3. (\E x \in Event : Record(x)) \/ (\E x \in Event : \E env : Sign(x, env))
    BY <1>10, Events DEF SendHttp, SendAi, ConnectTcp, RefuseAi
  <2>4. Len(mission'.log) = Len(mission.log) + 1
    BY <2>3, LogGrows
  <2>5. Due(guest.at) = 1 /\ Due(guest'.at) = 0
    BY <2>1, <2>2, Places
  <2> QED
    BY <2>1, <2>4, <2>5, PaidRoom
<1> QED
  BY <1>4, <1>5, <1>6, <1>7, <1>8, <1>9, <1>10, StoreRoom, AskRoom, NavigateRoom,
     InterceptorRoom DEF Next

-----------------------------------------------------------------------------
(* The types of the rest. *)
Sents == [call : 0..MaxCalls, hop : 0..MaxRedirects, env : SUBSET Envelope]
HostInv ==
    /\ setup \in [identity : BOOLEAN, key : BOOLEAN]
    /\ visible \in BOOLEAN
    /\ held \in [page : Page \cup {None}, env : SUBSET Envelope]
    /\ sent \subseteq Sents

LEMMA SendType ==
    ASSUME HostInv, NEW n \in 0..MaxCalls, NEW env \in SUBSET Envelope, Send(n, env)
    PROVE  sent' \subseteq Sents
  BY Bounded DEF HostInv, Sents, Send

LEMMA EnvelopeType ==
    ASSUME SignInv, NEW x \in Request, NEW env \in SUBSET Envelopes(Counted(mission, x))
    PROVE  env \in SUBSET Envelope
<1>1. Consistent(mission)
  BY DEF SignInv, SignedOf
<1>2. Told(Counted(mission, x)) \in Envelope
  BY <1>1, ToldSound DEF Sound, Consistent
<1> QED
  BY <1>2 DEF Envelopes

LEMMA HostStep == HostInv /\ CallInv /\ SignInv /\ BrowserInv /\ [Next]_vars => HostInv'
<1> SUFFICES ASSUME HostInv, CallInv, SignInv, BrowserInv, [Next]_vars
             PROVE  HostInv'
  OBVIOUS
<1>2. setup' = setup /\ visible' \in BOOLEAN
  <2>1. setup' = setup /\ (visible' = visible \/ \E v \in BOOLEAN : visible' = v)
    BY DEF Next, CallRejected, Undecoded, BeginNetwork, SendHttp, Redirected, ConnectTcp,
       NetworkReturns, BeginAi, RefuseAi, SendAi, AiAnswers,
       BeginBrowser, Launch, BrowserFails, Navigate, Navigated, Act, Acted, InterceptorSigns,
       InterceptorReleases, InterceptorPasses, PageRequests, PagesChange, ReadResponse, UseStore, SetDisclosure,
       vars, hostVars
  <2> QED
    BY <2>1 DEF HostInv
<1>3. held' \in [page : Page \cup {None}, env : SUBSET Envelope]
  <2>1. CASE InterceptorSigns
    <3>1. session.interceptor \in Page \cup {None} /\ "browser_http" \in Request
      BY SessionFields DEF Request
    <3>2. ASSUME NEW env \in SUBSET Envelopes(Counted(mission, "browser_http")),
                 held' = [page |-> session.interceptor, env |-> env]
          PROVE  held' \in [page : Page \cup {None}, env : SUBSET Envelope]
      BY <3>1, <3>2, EnvelopeType
    <3>3. held' = held \/ \E env \in SUBSET Envelopes(Counted(mission, "browser_http")) :
                               held' = [page |-> session.interceptor, env |-> env]
      BY <2>1 DEF InterceptorSigns
    <3> QED
      BY <3>2, <3>3 DEF HostInv
  <2>2. CASE InterceptorReleases
    BY <2>2 DEF InterceptorReleases
  <2>3. ASSUME ~InterceptorSigns, ~InterceptorReleases
        PROVE  held' = held
    BY <2>3 DEF Next, CallRejected, Undecoded, BeginNetwork, SendHttp, Redirected, ConnectTcp,
       NetworkReturns, BeginAi, RefuseAi, SendAi, AiAnswers,
       BeginBrowser, Launch, BrowserFails, Navigate, Navigated, Act, Acted,
       InterceptorPasses, PageRequests, PagesChange, ReadResponse, UseStore, SetDisclosure,
       vars, browserVars
  <2> QED
    BY <2>1, <2>2, <2>3 DEF HostInv
<1>4. sent' \subseteq Sents
  <2>0. guest.call \in 0..MaxCalls /\ 0 \in 0..MaxCalls
    BY Fields, Bounded
  <2>1. ASSUME NEW x \in Request, NEW env \in SUBSET Envelopes(Counted(mission, x)),
               Send(guest.call, env)
        PROVE  sent' \subseteq Sents
    BY <2>0, <2>1, EnvelopeType, SendType
  <2>2. CASE Send(guest.call, {})
    BY <2>0, <2>2, SendType
  <2>3. CASE SendHttp \/ SendAi
    BY <2>1, <2>2, <2>3 DEF SendHttp, SendAi, Request
  <2>4. CASE InterceptorReleases
    <3>1. sent' = sent \/ Send(0, held.env)
      BY <2>4 DEF InterceptorReleases
    <3>2. held.env \in SUBSET Envelope
      BY DEF HostInv
    <3> QED
      BY <2>0, <3>1, <3>2, SendType DEF HostInv
  <2>5. CASE Redirected
    <3>1. PICK r \in sent : r.hop < MaxRedirects /\ sent' = sent \cup {[r EXCEPT !.hop = @ + 1]}
      BY <2>5 DEF Redirected
    <3>2. r \in Sents /\ r.hop + 1 \in 0..MaxRedirects
      BY <3>1, Bounded DEF HostInv, Sents
    <3> QED
      BY <3>1, <3>2 DEF HostInv, Sents
  <2>6. ASSUME ~SendHttp, ~SendAi, ~InterceptorReleases, ~Redirected
        PROVE  sent' = sent
    BY <2>6 DEF Next, CallRejected, Undecoded, BeginNetwork, ConnectTcp, NetworkReturns,
       BeginAi, RefuseAi, AiAnswers,
       BeginBrowser, Launch, BrowserFails, Navigate, Navigated, Act, Acted, InterceptorSigns,
       InterceptorPasses, PageRequests, PagesChange, ReadResponse, UseStore, SetDisclosure, vars
  <2> QED
    BY <2>3, <2>4, <2>5, <2>6 DEF HostInv
<1> QED
  BY <1>2, <1>3, <1>4 DEF HostInv

-----------------------------------------------------------------------------
(* Hiding: while the identity is hidden, what the interceptor holds was signed
   before, and a call that was sent since carries no envelope. *)
HideInv ==
    /\ hidden \in 0..mission.count
    /\ ~visible => \A e \in held.env : e.count <= hidden
    /\ \A r \in sent : r.call <= guest.call
    /\ guest.at \in {"http", "ai"} => \A r \in sent : r.call # guest.call
    /\ guest.at \in {"http_sent", "ai_sent"} /\ ~visible =>
          \A r \in sent : r.call = guest.call => r.env = {}

LEMMA CountGrows ==
    ASSUME SignInv, [Next]_vars
    PROVE  mission.count \in Nat /\ mission'.count \in Nat /\ mission.count <= mission'.count
<1>1. mission \in Envelope /\ mission.count \in Nat
  BY EnvelopeFields DEF SignInv, SignedOf, Consistent
<1>2. \/ mission' = mission
      \/ \E x \in Event : mission' = Recorded(mission, x) \/ mission' = Counted(mission, x)
  BY Events DEF Next, CallRejected, Undecoded, BeginNetwork, SendHttp, Redirected, ConnectTcp,
     NetworkReturns, BeginAi, RefuseAi, SendAi, AiAnswers, BeginBrowser, Launch, BrowserFails,
     Navigate, Navigated, Act, Acted, InterceptorSigns, InterceptorReleases, InterceptorPasses,
     PageRequests, PagesChange, ReadResponse, UseStore, SetDisclosure, vars, hostVars, Record, Sign
<1>3. \A x \in Event : /\ Recorded(mission, x).count = mission.count
                       /\ Counted(mission, x).count = mission.count + 1
  BY <1>1, RecordedFields
<1> QED
  BY <1>1, <1>2, <1>3

(* A step that sends nothing keeps the guest where it is, takes it into a call
   that has sent nothing, or takes it out of one. *)
LEMMA Silent ==
    ASSUME CallInv, [Next]_vars, ~SendHttp, ~SendAi, ~Redirected, ~InterceptorReleases
    PROVE  /\ sent' = sent
           /\ \/ guest' = guest /\ (guest.at # "running" => visible' = visible)
              \/ /\ guest'.call = guest.call + 1
                 /\ guest'.at \notin {"http_sent", "ai_sent"}
              \/ /\ guest'.call = guest.call
                 /\ guest'.at \notin {"http", "http_sent", "ai", "ai_sent"}
<1>1. guest \in Guests
  BY DEF CallInv
<1>2. CASE CallRejected \/ Undecoded
  <2>1. guest'.call = guest.call + 1 /\ guest'.at = "running"
    BY <1>1, <1>2 DEF CallRejected, Undecoded, Guests
  <2> QED
    BY <1>2, <2>1 DEF CallRejected, Undecoded
<1>3. CASE (\E at \in {"http", "tcp"} : BeginNetwork(at)) \/ BeginAi
           \/ \E at \in {"navigate", "act"} : BeginBrowser(at)
  <2>1. sent' = sent /\ \E at \in {"http", "tcp", "ai", "navigate", "act"} : Enter(at)
    BY <1>3 DEF BeginNetwork, BeginAi, BeginBrowser
  <2>2. ASSUME NEW at \in {"http", "tcp", "ai", "navigate", "act"}, Enter(at)
        PROVE  guest'.call = guest.call + 1 /\ guest'.at = at
    BY <1>1, <2>2 DEF Enter, Guests
  <2> QED
    BY <2>1, <2>2
<1>4. ASSUME Return
      PROVE  guest'.call = guest.call /\ guest'.at = "running"
  BY <1>1, <1>4 DEF Return, Guests
<1>5. CASE NetworkReturns \/ RefuseAi \/ AiAnswers \/ BrowserFails \/ Navigated \/ Acted
  BY <1>4, <1>5 DEF NetworkReturns, RefuseAi, AiAnswers, BrowserFails, Navigated, Acted
<1>6. ASSUME NEW at, NEW p, \/ guest' = [guest EXCEPT !.at = at]
                            \/ guest' = [guest EXCEPT !.at = at, !.page = p]
      PROVE  guest'.call = guest.call /\ guest'.at = at
  BY <1>1, <1>6 DEF Guests
<1>7. CASE ConnectTcp
  <2>1. sent' = sent /\ guest' = [guest EXCEPT !.at = "tcp_sent"]
    BY <1>7 DEF ConnectTcp
  <2>2. guest'.call = guest.call /\ guest'.at = "tcp_sent"
    BY <1>6, <2>1
  <2> QED
    BY <2>1, <2>2
<1>8. CASE Navigate \/ Act
  <2>1. sent' = sent
    BY <1>8 DEF Navigate, Act
  <2>2. CASE Return
    BY <1>4, <2>1, <2>2
  <2>3. ASSUME NEW at \in {"loading", "acting"}, NEW p, guest' = [guest EXCEPT !.at = at, !.page = p]
        PROVE  guest'.call = guest.call /\ guest'.at = at
    BY <1>6, <2>3
  <2>4. Return \/ \E at \in {"loading", "acting"} : \E p : guest' = [guest EXCEPT !.at = at, !.page = p]
    BY <1>8 DEF Navigate, Act
  <2> QED
    BY <2>1, <2>2, <2>3, <2>4
<1>9. CASE \/ ReadResponse \/ UseStore \/ Launch \/ InterceptorSigns \/ InterceptorPasses
           \/ (\E p \in Page : PageRequests(p)) \/ PagesChange \/ UNCHANGED vars
  BY <1>9 DEF ReadResponse, UseStore, Launch, InterceptorSigns, InterceptorPasses, PageRequests,
              PagesChange, vars, hostVars
<1>10. CASE \E v \in BOOLEAN : SetDisclosure(v)
  BY <1>10 DEF SetDisclosure
<1> QED
  BY <1>2, <1>3, <1>5, <1>7, <1>8, <1>9, <1>10 DEF Next

(* Nothing of a call that is about to be sent has left yet, so that its request
   and its redirects are all there is of it. *)
LEMMA SentCalls ==
    ASSUME HideInv, HostInv, CallInv, [Next]_vars
    PROVE  /\ \A r \in sent' : r.call <= guest'.call
           /\ guest'.at \in {"http", "ai"} => \A r \in sent' : r.call # guest'.call
           /\ guest'.at \in {"http_sent", "ai_sent"} /\ ~visible' =>
                 \A r \in sent' : r.call = guest'.call => r.env = {}
<1>1. /\ guest.call \in 0..MaxCalls /\ guest \in Guests
      /\ \A r \in sent : r.call \in 0..MaxCalls /\ r.call <= guest.call
      /\ guest.at # "running" => guest.call # 0
  BY Fields, Bounded DEF HideInv, HostInv, Sents, CallInv
<1>2. CASE SendHttp \/ SendAi
  <2>1. PICK env : Send(guest.call, env) /\ (visible \/ env = {})
    <3>1. \A x : \A env \in SUBSET Envelopes(Counted(mission, x)) : visible \/ env = {}
      BY DEF Envelopes
    <3> QED
      BY <1>2, <3>1 DEF SendHttp, SendAi
  <2>2. /\ guest'.call = guest.call /\ guest'.at \in {"http_sent", "ai_sent"} /\ visible' = visible
        /\ guest.at \in {"http", "ai"}
    BY <1>1, <1>2 DEF SendHttp, SendAi, Guests
  <2> DEFINE q == [call |-> guest.call, hop |-> 0, env |-> env]
  <2>3. sent' = sent \cup {q} /\ q.call = guest.call /\ q.env = env
    BY <2>1 DEF Send
  <2> HIDE DEF q
  <2>4. \A r \in sent : r.call # guest.call
    BY <2>2 DEF HideInv
  <2>5. \A r \in sent' : r.call <= guest'.call
    BY <1>1, <2>2, <2>3, Bounded
  <2> QED
    BY <2>1, <2>2, <2>3, <2>4, <2>5
<1>3. CASE Redirected
  <2>1. PICK r \in sent : r.call = guest.call /\ sent' = sent \cup {[r EXCEPT !.hop = @ + 1]}
    BY <1>3 DEF Redirected
  <2> DEFINE q == [r EXCEPT !.hop = @ + 1]
  <2>2. q.env = r.env /\ q.call = r.call /\ sent' = sent \cup {q}
    BY <2>1
  <2> HIDE DEF q
  <2>3. guest' = guest /\ visible' = visible /\ guest.at \in {"http_sent", "ai_sent"}
    BY <1>3 DEF Redirected, hostVars
  <2>4. ~visible => \A s \in sent' : s.call = guest.call => s.env = {}
    BY <2>1, <2>2, <2>3 DEF HideInv
  <2>5. \A s \in sent' : s.call <= guest.call
    BY <1>1, <2>1, <2>2
  <2> QED
    BY <2>3, <2>4, <2>5
<1>4. CASE InterceptorReleases
  <2> DEFINE q == [call |-> 0, hop |-> 0, env |-> held.env]
  <2>1. sent' = sent \/ sent' = sent \cup {q}
    BY <1>4 DEF InterceptorReleases, Send
  <2>2. q.call = 0
    OBVIOUS
  <2> HIDE DEF q
  <2>3. guest' = guest /\ visible' = visible
    BY <1>4 DEF InterceptorReleases, hostVars
  <2>4. \A r \in sent' : r \in sent \/ r.call = 0
    BY <2>1, <2>2
  <2> QED
    BY <1>1, <2>3, <2>4 DEF HideInv
<1>5. ASSUME ~SendHttp, ~SendAi, ~Redirected, ~InterceptorReleases
      PROVE  /\ \A r \in sent' : r.call <= guest'.call
             /\ guest'.at \in {"http", "ai"} => \A r \in sent' : r.call # guest'.call
             /\ guest'.at \in {"http_sent", "ai_sent"} /\ ~visible' =>
                   \A r \in sent' : r.call = guest'.call => r.env = {}
  <2>1. sent' = sent
    BY <1>5, Silent
  <2>2. CASE guest' = guest /\ (guest.at # "running" => visible' = visible)
    BY <2>1, <2>2 DEF HideInv
  <2>3. CASE guest'.call = guest.call + 1 /\ guest'.at \notin {"http_sent", "ai_sent"}
    <3>1. \A r \in sent : r.call <= guest'.call /\ r.call # guest'.call
      BY <1>1, <2>3, Bounded
    <3> QED
      BY <2>1, <2>3, <3>1
  <2>4. CASE guest'.call = guest.call /\ guest'.at \notin {"http", "http_sent", "ai", "ai_sent"}
    BY <1>1, <2>1, <2>4
  <2> QED
    BY <1>5, <2>2, <2>3, <2>4, Silent
<1> QED
  BY <1>2, <1>3, <1>4, <1>5

LEMMA HideStep == HideInv /\ HostInv /\ SignInv /\ CallInv /\ [Next]_vars => HideInv'
<1> SUFFICES ASSUME HideInv, HostInv, SignInv, CallInv, [Next]_vars
             PROVE  HideInv'
  OBVIOUS
<1>1. /\ mission.count \in Nat /\ mission'.count \in Nat /\ mission.count <= mission'.count
      /\ hidden \in Nat /\ hidden <= mission.count
  BY CountGrows DEF HideInv
<1>2. /\ hidden' \in 0..mission'.count
      /\ ~visible' => \A e \in held'.env : e.count <= hidden'
  <2>1. CASE \E v \in BOOLEAN : SetDisclosure(v)
    <3>1. PICK v \in BOOLEAN : SetDisclosure(v)
      BY <2>1
    <3>2. /\ visible' = v /\ held' = held /\ mission' = mission
          /\ hidden' = IF v THEN 0 ELSE IF visible THEN mission.count ELSE hidden
      BY <3>1 DEF SetDisclosure, browserVars
    <3>3. \A e \in held.env : e.count <= mission.count
      BY SoundCount DEF SignInv, SignedOf
    <3> QED
      BY <1>1, <3>2, <3>3 DEF HideInv
  <2>2. CASE InterceptorSigns
    <3>1. PICK env \in SUBSET Envelopes(Counted(mission, "browser_http")) :
                held' = [page |-> session.interceptor, env |-> env]
      BY <2>2 DEF InterceptorSigns
    <3>2. hidden' = hidden /\ visible' = visible /\ held'.env = env
      BY <2>2, <3>1 DEF InterceptorSigns
    <3>3. ~visible => env = {}
      BY DEF Envelopes
    <3> QED
      BY <1>1, <3>2, <3>3
  <2>3. CASE InterceptorReleases
    BY <1>1, <2>3 DEF InterceptorReleases, hostVars
  <2>4. ASSUME ~InterceptorSigns, ~InterceptorReleases, \A v \in BOOLEAN : ~SetDisclosure(v)
        PROVE  held' = held /\ hidden' = hidden /\ visible' = visible
    BY <2>4 DEF Next, CallRejected, Undecoded, BeginNetwork, SendHttp, Redirected, ConnectTcp,
       NetworkReturns, BeginAi, RefuseAi, SendAi, AiAnswers, BeginBrowser, Launch, BrowserFails,
       Navigate, Navigated, Act, Acted, InterceptorPasses, PageRequests, PagesChange,
       ReadResponse, UseStore, vars, hostVars, browserVars
  <2>5. CASE held' = held /\ hidden' = hidden /\ visible' = visible
    BY <1>1, <2>5 DEF HideInv
  <2> QED
    BY <2>1, <2>2, <2>3, <2>4, <2>5
<1> QED
  BY <1>2, SentCalls DEF HideInv

-----------------------------------------------------------------------------
IInv == CallInv /\ BrowserInv /\ SignInv /\ HostInv /\ RoomInv /\ HideInv

LEMMA InitInv == Init => IInv
<1> SUFFICES ASSUME Init PROVE IInv
  OBVIOUS
<1> DEFINE m == [count |-> 0, log |-> <<>>, caps |-> {}]
           none == [page |-> None, env |-> {}]
<1>1. mission = m /\ held = none /\ sent = {} /\ paused = {} /\ pages = {} /\ gone = {}
      /\ guest.at = "running"
  BY DEF Init
<1>2. m.log = <<>> /\ m.count = 0 /\ m.caps = {} /\ none.env = {} /\ none.page = None
  OBVIOUS
<1>3. CallInv
  <2>1. 0 \in 0..MaxCalls /\ "running" \in Place
    BY Bounded DEF Place
  <2>2. /\ guest = [at |-> "running", call |-> 0, page |-> None, last |-> 0]
        /\ pending = 0 /\ reads = <<>>
    BY DEF Init
  <2>3. guest \in Guests /\ guest.last = 0 /\ guest.call = 0
    BY <2>1, <2>2 DEF Guests
  <2>4. reads \in Seq(1..MaxCalls) /\ Len(reads) = 0
    BY <2>2
  <2>5. AnswersAreCurrent
    BY <2>2, <2>3, <2>4 DEF AnswersAreCurrent
  <2> QED
    BY <1>1, <2>1, <2>2, <2>3, <2>4, <2>5 DEF CallInv
<1>4. BrowserInv
  BY FS_EmptySet DEF Init, BrowserInv, Sessions
<1>5. SignInv
  <2>1. m \in Envelope
    BY DEF Envelope
  <2>2. Requests(<<>>) = {} /\ CapsOf(<<>>) = {}
    BY DEF Requests, CapsOf
  <2>3. CountOf(<<>>) = 0
    BY <2>2, FS_EmptySet DEF CountOf
  <2>4. Consistent(m)
    BY <1>2, <2>1, <2>2, <2>3 DEF Consistent
  <2> HIDE DEF m, none
  <2> QED
    BY <1>1, <1>2, <2>4 DEF SignInv, SignedOf
<1>6. HostInv
  BY FS_EmptySet DEF Init, HostInv
<1>7. RoomInv
  <2>1. Len(mission.log) = 0 /\ paused = {}
    BY <1>1, <1>2
  <2>2. Cardinality(paused) = 0
    BY <2>1, FS_EmptySet
  <2> QED
    BY <1>1, <2>1, <2>2, Places, Bounded DEF RoomInv, Fits
<1>8. HideInv
  <2>1. hidden = 0 /\ visible = TRUE
    BY DEF Init
  <2> QED
    BY <1>1, <1>2, <2>1 DEF HideInv
<1> QED
  BY <1>3, <1>4, <1>5, <1>6, <1>7, <1>8 DEF IInv

LEMMA InvStep == IInv /\ [Next]_vars => IInv'
  BY CallStep, BrowserStep, SignStep, HostStep, RoomStep, HideStep DEF IInv

LEMMA InvAlways == Spec => []IInv
  BY InitInv, InvStep, PTL DEF Spec

(* Every variable stays in its type: no wait works on a page that was closed, and
   the behaviour hash stays within its bound. *)
THEOREM TypeCorrect == Spec => []TypeOK
<1>1. IInv => TypeOK
  <2> SUFFICES ASSUME IInv PROVE TypeOK
    OBVIOUS
  <2>1. Len(mission.log) <= MaxEvents
    <3>1. Len(mission.log) \in Nat /\ Cardinality(paused) \in Nat /\ Due(guest.at) \in {0, 1}
      BY LogGrows, Paused, FS_CardinalityType, Places DEF IInv
    <3> QED
      BY <3>1, Bounded DEF IInv, RoomInv, Fits
  <2>2. mission \in Envelope
    BY DEF IInv, SignInv, SignedOf, Consistent
  <2>3. /\ guest \in Guests /\ pending \in 0..MaxCalls /\ reads \in Seq(1..MaxCalls)
        /\ hidden \in 0..mission.count
    BY DEF IInv, CallInv, HideInv
  <2>4. BrowserInv /\ HostInv
    BY DEF IInv
  <2> QED
    BY <2>1, <2>2, <2>3, <2>4 DEF Guests, Place, BrowserInv, Sessions, HostInv, Sents, TypeOK
<1> QED
  BY <1>1, InvAlways, PTL

(* host_response_read: what waits for the guest answers its last call that was
   accepted, and it reads no answer twice or after a later one. *)
THEOREM AnswersCurrent == Spec => []AnswersAreCurrent
<1>1. IInv => AnswersAreCurrent
  BY DEF IInv, CallInv
<1> QED
  BY <1>1, InvAlways, PTL

(* Of two beginnings of the same log the one that counts less is shorter. *)
LEMMA CountsLess ==
    ASSUME NEW log \in Seq(Event), NEW e, NEW f, Sound(e, log), Sound(f, log), e.count < f.count
    PROVE  IsStrictPrefix(e.log, f.log)
<1>1. /\ e.log \in Seq(Event) /\ f.log \in Seq(Event)
      /\ e.count = CountOf(e.log) /\ f.count = CountOf(f.log)
      /\ Begins(e.log, log) /\ Begins(f.log, log)
  BY EnvelopeFields DEF Sound, Consistent
<1>2. Len(e.log) \in Nat /\ Len(f.log) \in Nat
  BY <1>1
<1>3. Len(e.log) < Len(f.log)
  <2> SUFFICES ASSUME Len(f.log) <= Len(e.log)
               PROVE  FALSE
    BY <1>2
  <2>1. Requests(f.log) \subseteq Requests(e.log)
    BY <1>1, <1>2 DEF Requests, Begins
  <2>2. CountOf(f.log) <= CountOf(e.log) /\ CountOf(f.log) \in Nat /\ CountOf(e.log) \in Nat
    BY <1>1, <2>1, LogCounts, FS_Subset DEF CountOf
  <2> QED
    BY <1>1, <2>2
<1>4. \A i \in 1..Len(e.log) : e.log[i] = f.log[i]
  BY <1>1, <1>2, <1>3 DEF Begins
<1>5. SubSeq(e.log, 1, Len(e.log)) = SubSeq(f.log, 1, Len(e.log))
  <2> DEFINE n == Len(e.log)
  <2>1. \A i \in 1..n : e.log[i] = f.log[i]
    BY <1>4
  <2> QED
    BY <1>1, <1>2, <1>3, <2>1
<1> QED
  BY <1>2, <1>3, <1>5 DEF IsStrictPrefix, IsPrefix

(* signed_envelope_for_request: whoever signs, guest or interceptor, an envelope
   tells all that was done up to its own request and nothing else, and leaves
   again only with the redirects of its own call. *)
THEOREM EnvelopesTellAll == Spec => []EnvelopesTell
<1>1. IInv => EnvelopesTell
  <2> SUFFICES ASSUME IInv PROVE EnvelopesTell
    OBVIOUS
  <2>1. SignedOf(mission, held, sent) /\ mission.log \in Seq(Event)
    BY EnvelopeFields DEF IInv, SignInv, SignedOf, Consistent
  <2>2. \A e \in Signed : Sound(e, mission.log)
    BY <2>1 DEF Signed, SignedOf
  <2>3. ASSUME NEW e \in Signed
        PROVE  /\ e.count = Cardinality({i \in 1..Len(e.log) : e.log[i] \in Request})
               /\ e.caps = {Capability[e.log[i]] : i \in 1..Len(e.log)}
               /\ e.log # <<>> /\ Last(e.log) \in Request
    BY <2>2 DEF Sound, Consistent, CountOf, Requests, CapsOf, Last
  <2>4. \A e, f \in Signed : e.count < f.count => IsStrictPrefix(e.log, f.log)
    BY <2>1, <2>2, CountsLess
  <2>5. /\ \A r, s \in sent : r # s /\ r.env \cap s.env # {} => r.call = s.call /\ r.call # 0
        /\ \A s \in sent : s.env \cap held.env = {}
    BY <2>1 DEF SignedOf
  <2> QED
    BY <2>3, <2>4, <2>5 DEF EnvelopesTell
<1> QED
  BY <1>1, InvAlways, PTL

(* identity_disclosure_set: while the guest has its identity hidden, nothing
   that was signed since the hide leaves the host: only the request that the
   interceptor was releasing when the identity was hidden may carry an envelope. *)
THEOREM HidingIsEffective == Spec => HideIsEffective
<1> DEFINE Before == \A r \in sent' \ sent : \A e \in r.env :
                        visible \/ (e \in held.env /\ e.count <= hidden)
<1>1. IInv /\ [Next]_vars => [Before]_vars
  <2> SUFFICES ASSUME IInv, Next, ~visible, NEW r \in sent' \ sent, NEW e \in r.env
               PROVE  e \in held.env /\ e.count <= hidden
    OBVIOUS
  <2>1. CASE SendHttp \/ SendAi
    <3>1. \A x : \A env \in SUBSET Envelopes(Counted(mission, x)) : env = {}
      BY DEF Envelopes
    <3>2. Send(guest.call, {})
      BY <2>1, <3>1 DEF SendHttp, SendAi
    <3> QED
      BY <3>2 DEF Send
  <2>2. CASE Redirected
    <3>1. PICK q \in sent : q.call = guest.call /\ sent' = sent \cup {[q EXCEPT !.hop = @ + 1]}
      BY <2>2 DEF Redirected
    <3>2. r.env = q.env
      <4> DEFINE t == [q EXCEPT !.hop = @ + 1]
      <4>1. t.env = q.env
        BY <3>1 DEF IInv, HostInv, Sents
      <4>2. r = t
        BY <3>1
      <4> HIDE DEF t
      <4> QED
        BY <4>1, <4>2
    <3>3. q.env = {}
      BY <2>2, <3>1 DEF Redirected, IInv, HideInv
    <3> QED
      BY <3>2, <3>3
  <2>3. CASE InterceptorReleases
    <3>1. r.env = held.env
      BY <2>3 DEF InterceptorReleases, Send
    <3> QED
      BY <3>1 DEF IInv, HideInv
  <2>4. SendHttp \/ SendAi \/ Redirected \/ InterceptorReleases
    <3>1. sent' # sent
      OBVIOUS
    <3> QED
      BY <3>1, Silent DEF IInv
  <2> QED
    BY <2>1, <2>2, <2>3, <2>4
<1> QED
  BY <1>1, InvAlways, PTL DEF Spec, HideIsEffective
=============================================================================
