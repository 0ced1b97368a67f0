----------------------------- MODULE HostCalls -----------------------------
(***************************************************************************)
(* The host_call import of one attempt: a guest calls the host for the     *)
(* network, a browser page or the AI provider, is suspended until the call *)
(* is answered, and fetches the answer with host_response_len and          *)
(* host_response_read.  Every remote request is counted and, unless the    *)
(* guest hid its identity, signed with an envelope that summarizes what    *)
(* the mission has done so far (HostState, MissionState); the redirects an *)
(* HTTP client follows are not.                                            *)
(*                                                                         *)
(* The pages of the browser load on their own: an interceptor task, on a   *)
(* runtime with several threads, signs and releases their requests while   *)
(* the guest runs or waits.  Both sides meet at the lock of the host state. *)
(*                                                                         *)
(* A response is the number of the call it answers; an event of the        *)
(* behaviour hash is its tag; an envelope is the summary it signs.         *)
(***************************************************************************)
EXTENDS Integers, Sequences, FiniteSets, SequencesExt

CONSTANTS
    Page,          \* pages a browser may open
    MaxRedirects,  \* redirects an HTTP client follows: 10 by default
    MaxCalls,      \* bound: host calls of the attempt
    MaxEvents      \* bound: entries of the behaviour hash

None == "none"

ASSUME HostCallAssumption ==
    /\ None \notin Page
    /\ MaxRedirects \in Nat
    /\ MaxCalls \in Nat
    /\ MaxEvents \in Nat

(* The entries of the behaviour hash, the capability each stands for, and
   those that count as a request. *)
Capability == [http |-> "network", tcp |-> "network", unbound |-> "network",
               ai |-> "ai", ai_refused |-> "ai",
               browser_action |-> "browser", browser_http |-> "browser", kv |-> "kv"]
Event == DOMAIN Capability
Request == {"http", "ai", "browser_http"}

VARIABLES
    guest,     \* at: "running", or where its host_call is; call: its number;
               \* page: what a browser call works on; last: history, the last
               \* call that returned 0
    pending,   \* pending_response: the call it answers, or 0
    reads,     \* history: the responses the guest has read
    mission,   \* MissionState
    setup,     \* the host has an identity to sign with, and a key for the AI
    visible,   \* identity_disclosure_visible
    hidden,    \* history: the requests counted when it was hidden, or 0
    session,   \* BrowserSession: the browser, its active page, interception
    pages,     \* pages the browser has open
    gone,      \* pages that were closed
    paused,    \* pages with a request that waits for the interceptor
    held,      \* what the interceptor has signed and not yet released
    stuck,     \* pages with a request that could not be released
    sent,      \* history: the requests that have left the host
    misled     \* history: a navigation failed before any page was active

vars == <<guest, pending, reads, mission, setup, visible, hidden, session, pages, gone,
          paused, held, stuck, sent, misled>>

hostVars == <<mission, setup, visible, hidden>>
browserVars == <<session, pages, gone, paused, held, stuck, misled>>

Init ==
    /\ guest = [at |-> "running", call |-> 0, page |-> None, last |-> 0]
    /\ pending = 0
    /\ reads = <<>>
    /\ mission = [log |-> <<>>, count |-> 0, caps |-> {}]
    /\ setup \in [identity : BOOLEAN, key : BOOLEAN]
    /\ visible = TRUE
    /\ hidden = 0
    /\ session = [browser |-> "none", active |-> None, interceptor |-> None]
    /\ pages = {}
    /\ gone = {}
    /\ paused = {}
    /\ held = [page |-> None, env |-> {}]
    /\ stuck = {}
    /\ sent = {}
    /\ misled = FALSE

----------------------------------------------------------------------------
(* MissionState::record_activity and next_request, under the lock. *)
Recorded(m, e) ==
    [m EXCEPT !.log = Append(@, e), !.caps = @ \cup {Capability[e]}]
Counted(m, e) == [Recorded(m, e) EXCEPT !.count = @ + 1]

Record(e) == mission' = Recorded(mission, e)

(* build_signed_envelope: what the headers and the signature tell of m. *)
Told(m) == [count |-> m.count, log |-> m.log, caps |-> m.caps]

(* Mutant: the envelope summarizes what was done before its own request. *)
EnvelopesEarly(m) ==
    IF visible /\ setup.identity THEN {[Told(m) EXCEPT !.log = mission.log]} ELSE {}

(* Mutant: a hidden identity still signs. *)
EnvelopesAlways(m) == IF setup.identity THEN {Told(m)} ELSE {}

(* signed_envelope_for_request: the request always counts; the envelope is
   missing when the guest hid it, there is no identity, the nonce could not be
   drawn or a field is too long to sign. *)
Envelopes(m) == IF visible /\ setup.identity THEN {Told(m)} ELSE {}

Sign(e, env) ==
    /\ mission' = Counted(mission, e)
    /\ env \in SUBSET Envelopes(Counted(mission, e))

(* The bound leaves room for the entries that are still owed: one for each
   paused page and for a call that has not been recorded yet. *)
Owed == Cardinality(paused) + (IF guest.at \in {"http", "tcp", "ai", "navigate"} THEN 1 ELSE 0)
RoomFor(n) == Len(mission.log) + Owed + n <= MaxEvents

(* A request leaves the host: the call it is made for, or 0 for a page's, and
   its envelope, if any. *)
Send(call, env) == sent' = sent \cup {[call |-> call, hop |-> 0, env |-> env]}

(* The HTTP clients follow a redirect on their own, while the guest waits: the
   request leaves again for another place, with the headers it had, and is
   neither counted nor signed for that place. *)
Redirected ==
    /\ guest.at \in {"http_sent", "ai_sent"}
    /\ \E r \in sent :
         /\ r.call = guest.call
         /\ r.hop < MaxRedirects
         /\ sent' = sent \cup {[r EXCEPT !.hop = @ + 1]}
    /\ UNCHANGED <<guest, pending, reads, hostVars, browserVars>>

----------------------------------------------------------------------------
(* host_call: the payload is outside the memory, too long or negative. *)
CallRejected ==
    /\ guest.at = "running"
    /\ guest.call < MaxCalls
    /\ guest' = [guest EXCEPT !.call = @ + 1]
    /\ UNCHANGED <<pending, reads, sent, hostVars, browserVars>>

(* Mutant: an answer is kept back while another is unread. *)
AnswerIfFree(n) == IF pending = 0 THEN n ELSE pending

(* encode_result and the buffer: the answer, good or bad, replaces what the
   guest has not read. *)
Answer(n) == n

Return ==
    /\ guest' = [guest EXCEPT !.at = "running", !.page = None, !.last = guest.call]
    /\ pending' = Answer(guest.call)
    /\ UNCHANGED reads

(* host_call reaches the capability its payload names, or nothing could be
   decoded and the answer says so. *)
Undecoded ==
    /\ guest.at = "running"
    /\ guest.call < MaxCalls
    /\ guest' = [guest EXCEPT !.call = @ + 1, !.last = guest.call + 1]
    /\ pending' = Answer(guest.call + 1)
    /\ UNCHANGED <<reads, sent, hostVars, browserVars>>

Enter(at) ==
    /\ guest.at = "running"
    /\ guest.call < MaxCalls
    /\ RoomFor(IF at = "navigate" THEN 2 ELSE 1)
    /\ guest' = [guest EXCEPT !.at = at, !.call = @ + 1]
    /\ UNCHANGED <<pending, reads>>

----------------------------------------------------------------------------
(* NetworkSession::execute *)
BeginNetwork(at) ==
    /\ at \in {"http", "tcp"}
    /\ Enter(at)
    /\ UNCHANGED <<sent, hostVars, browserVars>>

(* The URL, the method or the body cannot be parsed; or an answer is there, or
   the connection, or it is refused, late, cut off, too long or redirected too
   often. *)
NetworkReturns ==
    /\ guest.at \in {"http", "http_sent", "tcp_sent"}
    /\ Return
    /\ UNCHANGED <<sent, hostVars, browserVars>>

(* http_headers_for_request, then the request is sent. *)
SendHttp ==
    /\ guest.at = "http"
    /\ guest' = [guest EXCEPT !.at = "http_sent"]
    /\ \/ \E env \in SUBSET Envelopes(Counted(mission, "http")) :
            Sign("http", env) /\ Send(guest.call, env)
       \/ Record("unbound") /\ Send(guest.call, {})
    /\ UNCHANGED <<pending, reads, setup, visible, hidden, browserVars>>

ConnectTcp ==
    /\ guest.at = "tcp"
    /\ guest' = [guest EXCEPT !.at = "tcp_sent"]
    /\ Record("tcp")
    /\ UNCHANGED <<pending, reads, setup, visible, hidden, sent, browserVars>>

----------------------------------------------------------------------------
(* ai::handle: without a key the call is only recorded, with one it is signed
   and sent; the client gives up after 60 seconds. *)
BeginAi ==
    /\ Enter("ai")
    /\ UNCHANGED <<sent, hostVars, browserVars>>

RefuseAi ==
    /\ guest.at = "ai"
    /\ ~setup.key
    /\ Record("ai_refused")
    /\ Return
    /\ UNCHANGED <<setup, visible, hidden, sent, browserVars>>

SendAi ==
    /\ guest.at = "ai"
    /\ setup.key
    /\ guest' = [guest EXCEPT !.at = "ai_sent"]
    /\ \E env \in SUBSET Envelopes(Counted(mission, "ai")) :
         Sign("ai", env) /\ Send(guest.call, env)
    /\ UNCHANGED <<pending, reads, setup, visible, hidden, browserVars>>

AiAnswers ==
    /\ guest.at = "ai_sent"
    /\ Return
    /\ UNCHANGED <<sent, hostVars, browserVars>>

----------------------------------------------------------------------------
(* browser::handle records the action, then waits for the session. *)
BeginBrowser(at) ==
    /\ at \in {"navigate", "act"}
    /\ Enter(at)
    /\ Record("browser_action")
    /\ UNCHANGED <<setup, visible, hidden, sent, browserVars>>

(* BrowserSession::ensure_browser: launched once and never replaced; its first
   page may take a while to be seen. *)
Launch ==
    /\ guest.at \in {"navigate", "act"}
    /\ session.browser = "none"
    /\ session' = [session EXCEPT !.browser = "up"]
    /\ \E p \in Page : pages' \in {{}, {p}}
    /\ UNCHANGED <<guest, pending, reads, paused, held, stuck, gone, misled, sent, hostVars>>

(* The launch, the page or the interceptor cannot be had, the page reports an
   error, or a wait is over. *)
BrowserFails ==
    /\ guest.at \in {"navigate", "act", "loading", "acting"}
    /\ Return
    /\ misled' = (misled \/ (guest.at = "loading" /\ session.active = None))
    /\ UNCHANGED <<session, pages, paused, held, stuck, gone, sent, hostVars>>

(* ensure_page_attestation: the first page that is worked on gets a listener,
   and the session never looks for another. *)
Intercept(s, p) ==
    IF s.interceptor = None THEN [s EXCEPT !.interceptor = p] ELSE s

(* Mutant: a navigation takes whichever page is open. *)
AnyOpenPage == IF pages # {} THEN pages ELSE Page \ gone

(* Mutant: the active page is used although it was closed. *)
ActivePage ==
    IF session.active # None THEN {session.active}
    ELSE IF pages # {} THEN pages ELSE Page \ gone

(* handle_navigate's page: the active one, an open one, or a new one. *)
NavigateIn ==
    IF session.active # None THEN {session.active} \cap pages
    ELSE IF pages # {} THEN pages ELSE Page \ gone

(* Only a new page becomes active before it has been navigated.  A page drops
   the requests of what it showed before. *)
Navigate ==
    /\ guest.at = "navigate"
    /\ session.browser = "up"
    /\ \E p \in NavigateIn :
         /\ session' = Intercept(
                [session EXCEPT !.active = IF pages = {} THEN p ELSE @], p)
         /\ pages' = pages \cup {p}
         /\ paused' = paused \cup {p}
         /\ stuck' = stuck \ {p}
         /\ guest' = [guest EXCEPT !.at = "loading", !.page = p]
    /\ UNCHANGED <<pending, reads, held, gone, misled, sent, hostVars>>

(* page.goto returns once the requests it waits for have been let through; one
   that is stuck may be none of them. *)
Navigated ==
    /\ guest.at = "loading"
    /\ guest.page \in pages \ (paused \cup {held.page})
    /\ session' = [session EXCEPT !.active = guest.page]
    /\ Return
    /\ UNCHANGED <<pages, paused, held, stuck, gone, misled, sent, hostVars>>

(* current_page, for every other action: the active page, else an open one,
   which is active from then on even if it cannot be intercepted. *)
Act ==
    /\ guest.at = "act"
    /\ session.browser = "up"
    /\ \E p \in (IF session.active # None THEN {session.active} \cap pages ELSE pages) :
         \/ /\ session' = Intercept([session EXCEPT !.active = p], p)
            /\ guest' = [guest EXCEPT !.at = "acting", !.page = p]
            /\ UNCHANGED <<pending, reads>>
         \/ /\ session.interceptor = None
            /\ session' = [session EXCEPT !.active = p]
            /\ Return
    /\ UNCHANGED <<pages, paused, held, stuck, gone, misled, sent, hostVars>>

Acted ==
    /\ guest.at = "acting"
    /\ guest.page \in pages
    /\ Return
    /\ UNCHANGED <<session, pages, paused, held, stuck, gone, misled, sent, hostVars>>

----------------------------------------------------------------------------
(* continue_attested_request: the interceptor signs under the lock ... *)
InterceptorSigns ==
    /\ held.page = None
    /\ session.interceptor \in paused
    /\ paused' = paused \ {session.interceptor}
    /\ \E env \in SUBSET Envelopes(Counted(mission, "browser_http")) :
         /\ Sign("browser_http", env)
         /\ held' = [page |-> session.interceptor, env |-> env]
    /\ UNCHANGED <<guest, pending, reads, setup, visible, hidden, session, pages, stuck, gone,
                   misled, sent>>

(* The listener drops the error of a release: the request stays where it is. *)
Stuck(p) == stuck \cup ({p} \cap pages)

(* ... and releases the request afterwards, which fails if the page has been
   closed, and may fail in any case. *)
InterceptorReleases ==
    /\ held.page # None
    /\ held' = [page |-> None, env |-> {}]
    /\ \/ held.page \in pages /\ Send(0, held.env) /\ UNCHANGED stuck
       \/ UNCHANGED sent /\ stuck' = Stuck(held.page)
    /\ UNCHANGED <<guest, pending, reads, session, pages, gone, paused, misled, hostVars>>

(* What needs no signature, not a http request or an answer, is released at
   once, if that can be done. *)
InterceptorPasses ==
    /\ held.page = None
    /\ session.interceptor \in paused
    /\ paused' = paused \ {session.interceptor}
    /\ stuck' \in {stuck, Stuck(session.interceptor)}
    /\ UNCHANGED <<guest, pending, reads, session, pages, gone, held, misled, sent, hostVars>>

(* The world behind the browser: a page asks for something, opens another
   page or is closed, and the browser may be gone. *)
PageRequests(p) ==
    /\ p \in pages \ paused
    /\ RoomFor(1)
    /\ paused' = paused \cup {p}
    /\ UNCHANGED <<guest, pending, reads, session, pages, held, stuck, gone, misled, sent,
                   hostVars>>

PagesChange ==
    /\ session.browser = "up"
    /\ \/ \E p \in Page \ (pages \cup gone) : pages' = pages \cup {p} /\ UNCHANGED session
       \/ \E p \in pages : pages' = pages \ {p} /\ UNCHANGED session
       \/ pages' = {} /\ session' = [session EXCEPT !.browser = "lost"]
    /\ gone' = gone \cup (pages \ pages')
    /\ paused' = paused \cap pages'
    /\ stuck' = stuck \cap pages'
    /\ UNCHANGED <<guest, pending, reads, held, misled, sent, hostVars>>

----------------------------------------------------------------------------
(* host_response_read with the length host_response_len gave.  With another
   length, or when the guest's memory cannot take it, the response stays. *)
ReadResponse ==
    /\ guest.at = "running"
    /\ pending # 0
    /\ reads' = Append(reads, pending)
    /\ pending' = 0
    /\ UNCHANGED <<guest, sent, hostVars, browserVars>>

(* The calls of the store (module KvStore) are recorded as well. *)
UseStore ==
    /\ guest.at = "running"
    /\ RoomFor(1)
    /\ Record("kv")
    /\ UNCHANGED <<guest, pending, reads, setup, visible, hidden, sent, browserVars>>

(* identity_disclosure_set *)
SetDisclosure(v) ==
    /\ guest.at = "running"
    /\ visible' = v
    /\ hidden' = IF v THEN 0 ELSE IF visible THEN mission.count ELSE hidden
    /\ UNCHANGED <<guest, pending, reads, mission, setup, sent, browserVars>>

Next ==
    \/ CallRejected
    \/ Undecoded
    \/ \E at \in {"http", "tcp"} : BeginNetwork(at)
    \/ SendHttp
    \/ ConnectTcp
    \/ Redirected
    \/ NetworkReturns
    \/ BeginAi
    \/ RefuseAi
    \/ SendAi
    \/ AiAnswers
    \/ \E at \in {"navigate", "act"} : BeginBrowser(at)
    \/ Launch
    \/ BrowserFails
    \/ Navigate
    \/ Navigated
    \/ Act
    \/ Acted
    \/ InterceptorSigns
    \/ InterceptorReleases
    \/ InterceptorPasses
    \/ \E p \in Page : PageRequests(p)
    \/ PagesChange
    \/ ReadResponse
    \/ UseStore
    \/ \E v \in BOOLEAN : SetDisclosure(v)

Spec == Init /\ [][Next]_vars

(* The interceptor task is scheduled, a page whose requests are all let through
   time and again loads, and a call on a page that is gone fails.  That a
   release succeeds, or that a call is given up after a while, is not assumed. *)
Fairness ==
    /\ WF_vars(InterceptorSigns \/ InterceptorPasses)
    /\ WF_vars(InterceptorReleases)
    /\ SF_vars(Navigated /\ guest.page \notin stuck)
    /\ WF_vars(BrowserFails /\ guest.page \in gone)

FairSpec == Spec /\ Fairness

----------------------------------------------------------------------------
Envelope == [count : Nat, log : Seq(Event), caps : SUBSET {"network", "ai", "browser", "kv"}]

(* Every variable stays in its type. *)
TypeOK ==
    /\ guest \in [at : {"running", "http", "http_sent", "tcp", "tcp_sent", "ai", "ai_sent",
                       "navigate", "loading", "act", "acting"},
                 call : 0..MaxCalls, page : Page \cup {None}, last : 0..MaxCalls]
    /\ pending \in 0..MaxCalls
    /\ reads \in Seq(1..MaxCalls)
    /\ mission \in Envelope
    /\ Len(mission.log) <= MaxEvents
    /\ setup \in [identity : BOOLEAN, key : BOOLEAN]
    /\ visible \in BOOLEAN
    /\ hidden \in 0..mission.count
    /\ session \in [browser : {"none", "up", "lost"}, active : Page \cup {None},
                   interceptor : Page \cup {None}]
    /\ pages \subseteq Page
    /\ gone \subseteq Page \ pages
    /\ paused \subseteq pages
    /\ stuck \subseteq pages
    /\ held \in [page : Page \cup {None}, env : SUBSET Envelope]
    /\ sent \subseteq [call : 0..MaxCalls, hop : 0..MaxRedirects, env : SUBSET Envelope]
    /\ misled \in BOOLEAN

(* host_response_read: what waits for the guest answers its last call that was
   accepted, and it reads no answer twice or after a later one, whatever
   calls were rejected, failed or left unread in between. *)
AnswersAreCurrent ==
    /\ pending \in {0, guest.last}
    /\ \A i, j \in 1..Len(reads) : i < j => reads[i] < reads[j]
    /\ \A i \in 1..Len(reads) : reads[i] <= guest.last /\ (pending # 0 => reads[i] < pending)

(* signed_envelope_for_request: whoever signs, guest or interceptor, an envelope
   tells all that was done up to its own request and nothing else: its count
   and capabilities are those of its log, and of two envelopes the one with
   the smaller count is the beginning of the other.  An envelope leaves again
   only with the redirects of its own call; no other call and no page sends it. *)
Signed == held.env \cup UNION {s.env : s \in sent}
EnvelopesTell ==
    /\ \A e \in Signed :
          /\ e.count = Cardinality({i \in 1..Len(e.log) : e.log[i] \in Request})
          /\ e.caps = {Capability[e.log[i]] : i \in 1..Len(e.log)}
          /\ e.log # <<>> /\ Last(e.log) \in Request
    /\ \A e, f \in Signed : e.count < f.count => IsStrictPrefix(e.log, f.log)
    /\ \A r, s \in sent : r # s /\ r.env \cap s.env # {} => r.call = s.call /\ r.call # 0
    /\ \A s \in sent : s.env \cap held.env = {}

(* identity_disclosure_set: while the guest has its identity hidden, nothing
   that was signed since the hide leaves the host, in a new request, a redirect
   or a page's request.  The one envelope that may still leave is that of the
   request the interceptor was releasing when the identity was hidden. *)
HideIsEffective ==
    [][\A r \in sent' \ sent : \A e \in r.env :
          visible \/ (e \in held.env /\ e.count <= hidden)]_vars

(* handle_navigate and the interceptor: a page that is being loaded gets its
   requests back and the call returns, without a timeout.  There are two ways
   not to: an earlier navigation has failed before any page was active, and the
   interceptor stays with the page of that navigation; or the release of one of
   the page's requests fails, an error nobody sees. *)
PageLoads ==
    guest.at = "loading" /\ ~misled ~> guest.at # "loading" \/ guest.page \in stuck
=============================================================================
