-------------------------- MODULE SafeApprovalProofs --------------------------
(***************************************************************************)
(* ShownIsCompleted and, in the second part, ApprovalIsRecent, for any number  *)
(* of tabs and jobs.  The first part: every generation that a tab shows, asks  *)
(* a lease for or finds in local storage came from the status of a job that    *)
(* had ended safely, and no job leaves that state.                             *)
(***************************************************************************)
EXTENDS SafeApproval, TLAPS

Requests == [gen : Nat, left : Int, yes : Int]
Pages ==
  [open : BOOLEAN, gone : BOOLEAN, visible : BOOLEAN, loading : BOOLEAN,
   auth : Nat, green : Nat, watch : Int, expiry : Int, renew : Requests, show : Requests,
   jobs : SUBSET Nat, asked : Nat]
Safes == [gen : Nat, age : Int]
Events == [key : {"safe", "authority"}, gen : Nat]
Worlds == [page : Pages, safe : Safes, published : Nat, sent : SUBSET Events]

Completed == {g \in Gens : job[g] = "safe"}

(* A page, and a world, that speaks of the generations of C only.             *)
Speaks(p, C) == p \in Pages /\ {p.green, p.renew.gen, p.show.gen} \subseteq C \cup {0}
Vouched(w, C) == w \in Worlds /\ Speaks(w.page, C) /\ w.safe.gen \in C \cup {0}

States == {"none", "queued", "running", "safe", "failed", "expired"}
Server0 ==
  /\ job \in [Gens -> States] /\ gen \in 0 .. MaxGen
  /\ \A g \in Gens : g > gen => job[g] = "none"
Browsers ==
  /\ page \in [Tabs -> Pages] /\ mail \in [Tabs -> SUBSET Events]
  /\ safe \in Safes /\ published \in Nat
Honest ==
  /\ Server0 /\ Browsers
  /\ \A t \in Tabs : Speaks(page[t], Completed)
  /\ safe.gen \in Completed \cup {0}

LEMMA Numbers == MaxGen \in Nat /\ Lease \in Nat /\ Watchdog \in Nat /\ Timeout \in Nat /\ Late \in Nat /\ Gens \subseteq Nat /\ Off \in Int
  BY ApprovalAssumption DEF ApprovalAssumption, Gens, Off

LEMMA VouchedPage ==
  ASSUME NEW w, NEW C, NEW p, Vouched(w, C), Speaks(p, C)
  PROVE  Vouched([w EXCEPT !.page = p], C)
  BY DEF Vouched, Speaks, Worlds

LEMMA ClearVouches ==
  ASSUME NEW w, NEW C, Vouched(w, C)
  PROVE  Vouched(Clear(w), C)
<1>1. w \in Worlds /\ w.page \in Pages
  BY DEF Vouched, Worlds
<1> DEFINE p == [w.page EXCEPT !.green = 0, !.watch = Off, !.expiry = Off]
<1>2. Speaks(p, C)
  BY <1>1, Numbers DEF Vouched, Speaks, Pages
<1>3. Clear(w) = [w EXCEPT !.page = p]
  BY <1>1 DEF Clear, Worlds
<1> QED BY <1>2, <1>3, VouchedPage

LEMMA StoreVouches ==
  ASSUME NEW w, NEW C, NEW s \in Safes, Vouched(w, C), s.gen \in C \cup {0}
  PROVE  Vouched(Store(w, s), C)
<1> DEFINE e == IF s = NoSafe /\ w.safe = NoSafe THEN {} ELSE {[key |-> "safe", gen |-> s.gen]}
<1>1. e \subseteq Events
  BY DEF Safes, Events
<1>2. Store(w, s) = [w EXCEPT !.safe = s, !.sent = @ \cup e]
  BY DEF Store
<1> HIDE DEF e
<1> QED BY <1>1, <1>2 DEF Vouched, Speaks, Worlds

LEMMA RevokeVouches ==
  ASSUME NEW w, NEW C, Vouched(w, C)
  PROVE  Vouched(Revoke(w), C)
  BY ClearVouches, StoreVouches DEF Revoke, NoSafe, Safes

LEMMA AuthorityVouches ==
  ASSUME NEW w, NEW C, NEW a \in Nat, NEW publish \in BOOLEAN, Vouched(w, C)
  PROVE  Vouched(ApplyAuthority(w, a, publish), C)
<1> DEFINE p == IF publish THEN a ELSE w.published
<1> DEFINE v == [w EXCEPT !.page.auth = a, !.published = p,
              !.sent = @ \cup IF p = w.published THEN {} ELSE {[key |-> "authority", gen |-> a]}]
<1>1. Vouched(v, C)
  <2> DEFINE e == IF p = w.published THEN {} ELSE {[key |-> "authority", gen |-> a]}
  <2>1. e \subseteq Events /\ p \in Nat
    BY DEF Events, Vouched, Worlds
  <2>2. [w.page EXCEPT !.auth = a] \in Pages /\ Speaks([w.page EXCEPT !.auth = a], C)
    BY DEF Vouched, Speaks, Pages, Worlds
  <2>3. v = [w EXCEPT !.page = [w.page EXCEPT !.auth = a], !.published = p, !.sent = w.sent \cup e]
    BY DEF Vouched, Worlds
  <2> HIDE DEF e, p, v
  <2> QED BY <2>1, <2>2, <2>3 DEF Vouched, Worlds
<1> QED BY <1>1, RevokeVouches DEF ApplyAuthority

LEMMA ScheduleVouches ==
  ASSUME NEW w, NEW C, NEW delay \in Int, Vouched(w, C)
  PROVE  Vouched(Schedule(w, delay), C)
<1>1. Vouched([w EXCEPT !.page.watch = delay, !.page.expiry = Lease - w.safe.age], C)
  <2> DEFINE p == [w.page EXCEPT !.watch = delay, !.expiry = Lease - w.safe.age]
  <2>1. Lease - w.safe.age \in Int
    BY Numbers DEF Vouched, Worlds, Safes
  <2>2. Speaks(p, C)
    BY <2>1 DEF Vouched, Speaks, Worlds, Pages
  <2>3. [w EXCEPT !.page.watch = delay, !.page.expiry = Lease - w.safe.age] = [w EXCEPT !.page = p]
    BY DEF Vouched, Worlds
  <2> QED BY <2>2, <2>3, VouchedPage
<1> QED BY <1>1, ClearVouches, RevokeVouches DEF Schedule

LEMMA ShowVouches ==
  ASSUME NEW w, NEW C, NEW g \in Nat, g \in C, Vouched(w, C)
  PROVE  Vouched(Show(w, g), C)
<1>1. Vouched(Store(w, [gen |-> g, age |-> 0]), C)
  BY StoreVouches DEF Safes
<1>2. Vouched([Store(w, [gen |-> g, age |-> 0]) EXCEPT !.page.green = g], C)
  BY <1>1 DEF Vouched, Speaks, Worlds, Pages
<1> QED BY <1>2, ScheduleVouches, Numbers DEF Show

LEMMA VerifyVouches ==
  ASSUME NEW w, NEW C, Vouched(w, C)
  PROVE  Vouched(Verify(w), C)
<1>1. Vouched([w EXCEPT !.page.watch = Off, !.page.renew = Request(w.safe.gen)], C)
  <2>1. Request(w.safe.gen) \in Requests /\ Request(w.safe.gen).gen \in C \cup {0}
    BY Numbers DEF Requests, Request, Safes, Vouched, Worlds
  <2> DEFINE p == [w.page EXCEPT !.watch = Off, !.renew = Request(w.safe.gen)]
  <2>2. Speaks(p, C)
    BY <2>1, Numbers DEF Vouched, Speaks, Worlds, Pages
  <2>3. [w EXCEPT !.page.watch = Off, !.page.renew = Request(w.safe.gen)] = [w EXCEPT !.page = p]
    BY DEF Vouched, Worlds
  <2> QED BY <2>2, <2>3, VouchedPage
<1>2. Watchdog - w.safe.age \in Int
  BY Numbers DEF Vouched, Worlds, Safes
<1> QED BY <1>1, <1>2, ClearVouches, RevokeVouches, ScheduleVouches DEF Verify

-----------------------------------------------------------------------------
LEMMA WorldVouched ==
  ASSUME Honest, NEW t \in Tabs
  PROVE  Vouched(World(t), Completed) /\ page[t] \in Pages /\ mail[t] \subseteq Events
  BY DEF Honest, Browsers, Vouched, World, Worlds, Speaks

(* What a handler of a tab leaves is honest when its world is.                 *)
LEMMA DoesHonestly ==
  ASSUME Honest, NEW t \in Tabs, NEW w, Vouched(w, Completed), Does(t, w), UNCHANGED serverVars
  PROVE  Honest'
<1>1. Server0' /\ Completed' = Completed
  BY DEF Honest, Server0, Completed, serverVars
<1>2. w.page \in Pages /\ w.safe \in Safes /\ w.published \in Nat /\ w.sent \subseteq Events
  BY DEF Vouched, Worlds
<1>3. page' \in [Tabs -> Pages] /\ safe' \in Safes /\ published' \in Nat
  BY <1>2 DEF Does, Honest, Browsers
<1>4. mail' \in [Tabs -> SUBSET Events]
  <2>1. \A u \in Tabs : (IF u # t /\ page[u].open THEN mail[u] \cup w.sent ELSE mail[u]) \subseteq Events
    BY <1>2 DEF Honest, Browsers
  <2> QED BY <2>1 DEF Does
<1>5. \A u \in Tabs : Speaks(page'[u], Completed)
  <2> TAKE u \in Tabs
  <2>1. page'[u] = IF u = t THEN w.page ELSE page[u]
    BY DEF Does, Honest, Browsers
  <2> QED BY <2>1 DEF Honest, Vouched
<1>6. safe'.gen \in Completed \cup {0}
  BY DEF Does, Vouched
<1> QED BY <1>1, <1>3, <1>4, <1>5, <1>6 DEF Honest, Browsers, Speaks

(* A step of the server only adds to the jobs that have ended safely.          *)
LEMMA ServerHonestly ==
  ASSUME Honest, Server0', Completed \subseteq Completed', ServerStep
  PROVE  Honest'
<1>1. Browsers' /\ page' = page /\ safe' = safe
  BY DEF Honest, Browsers, ServerStep, storage
<1> QED BY <1>1 DEF Honest, Speaks

LEMMA NewJobHonest ==
  ASSUME Honest, NewJob
  PROVE  Server0' /\ Completed \subseteq Completed'
<1>1. gen + 1 \in Gens /\ job[gen + 1] = "none" /\ gen \in Nat
  BY Numbers DEF Honest, Server0, NewJob, Gens
<1>2. Server0'
  BY <1>1, Numbers DEF Honest, Server0, NewJob, Gens, States
<1>3. Completed \subseteq Completed'
  BY <1>1 DEF Honest, Server0, NewJob, Completed
<1> QED BY <1>2, <1>3

LEMMA ServerKeeps ==
  ASSUME Honest, NEW g \in Gens,
         DeviceComesOrGoes \/ LaunchElsewhere \/ WorkerStarts(g) \/ WorkerEnds(g) \/ Expire(g)
  PROVE  Honest'
<1>1. CASE DeviceComesOrGoes
  BY <1>1, ServerHonestly DEF DeviceComesOrGoes, Honest, Server0, Completed
<1>2. CASE LaunchElsewhere
  BY <1>2, ServerHonestly, NewJobHonest DEF LaunchElsewhere
<1>3. ASSUME NEW e \in States, job[g] \notin {"none", "safe"}, job' = [job EXCEPT ![g] = e],
             gen' = gen, ServerStep
      PROVE  Honest'
  BY <1>3, ServerHonestly DEF Honest, Server0, Completed
<1>4. CASE WorkerStarts(g)
  BY <1>3, <1>4 DEF WorkerStarts, States
<1>5. CASE WorkerEnds(g)
  <2>1. PICK e \in {"failed", "safe"} : job' = [job EXCEPT ![g] = e]
    BY <1>5 DEF WorkerEnds
  <2> QED BY <1>3, <1>5, <2>1 DEF WorkerEnds, States
<1>6. CASE Expire(g)
  BY <1>3, <1>6 DEF Expire, States
<1> QED BY <1>1, <1>2, <1>4, <1>5, <1>6

-----------------------------------------------------------------------------
(* Steps that touch pages without a handler.                                  *)
LEMMA PagesHonestly ==
  ASSUME Honest, Server0', Completed \subseteq Completed', page' \in [Tabs -> Pages],
         mail' \in [Tabs -> SUBSET Events], safe' \in Safes, published' = published,
         safe'.gen \in Completed \cup {0},
         \A t \in Tabs : Speaks(page'[t], Completed)
  PROVE  Honest'
  BY DEF Honest, Browsers, Speaks

LEMMA OnePageHonestly ==
  ASSUME Honest, NEW t \in Tabs, NEW p, Speaks(p, Completed), page' = [page EXCEPT ![t] = p],
         Server0', Completed \subseteq Completed', UNCHANGED storage,
         mail' \in [Tabs -> SUBSET Events]
  PROVE  Honest'
<1>1. page' \in [Tabs -> Pages] /\ \A u \in Tabs : Speaks(page'[u], Completed)
  BY DEF Honest, Browsers, Speaks
<1> QED BY <1>1, PagesHonestly DEF Honest, Browsers, storage

LEMMA ServerStill ==
  ASSUME Honest, UNCHANGED serverVars
  PROVE  Server0' /\ Completed' = Completed
  BY DEF Honest, Server0, Completed, serverVars

LEMMA GrantLeaseKeeps ==
  ASSUME Honest, NEW t \in Tabs, NEW r \in {"renew", "show"}, GrantLease(t, r)
  PROVE  Honest'
<1> DEFINE p == [page[t] EXCEPT ![r].yes = Late]
<1>1. page[t] \in Pages /\ Speaks(page[t], Completed)
  BY DEF Honest, Browsers
<1>2. Speaks(p, Completed)
  <2>1. CASE r = "renew"
    BY <1>1, <2>1, Numbers DEF Speaks, Pages, Requests
  <2>2. CASE r = "show"
    BY <1>1, <2>2, Numbers DEF Speaks, Pages, Requests
  <2> QED BY <2>1, <2>2
<1>3. page' = [page EXCEPT ![t] = p]
  BY DEF GrantLease
<1> HIDE DEF p
<1> QED BY <1>2, <1>3, OnePageHonestly, ServerStill DEF GrantLease, Honest, Browsers

LEMMA LaunchKeeps ==
  ASSUME Honest, NEW t \in Tabs, Launch(t)
  PROVE  Honest'
<1> DEFINE p == [page[t] EXCEPT !.asked = gen + 1]
<1>1. Speaks(p, Completed)
  BY DEF Honest, Browsers, Speaks, Pages, Server0
<1>2. page' = [page EXCEPT ![t] = p]
  BY DEF Launch
<1> HIDE DEF p
<1> QED BY <1>1, <1>2, OnePageHonestly, NewJobHonest DEF Launch, Honest, Browsers

LEMMA OpenCloseHideKeep ==
  ASSUME Honest, NEW t \in Tabs,
         Open(t) \/ Close(t) \/ Hide(t) \/ Headers(t, "renew") \/ Headers(t, "show")
  PROVE  Honest'
<1>1. NoRequest \in Requests /\ NoRequest.gen = 0
  BY Numbers DEF NoRequest, Requests
<1>2. Speaks(Closed, Completed)
  BY <1>1, Numbers DEF Speaks, Pages, Closed
<1>3. CASE Open(t)
  <2>1. Speaks(Loading, Completed)
    BY <1>2 DEF Speaks, Pages, Loading
  <2> QED BY <1>3, <2>1, OnePageHonestly, ServerStill DEF Open, Honest, Browsers
<1>4. CASE Close(t)
  <2> DEFINE p == [Closed EXCEPT !.gone = TRUE]
  <2>1. Speaks(p, Completed)
    BY <1>2 DEF Speaks, Pages
  <2>2. page' = [page EXCEPT ![t] = p] /\ mail' \in [Tabs -> SUBSET Events]
    BY <1>4 DEF Close, Honest, Browsers
  <2> HIDE DEF p
  <2> QED BY <1>4, <2>1, <2>2, OnePageHonestly, ServerStill DEF Close
<1>5. CASE Hide(t)
  <2> DEFINE p == [page[t] EXCEPT !.visible = FALSE]
  <2>1. Speaks(p, Completed)
    BY DEF Honest, Browsers, Speaks, Pages
  <2>2. page' = [page EXCEPT ![t] = p]
    BY <1>5 DEF Hide
  <2> HIDE DEF p
  <2> QED BY <1>5, <2>1, <2>2, OnePageHonestly, ServerStill DEF Hide, Honest, Browsers
<1>6. ASSUME NEW r \in {"renew", "show"}, Headers(t, r) PROVE Honest'
  <2> DEFINE p == [page[t] EXCEPT ![r].left = Off]
  <2>1. page[t] \in Pages /\ Speaks(page[t], Completed)
    BY DEF Honest, Browsers
  <2>2. Speaks(p, Completed)
    <3>1. CASE r = "renew"
      BY <2>1, <3>1, Numbers DEF Speaks, Pages, Requests
    <3>2. CASE r = "show"
      BY <2>1, <3>2, Numbers DEF Speaks, Pages, Requests
    <3> QED BY <3>1, <3>2
  <2>3. page' = [page EXCEPT ![t] = p]
    BY <1>6 DEF Headers
  <2> HIDE DEF p
  <2> QED BY <1>6, <2>2, <2>3, OnePageHonestly, ServerStill DEF Headers, Honest, Browsers
<1> QED BY <1>3, <1>4, <1>5, <1>6

LEMMA TickKeeps ==
  ASSUME Honest, Tick
  PROVE  Honest'
<1>1. \A n \in Int : Down(n) \in Int
  BY DEF Down
<1> DEFINE q(t) == [page[t] EXCEPT !.watch = Down(@), !.expiry = Down(@),
                                  !.renew = Wait(@), !.show = Wait(@)]
<1>2. ASSUME NEW t \in Tabs PROVE Speaks(q(t), Completed)
  <2>1. page[t] \in Pages /\ Speaks(page[t], Completed)
    BY DEF Honest, Browsers
  <2> DEFINE r == Wait(page[t].renew)
  <2> DEFINE s == Wait(page[t].show)
  <2>2. /\ r \in Requests /\ r.gen = page[t].renew.gen
        /\ s \in Requests /\ s.gen = page[t].show.gen
    <3>1. ASSUME NEW x \in Requests PROVE Wait(x) \in Requests /\ Wait(x).gen = x.gen
      <4> DEFINE l == Down(x.left)
      <4> DEFINE y == IF x.yes = Off THEN Off ELSE x.yes - 1
      <4>1. l \in Int /\ y \in Int
        BY <1>1, Numbers DEF Requests
      <4>2. Wait(x) = [x EXCEPT !.left = l, !.yes = y]
        BY DEF Wait
      <4> HIDE DEF l, y
      <4> QED BY <4>1, <4>2 DEF Requests
    <3> QED BY <2>1, <3>1 DEF Pages
  <2> DEFINE a == Down(page[t].watch)
  <2> DEFINE b == Down(page[t].expiry)
  <2>3. a \in Int /\ b \in Int
    BY <1>1, <2>1 DEF Pages
  <2>4. q(t) = [page[t] EXCEPT !.watch = a, !.expiry = b, !.renew = r, !.show = s]
    BY <2>1 DEF Pages, Requests
  <2> HIDE DEF r, s, a, b
  <2>5. Speaks([page[t] EXCEPT !.watch = a, !.expiry = b, !.renew = r, !.show = s], Completed)
    BY <2>1, <2>2, <2>3 DEF Speaks, Pages
  <2> HIDE DEF q
  <2> QED BY <2>4, <2>5
<1>3. page' = [t \in Tabs |-> q(t)]
  BY DEF Tick
<1>4. safe' \in Safes /\ safe'.gen = safe.gen
  <2>1. safe.age + 1 \in Int /\ Least(safe.age + 1, Lease) \in Int /\ safe \in Safes
    BY Numbers DEF Honest, Browsers, Safes, Least
  <2>2. [safe EXCEPT !.age = Least(@ + 1, Lease)] = [safe EXCEPT !.age = Least(safe.age + 1, Lease)]
    OBVIOUS
  <2> QED BY <2>1, <2>2 DEF Tick, Safes
<1> HIDE DEF q
<1>5. page' \in [Tabs -> Pages] /\ \A t \in Tabs : Speaks(page'[t], Completed)
  BY <1>2, <1>3 DEF Speaks
<1> QED BY <1>4, <1>5, ServerStill, PagesHonestly DEF Tick, Honest, Browsers

-----------------------------------------------------------------------------
(* The handlers.                                                              *)
LEMMA AnsweredVouches ==
  ASSUME Honest, NEW t \in Tabs
  PROVE  Vouched(Answered(t), Completed)
<1> DEFINE p == [World(t).page EXCEPT !.asked = 0]
<1>1. Speaks(p, Completed)
  BY WorldVouched DEF Vouched, Speaks, Pages
<1>2. Answered(t) = [World(t) EXCEPT !.page = p]
  BY DEF Answered
<1> HIDE DEF p
<1> QED BY <1>1, <1>2, WorldVouched, VouchedPage

(* Fields of a page that name no approval.                                     *)
LEMMA PlainVouches ==
  ASSUME NEW w, NEW C, Vouched(w, C)
  PROVE  /\ \A J \in SUBSET Nat : Vouched([w EXCEPT !.page.jobs = J], C)
         /\ \A b \in BOOLEAN : Vouched([w EXCEPT !.page.loading = b], C)
         /\ \A b \in BOOLEAN : Vouched([w EXCEPT !.page.visible = b], C)
         /\ \A n \in Int : Vouched([w EXCEPT !.page.watch = n], C)
         /\ \A n \in Int : Vouched([w EXCEPT !.page.expiry = n], C)
         /\ Vouched([w EXCEPT !.page.renew = NoRequest], C)
<1>1. w.page \in Pages /\ w \in Worlds /\ NoRequest \in Requests /\ NoRequest.gen = 0
  BY Numbers DEF Vouched, Worlds, NoRequest, Requests
<1>2. ASSUME NEW J \in SUBSET Nat PROVE Vouched([w EXCEPT !.page.jobs = J], C)
  BY <1>1 DEF Vouched, Speaks, Worlds, Pages
<1>3. ASSUME NEW b \in BOOLEAN
      PROVE  Vouched([w EXCEPT !.page.loading = b], C) /\ Vouched([w EXCEPT !.page.visible = b], C)
  BY <1>1 DEF Vouched, Speaks, Worlds, Pages
<1>4. ASSUME NEW n \in Int
      PROVE  Vouched([w EXCEPT !.page.watch = n], C) /\ Vouched([w EXCEPT !.page.expiry = n], C)
  BY <1>1 DEF Vouched, Speaks, Worlds, Pages
<1>5. Vouched([w EXCEPT !.page.renew = NoRequest], C)
  BY <1>1 DEF Vouched, Speaks, Worlds, Pages
<1> QED BY <1>2, <1>3, <1>4, <1>5

LEMMA ShowRequestVouches ==
  ASSUME NEW w, NEW C, Vouched(w, C), NEW g \in Nat, g \in C \cup {0}
  PROVE  /\ Vouched([w EXCEPT !.page.show = Request(g)], C)
         /\ Vouched([w EXCEPT !.page.show = NoRequest], C)
<1>1. w.page \in Pages /\ w \in Worlds /\ NoRequest \in Requests /\ NoRequest.gen = 0
  BY Numbers DEF Vouched, Worlds, NoRequest, Requests
<1>2. Request(g) \in Requests /\ Request(g).gen = g
  BY Numbers DEF Request, Requests
<1> QED BY <1>1, <1>2 DEF Vouched, Speaks, Worlds, Pages

LEMMA LaunchAnswerKeeps ==
  ASSUME Honest, NEW t \in Tabs, LaunchAccepted(t) \/ LaunchRefused(t)
  PROVE  Honest'
<1> DEFINE g == page[t].asked
<1>1. g \in Nat
  BY WorldVouched DEF Pages
<1>2. CASE LaunchAccepted(t)
  <2> DEFINE v == Revoke(Answered(t))
  <2> DEFINE w == [v EXCEPT !.page.jobs = @ \cup {g}]
  <2>1. Vouched(v, Completed)
    BY AnsweredVouches, RevokeVouches
  <2>2. v.page.jobs \cup {g} \in SUBSET Nat
    BY <1>1, <2>1 DEF Vouched, Worlds, Pages
  <2>3. Vouched(w, Completed)
    <3> HIDE DEF v, g
    <3>1. w = [v EXCEPT !.page.jobs = v.page.jobs \cup {g}]
      OBVIOUS
    <3> HIDE DEF w
    <3> QED BY <2>1, <2>2, <3>1, PlainVouches
  <2>4. Does(t, ApplyAuthority(w, g, TRUE)) /\ UNCHANGED serverVars
    BY <1>2 DEF LaunchAccepted
  <2> HIDE DEF v, w
  <2> QED BY <1>1, <2>3, <2>4, AuthorityVouches, DoesHonestly
<1>3. CASE LaunchRefused(t)
  <2>1. UNCHANGED serverVars
    BY <1>3 DEF LaunchRefused
  <2>2. CASE Does(t, Answered(t))
    BY <2>1, <2>2, AnsweredVouches, DoesHonestly
  <2>3. CASE Does(t, ApplyAuthority(Answered(t), g, TRUE))
    BY <1>1, <2>1, <2>3, AnsweredVouches, AuthorityVouches, DoesHonestly
  <2> QED BY <1>3, <2>2, <2>3 DEF LaunchRefused
<1> QED BY <1>2, <1>3

LEMMA PollKeeps ==
  ASSUME Honest, NEW t \in Tabs, NEW g \in Gens, Poll(t, g)
  PROVE  Honest'
<1>1. UNCHANGED serverVars /\ page[t].show = NoRequest
  BY DEF Poll
<1>2. PICK a \in g..gen :
        LET w == ApplyAuthority(World(t), a, TRUE) IN
        \/ Does(t, w)
        \/ /\ job[g] \in {"safe", "failed", "expired"}
           /\ Does(t, [w EXCEPT !.page.jobs = @ \ {g},
                                !.page.show = IF job[g] = "safe" /\ a = g THEN Request(g) ELSE @])
  BY DEF Poll
<1> DEFINE w == ApplyAuthority(World(t), a, TRUE)
<1>3. Vouched(w, Completed)
  <2>1. a \in Nat
    BY Numbers DEF Honest, Server0, Gens
  <2> QED BY <2>1, WorldVouched, AuthorityVouches
<1> DEFINE v == [w EXCEPT !.page.jobs = @ \ {g}]
<1>4. Vouched(v, Completed)
  <2>1. w.page.jobs \ {g} \in SUBSET Nat
    BY <1>3 DEF Vouched, Worlds, Pages
  <2> HIDE DEF w
  <2>2. v = [w EXCEPT !.page.jobs = w.page.jobs \ {g}]
    BY <1>3 DEF Vouched, Worlds, Pages
  <2> QED BY <1>3, <2>1, <2>2, PlainVouches
<1> DEFINE s == IF job[g] = "safe" /\ a = g THEN Request(g) ELSE w.page.show
<1>5. Vouched([v EXCEPT !.page.show = s], Completed)
  <2>1. CASE job[g] = "safe" /\ a = g
    <3>1. g \in Completed /\ g \in Nat
      BY <2>1, Numbers DEF Completed
    <3> QED BY <1>4, <2>1, <3>1, ShowRequestVouches
  <2>2. CASE ~(job[g] = "safe" /\ a = g)
    <3>1. [v EXCEPT !.page.show = s] = v
      BY <1>3, <2>2 DEF Vouched, Worlds, Pages
    <3> QED BY <1>4, <3>1
  <2> QED BY <2>1, <2>2
<1>6. [v EXCEPT !.page.show = s]
        = [w EXCEPT !.page.jobs = @ \ {g},
                    !.page.show = IF job[g] = "safe" /\ a = g THEN Request(g) ELSE @]
  BY <1>3 DEF Vouched, Worlds, Pages
<1>7. Does(t, w) \/ Does(t, [v EXCEPT !.page.show = s])
  BY <1>2, <1>6
<1> HIDE DEF w, v, s
<1> QED BY <1>1, <1>3, <1>5, <1>7, DoesHonestly

LEMMA ShowEndsKeeps ==
  ASSUME Honest, NEW t \in Tabs, ShowEnds(t)
  PROVE  Honest'
<1> DEFINE g == page[t].show.gen
<1> DEFINE v == [World(t) EXCEPT !.page.show = NoRequest]
<1> DEFINE w == [v EXCEPT !.page.loading = FALSE]
<1>1. g \in Completed /\ g \in Nat
  BY Numbers DEF ShowEnds, Honest, Speaks, Completed
<1>2. Vouched(v, Completed)
  BY <1>1, WorldVouched, ShowRequestVouches
<1>3. Vouched(w, Completed)
  BY <1>2, PlainVouches
<1>4. w = [World(t) EXCEPT !.page.show = NoRequest, !.page.loading = FALSE]
  OBVIOUS
<1>5. /\ UNCHANGED serverVars
      /\ \/ Does(t, Show(ApplyAuthority(w, g, TRUE), g)) \/ Does(t, Revoke(w)) \/ Does(t, w)
  BY <1>4 DEF ShowEnds
<1> HIDE DEF w, v, g
<1>6. /\ Vouched(Show(ApplyAuthority(w, g, TRUE), g), Completed) /\ Vouched(Revoke(w), Completed)
  BY <1>1, <1>3, AuthorityVouches, ShowVouches, RevokeVouches
<1> QED BY <1>3, <1>5, <1>6, DoesHonestly

LEMMA RenewEndsKeeps ==
  ASSUME Honest, NEW t \in Tabs, RenewEnds(t)
  PROVE  Honest'
<1> DEFINE g == page[t].renew.gen
<1> DEFINE w == [World(t) EXCEPT !.page.renew = NoRequest]
<1> DEFINE v == ApplyAuthority(w, g, TRUE)
<1> DEFINE u == IF v.safe = NoSafe THEN v ELSE Store(v, [gen |-> g, age |-> 0])
<1>1. g \in Completed \cup {0} /\ g \in Nat
  BY WorldVouched DEF Honest, Speaks, Pages, Requests
<1>2. Vouched(w, Completed)
  BY WorldVouched, PlainVouches
<1>3. Vouched(v, Completed)
  BY <1>1, <1>2, AuthorityVouches
<1>4. Vouched(u, Completed)
  <2>1. [gen |-> g, age |-> 0] \in Safes /\ [gen |-> g, age |-> 0].gen = g
    BY <1>1 DEF Safes
  <2> HIDE DEF g, v
  <2> QED BY <1>1, <1>3, <2>1, StoreVouches
<1>5. /\ UNCHANGED serverVars
      /\ Does(t, Schedule(u, Watchdog)) \/ Does(t, Clear(ApplyAuthority(Revoke(w), 0, TRUE)))
  BY DEF RenewEnds
<1> HIDE DEF g, w, v, u
<1>6. Vouched(Schedule(u, Watchdog), Completed)
  BY <1>4, Numbers, ScheduleVouches
<1>7. Vouched(ApplyAuthority(Revoke(w), 0, TRUE), Completed)
  BY <1>2, RevokeVouches, AuthorityVouches
<1>8. Vouched(Clear(ApplyAuthority(Revoke(w), 0, TRUE)), Completed)
  BY <1>7, ClearVouches
<1> QED BY <1>5, <1>6, <1>8, DoesHonestly

LEMMA RestoreKeeps ==
  ASSUME Honest, NEW t \in Tabs, Restore(t)
  PROVE  Honest'
<1>1. PICK a \in 0..gen :
        LET w == [ApplyAuthority(World(t), a, TRUE) EXCEPT !.page.jobs =
                    IF a # 0 /\ job[a] \in {"queued", "running"} THEN {a} ELSE {}] IN
        \/ a # 0 /\ job[a] = "safe" /\ Does(t, [w EXCEPT !.page.show = Request(a)])
        \/ Does(t, [Revoke(w) EXCEPT !.page.loading = FALSE])
        \/ Does(t, [ApplyAuthority(Revoke(World(t)), 0, TRUE) EXCEPT !.page.loading = FALSE])
  BY DEF Restore
<1> DEFINE J == IF a # 0 /\ job[a] \in {"queued", "running"} THEN {a} ELSE {}
<1> DEFINE w == [ApplyAuthority(World(t), a, TRUE) EXCEPT !.page.jobs = J]
<1>2. a \in Nat /\ (a # 0 => a \in Gens)
  BY Numbers DEF Honest, Server0, Gens
<1>3. J \in SUBSET Nat
  BY <1>2
<1> HIDE DEF J
<1>4. Vouched(w, Completed)
  BY <1>2, <1>3, WorldVouched, AuthorityVouches, PlainVouches
<1>5. UNCHANGED serverVars
  BY DEF Restore
<1>6. CASE a # 0 /\ job[a] = "safe" /\ Does(t, [w EXCEPT !.page.show = Request(a)])
  <2>1. a \in Completed
    BY <1>2, <1>6 DEF Completed
  <2> HIDE DEF w
  <2> QED BY <1>2, <1>4, <1>5, <1>6, <2>1, ShowRequestVouches, DoesHonestly
<1>7. CASE Does(t, [Revoke(w) EXCEPT !.page.loading = FALSE])
  <2> HIDE DEF w
  <2> QED BY <1>4, <1>5, <1>7, RevokeVouches, PlainVouches, DoesHonestly
<1>8. CASE Does(t, [ApplyAuthority(Revoke(World(t)), 0, TRUE) EXCEPT !.page.loading = FALSE])
  <2>1. Vouched(ApplyAuthority(Revoke(World(t)), 0, TRUE), Completed)
    BY WorldVouched, RevokeVouches, AuthorityVouches
  <2> QED BY <1>5, <1>8, <2>1, PlainVouches, DoesHonestly
<1> QED BY <1>1, <1>6, <1>7, <1>8 DEF J

LEMMA TimersKeep ==
  ASSUME Honest, NEW t \in Tabs, ExpiryFires(t) \/ WatchFires(t) \/ Resume(t) \/ Dismiss(t)
  PROVE  Honest'
<1>1. UNCHANGED serverVars /\ Vouched(World(t), Completed) /\ Off \in Int
  BY WorldVouched, Numbers DEF ExpiryFires, WatchFires, Resume, Dismiss
<1>2. CASE ExpiryFires(t)
  <2> DEFINE w == [World(t) EXCEPT !.page.expiry = Off]
  <2>1. Vouched(w, Completed)
    BY <1>1, PlainVouches
  <2>2. Does(t, Clear(w)) \/ Does(t, Revoke(w)) \/ Does(t, w)
    BY <1>2 DEF ExpiryFires
  <2> HIDE DEF w
  <2> QED BY <1>1, <2>1, <2>2, ClearVouches, RevokeVouches, DoesHonestly
<1>3. CASE WatchFires(t)
  <2> DEFINE w == [World(t) EXCEPT !.page.watch = Off]
  <2>1. Vouched(w, Completed) /\ Does(t, Verify(w))
    BY <1>1, <1>3, PlainVouches DEF WatchFires
  <2> HIDE DEF w
  <2> QED BY <1>1, <2>1, VerifyVouches, DoesHonestly
<1>4. CASE Resume(t)
  <2> DEFINE w == [World(t) EXCEPT !.page.visible = TRUE]
  <2>1. Vouched(w, Completed)
    BY <1>1, PlainVouches
  <2>2. Does(t, Revoke(w)) \/ Does(t, Verify(w))
    BY <1>4 DEF Resume
  <2> HIDE DEF w
  <2> QED BY <1>1, <2>1, <2>2, RevokeVouches, VerifyVouches, DoesHonestly
<1>5. CASE Dismiss(t)
  BY <1>1, <1>5, RevokeVouches, DoesHonestly DEF Dismiss
<1> QED BY <1>2, <1>3, <1>4, <1>5

LEMMA StorageEventKeeps ==
  ASSUME Honest, NEW t \in Tabs, NEW e \in mail[t], StorageEvent(t, e)
  PROVE  Honest'
<1> DEFINE w == ApplyAuthority(World(t), e.gen, FALSE)
<1>1. e \in Events /\ e.gen \in Nat
  BY WorldVouched DEF Events
<1>2. Vouched(w, Completed) /\ Vouched(Clear(World(t)), Completed)
  BY <1>1, WorldVouched, AuthorityVouches, ClearVouches
<1> DEFINE p == IF e.key = "authority" THEN w.page
                ELSE IF Matches(page[t].auth, e) THEN page[t] ELSE Clear(World(t)).page
<1>3. page' = [page EXCEPT ![t] = p]
  BY DEF StorageEvent
<1>4. UNCHANGED <<serverVars, published>> /\ (safe' = w.safe \/ safe' = safe)
  BY DEF StorageEvent
<1>5. mail' = [u \in Tabs |->
                 IF u = t THEN mail[u] \ {e}
                 ELSE IF e.key = "authority" /\ page[u].open THEN mail[u] \cup w.sent ELSE mail[u]]
  BY DEF StorageEvent
<1> HIDE DEF w
<1>6. Speaks(p, Completed)
  BY <1>2 DEF Vouched, Honest
<1> HIDE DEF p
<1>7. page' \in [Tabs -> Pages] /\ \A u \in Tabs : Speaks(page'[u], Completed)
  BY <1>3, <1>6 DEF Speaks, Honest, Browsers
<1>8. safe' \in Safes /\ safe'.gen \in Completed \cup {0}
  BY <1>2, <1>4 DEF Vouched, Worlds, Honest, Browsers
<1>9. mail' \in [Tabs -> SUBSET Events]
  <2>1. w.sent \subseteq Events
    BY <1>2 DEF Vouched, Worlds
  <2> QED BY <1>5, <2>1 DEF Honest, Browsers
<1> QED BY <1>4, <1>7, <1>8, <1>9, ServerStill, PagesHonestly

-----------------------------------------------------------------------------
LEMMA InitHonest ==
  ASSUME Init
  PROVE  Honest
<1>1. NoRequest \in Requests /\ NoRequest.gen = 0 /\ NoSafe \in Safes /\ NoSafe.gen = 0
  BY Numbers DEF NoRequest, Requests, NoSafe, Safes
<1>2. Speaks(Closed, Completed)
  BY <1>1, Numbers DEF Speaks, Pages, Closed
<1>3. Server0
  BY Numbers DEF Init, Server0, States
<1> QED BY <1>1, <1>2, <1>3 DEF Init, Honest, Browsers, Speaks

LEMMA StepHonest ==
  ASSUME Honest, [Next]_vars
  PROVE  Honest'
<1>1. CASE UNCHANGED vars
  BY <1>1 DEF vars, serverVars, storage, Honest, Server0, Browsers, Speaks, Completed
<1>2. CASE Server
  <2>1. 1 \in Gens
    BY ApprovalAssumption DEF ApprovalAssumption, Gens
  <2>2. CASE DeviceComesOrGoes \/ LaunchElsewhere
    BY <2>1, <2>2, ServerKeeps
  <2>3. CASE \E g \in Gens : WorkerStarts(g) \/ WorkerEnds(g) \/ Expire(g)
    BY <2>3, ServerKeeps
  <2>4. CASE \E t \in Tabs, r \in {"renew", "show"} : GrantLease(t, r)
    BY <2>4, GrantLeaseKeeps
  <2> QED BY <1>2, <2>2, <2>3, <2>4 DEF Server
<1>3. ASSUME NEW t \in Tabs, Handles(t) \/ Leaves(t) PROVE Honest'
  <2>1. CASE Open(t) \/ Close(t) \/ Hide(t) \/ Headers(t, "renew") \/ Headers(t, "show")
    BY <2>1, OpenCloseHideKeep
  <2>2. CASE Restore(t)
    BY <2>2, RestoreKeeps
  <2>3. CASE Launch(t)
    BY <2>3, LaunchKeeps
  <2>4. CASE LaunchAccepted(t) \/ LaunchRefused(t)
    BY <2>4, LaunchAnswerKeeps
  <2>5. CASE \E g \in Gens : Poll(t, g)
    BY <2>5, PollKeeps
  <2>6. CASE ShowEnds(t)
    BY <2>6, ShowEndsKeeps
  <2>7. CASE RenewEnds(t)
    BY <2>7, RenewEndsKeeps
  <2>8. CASE ExpiryFires(t) \/ WatchFires(t) \/ Resume(t) \/ Dismiss(t)
    BY <2>8, TimersKeep
  <2>9. CASE \E e \in mail[t] : StorageEvent(t, e)
    BY <2>9, StorageEventKeeps
  <2> QED BY <1>3, <2>1, <2>2, <2>3, <2>4, <2>5, <2>6, <2>7, <2>8, <2>9 DEF Handles, Leaves
<1>4. CASE Tick
  BY <1>4, TickKeeps
<1> QED BY <1>1, <1>2, <1>3, <1>4 DEF Next

(* "Safe to unplug" is never shown for a job that is only running, has failed  *)
(* or was given up (guardian.js:933-959, api_helpers.php:783-793), however    *)
(* late an answer, a timer or a storage event comes to whichever tab.         *)
THEOREM OnlyCompletedShown == Spec => []ShownIsCompleted
<1>1. Init => Honest
  BY InitHonest
<1>2. Honest /\ [Next]_vars => Honest'
  BY StepHonest
<1>3. Honest => ShownIsCompleted
  BY DEF Honest, Speaks, ShownIsCompleted, Completed
<1> QED BY <1>1, <1>2, <1>3, PTL DEF Spec

-------------------------------------------------------------------------------
(***************************************************************************)
(* ApprovalIsRecent, for any number of tabs and any lease, watchdog, request    *)
(* timeout and age of a late answer.                                           *)
(***************************************************************************)
(* The storage event that tells a tab that the shared approval is gone, and    *)
(* whether one waits for the tab.                                              *)
Zero == [key |-> "safe", gen |-> 0]
Warned(t) == Zero \in mail[t]

(* The shared approval is as old as the confirmation behind it, or as much    *)
(* younger as an answer may be late: the page dates it as the answer is there  *)
(* (guardian.js:1136).                                                        *)
Fresh(s, R) ==
  /\ s.age \in 0 .. Lease
  /\ s.gen = 0 => s = NoSafe
  /\ s.gen # 0 /\ s.age < Lease => R[s.gen] <= Late + s.age

(* A request has its timeout to go at most, or none once its headers are       *)
(* there, and what the server confirmed to it is as old as it is late.         *)
Timed(r, R) ==
  /\ r.left \in Off .. Timeout
  /\ r # NoRequest => r.gen # 0
  /\ r.yes \in Off .. Late
  /\ r.yes # Off => r.gen # 0 /\ R[r.gen] <= Late - r.yes

(* The timers of a tab: the watchdog comes before the expiry, the expiry       *)
(* before the end of the shared approval's lease.  A notice without the shared *)
(* approval behind it is about to be cleared (m), and while its renewal may    *)
(* still be given up a notice is no older than it will be at that time.        *)
Paced(p, s, m, R) ==
  /\ p.watch >= Off /\ p.expiry >= Off
  /\ p.watch > 0 => p.watch < p.expiry
  /\ p.expiry >= 0 => s.age + p.expiry <= Lease
  /\ Timed(p.renew, R) /\ Timed(p.show, R)
  /\ p.green # 0 /\ p.green # s.gen => m
  /\ p.green # 0 /\ p.renew.left > 0 /\ ~m => R[p.green] <= MaxStale - p.renew.left

(* A notice without a watchdog waits for a renewal: something will end it.     *)
Heeded(p) == p.green # 0 /\ p.watch = Off => p.renew # NoRequest

(* A closed tab remembers its generations only.                                *)
Shut(p) == p = [Closed EXCEPT !.gone = p.gone]

(* The invariant between two steps.                                            *)
Recent ==
  /\ refused \in [Gens -> Nat]
  /\ Fresh(safe, refused)
  /\ \A t \in Tabs :
       /\ page[t].open \/ (Shut(page[t]) /\ mail[t] = {})
       /\ Paced(page[t], safe, Warned(t), refused) /\ Heeded(page[t])

(* The same of a world within a handler that began with the shared approval s: *)
(* whoever revokes it tells the other tabs, and nobody makes it older.         *)
Current(w, m, R, s) ==
  /\ Vouched(w, Gens) /\ w.page.open
  /\ Fresh(w.safe, R) /\ Paced(w.page, w.safe, m, R)
  /\ w.safe.age <= s.age
  /\ w.safe.gen = s.gen \/ s.gen = 0 \/ Zero \in w.sent

LEMMA Arithmetic ==
  /\ Lease \in Nat /\ Timeout \in Nat /\ Watchdog \in Nat /\ Late \in Nat /\ 0 < Timeout /\ 0 < Watchdog
  /\ Watchdog < Lease /\ Off = -1 /\ MaxStale = Lease + Late + Timeout - 1 /\ MaxStale \in Nat
  /\ Gens \subseteq Nat /\ 0 \notin Gens
  BY ApprovalAssumption DEF ApprovalAssumption, Off, MaxStale, Gens

LEMMA WorldIs ==
  ASSUME NEW w, Vouched(w, Gens)
  PROVE  /\ w \in Worlds /\ w.page \in Pages /\ w.safe \in Safes /\ w.sent \subseteq Events
         /\ w.page.renew \in Requests /\ w.page.show \in Requests
         /\ {w.page.green, w.page.renew.gen, w.page.show.gen, w.safe.gen} \subseteq Gens \cup {0}
         /\ {w.page.watch, w.page.expiry, w.safe.age} \subseteq Int
         /\ w.page.green \in Nat
  BY DEF Vouched, Speaks, Worlds, Pages, Safes

LEMMA CurrentPage ==
  ASSUME NEW w, NEW m \in BOOLEAN, NEW n \in BOOLEAN, NEW R, NEW s \in Safes, Current(w, m, R, s),
         NEW p, Speaks(p, Gens), p.open, Paced(p, w.safe, n, R)
  PROVE  Current([w EXCEPT !.page = p], n, R, s)
<1> DEFINE v == [w EXCEPT !.page = p]
<1>1. Vouched(v, Gens)
  BY VouchedPage DEF Current
<1>2. v.page = p /\ v.safe = w.safe /\ v.sent = w.sent
  BY DEF Current, Vouched, Worlds
<1> HIDE DEF v
<1>3. v.page.open /\ Paced(v.page, v.safe, n, R)
  BY <1>2
<1>4. Fresh(v.safe, R) /\ v.safe.age <= s.age /\ (v.safe.gen = s.gen \/ s.gen = 0 \/ Zero \in v.sent)
  BY <1>2 DEF Current
<1>5. Current(v, n, R, s)
  BY <1>1, <1>3, <1>4 DEF Current
<1> QED BY <1>5 DEF v

LEMMA ClearCurrent ==
  ASSUME NEW w, NEW m \in BOOLEAN, NEW n \in BOOLEAN, NEW R, NEW s \in Safes, Current(w, m, R, s)
  PROVE  Current(Clear(w), n, R, s) /\ Heeded(Clear(w).page)
<1> DEFINE p == [w.page EXCEPT !.green = 0, !.watch = Off, !.expiry = Off]
<1>1. w \in Worlds /\ w.page \in Pages /\ Vouched(w, Gens)
  BY WorldIs DEF Current
<1>2. Clear(w) = [w EXCEPT !.page = p]
  BY <1>1 DEF Clear, Worlds
<1>3. /\ p.green = 0 /\ p.watch = Off /\ p.expiry = Off /\ p.open = w.page.open
      /\ p.renew = w.page.renew /\ p.show = w.page.show
  BY <1>1 DEF Pages
<1>4. Speaks(p, Gens)
  BY <1>1, Numbers DEF Vouched, Speaks, Pages
<1> HIDE DEF p
<1>5. Paced(p, w.safe, n, R)
  BY <1>3, Arithmetic DEF Current, Paced
<1>6. [w EXCEPT !.page = p].page = p
  BY <1>1 DEF Worlds
<1>7. p.open
  BY <1>3 DEF Current
<1>8. Current([w EXCEPT !.page = p], n, R, s)
  BY <1>4, <1>5, <1>7, CurrentPage
<1>9. Heeded(p)
  BY <1>3 DEF Heeded
<1> QED BY <1>2, <1>6, <1>8, <1>9

LEMMA StoreCurrent ==
  ASSUME NEW w, NEW m \in BOOLEAN, NEW R, NEW s \in Safes, Current(w, m, R, s),
         NEW g \in Gens, R[g] \in Nat, R[g] <= Late, w.safe.gen \in {0, g}
  PROVE  /\ Current(Store(w, [gen |-> g, age |-> 0]), m, R, s)
         /\ Store(w, [gen |-> g, age |-> 0]).safe = [gen |-> g, age |-> 0]
         /\ Store(w, [gen |-> g, age |-> 0]).page = w.page
<1> DEFINE n == [gen |-> g, age |-> 0]
<1> DEFINE v == Store(w, n)
<1>1. w \in Worlds /\ Vouched(w, Gens) /\ g \in Nat /\ g # 0 /\ w.safe \in Safes
  BY WorldIs, Arithmetic DEF Current
<1>2. n \in Safes /\ n.gen = g /\ n.age = 0
  BY <1>1 DEF Safes
<1> HIDE DEF n
<1>3. Vouched(v, Gens)
  BY <1>1, <1>2, StoreVouches
<1>4. v.safe = n /\ v.page = w.page /\ w.sent \subseteq v.sent
  BY <1>1 DEF Store, Worlds
<1> HIDE DEF v
<1>5. Fresh(n, R)
  BY <1>1, <1>2, Arithmetic DEF Fresh
<1>6. w.safe.age \in 0 .. Lease
  BY DEF Current, Fresh
<1>7. Paced(w.page, n, m, R)
  <2>1. w.page.expiry \in Int
    BY <1>1, WorldIs
  <2> QED BY <1>2, <1>6, <2>1, Arithmetic DEF Current, Paced
<1>8. n.age <= s.age
  <2>1. w.safe.age <= s.age
    BY DEF Current
  <2> QED BY <1>2, <1>6, <2>1, Arithmetic DEF Safes
<1>9. n.gen = s.gen \/ s.gen = 0 \/ Zero \in v.sent
  BY <1>2, <1>4 DEF Current
<1>10. Current(v, m, R, s)
  BY <1>3, <1>4, <1>5, <1>7, <1>8, <1>9 DEF Current
<1> QED BY <1>4, <1>10 DEF v, n

LEMMA RevokeCurrent ==
  ASSUME NEW w, NEW m \in BOOLEAN, NEW n \in BOOLEAN, NEW R, NEW s \in Safes, Current(w, m, R, s)
  PROVE  Current(Revoke(w), n, R, s) /\ Heeded(Revoke(w).page) /\ Revoke(w).safe = NoSafe
<1> DEFINE v == Store(w, NoSafe)
<1>1. w \in Worlds /\ Vouched(w, Gens) /\ w.page \in Pages /\ w.safe \in Safes
  BY WorldIs DEF Current
<1>2. NoSafe \in Safes /\ NoSafe.gen = 0 /\ NoSafe.age = 0 /\ s.gen \in Nat /\ s.age \in Int
  BY DEF NoSafe, Safes
<1>3. Vouched(v, Gens)
  BY <1>1, <1>2, StoreVouches
<1>4. /\ v.safe = NoSafe /\ v.page = w.page /\ w.sent \subseteq v.sent
      /\ w.safe = NoSafe \/ Zero \in v.sent
  BY <1>1, <1>2 DEF Store, Worlds, Zero
<1>5. Clear(v) = [v EXCEPT !.page = Clear(v).page] /\ Clear(v).safe = NoSafe /\ Clear(v).sent = v.sent
  BY <1>3, <1>4 DEF Clear, Vouched, Worlds
<1> HIDE DEF v
<1>6. Vouched(Clear(v), Gens)
  BY <1>3, ClearVouches
<1> DEFINE p == [w.page EXCEPT !.green = 0, !.watch = Off, !.expiry = Off]
<1>7. Clear(v).page = p
  BY <1>3, <1>4 DEF Clear, Vouched, Worlds
<1>8. /\ p.green = 0 /\ p.watch = Off /\ p.expiry = Off /\ p.open = w.page.open
      /\ p.renew = w.page.renew /\ p.show = w.page.show
  BY <1>1 DEF Pages
<1> HIDE DEF p
<1>9. Paced(p, NoSafe, n, R) /\ Heeded(p) /\ p.open
  BY <1>8, Arithmetic DEF Current, Paced, Heeded
<1>10. Fresh(NoSafe, R) /\ NoSafe.age <= s.age
  <2>1. w.safe.age \in 0 .. Lease /\ w.safe.age <= s.age
    BY DEF Current, Fresh
  <2> QED BY <1>2, <2>1, Arithmetic DEF Fresh
<1>11. NoSafe.gen = s.gen \/ s.gen = 0 \/ Zero \in v.sent
  BY <1>2, <1>4 DEF Current
<1>12. Current(Clear(v), n, R, s)
  BY <1>5, <1>6, <1>7, <1>9, <1>10, <1>11 DEF Current
<1>13. Revoke(w) = Clear(v)
  BY DEF Revoke, v
<1> QED BY <1>5, <1>7, <1>9, <1>12, <1>13

LEMMA AuthorityCurrent ==
  ASSUME NEW w, NEW m \in BOOLEAN, NEW R, NEW s \in Safes, Current(w, m, R, s),
         NEW a \in Nat, NEW publish \in BOOLEAN
  PROVE  /\ Current(ApplyAuthority(w, a, publish), m, R, s)
         /\ Heeded(w.page) => Heeded(ApplyAuthority(w, a, publish).page)
         /\ ApplyAuthority(w, a, publish).safe.gen \in {0, a}
<1> DEFINE p == IF publish THEN a ELSE w.published
<1> DEFINE e == IF p = w.published THEN {} ELSE {[key |-> "authority", gen |-> a]}
<1> DEFINE q == [w.page EXCEPT !.auth = a]
<1> DEFINE v == [w EXCEPT !.page = q, !.published = p, !.sent = w.sent \cup e]
<1>1. w \in Worlds /\ Vouched(w, Gens) /\ w.page \in Pages /\ w.safe \in Safes
  BY WorldIs DEF Current
<1>2. e \subseteq Events /\ p \in Nat
  BY <1>1 DEF Events, Worlds
<1>3. /\ q \in Pages /\ Speaks(q, Gens) /\ q.open = w.page.open
      /\ q.green = w.page.green /\ q.watch = w.page.watch /\ q.expiry = w.page.expiry
      /\ q.renew = w.page.renew /\ q.show = w.page.show
  BY <1>1 DEF Vouched, Speaks, Pages
<1>4. v = [w EXCEPT !.page.auth = a, !.published = p,
              !.sent = @ \cup IF p = w.published THEN {} ELSE {[key |-> "authority", gen |-> a]}]
  BY <1>1 DEF Worlds
<1> HIDE DEF e, q
<1>5. Paced(q, w.safe, m, R) /\ (Heeded(w.page) => Heeded(q)) /\ q.open
  BY <1>3 DEF Current, Paced, Heeded
<1>6. v.page = q /\ v.safe = w.safe /\ v.sent = w.sent \cup e /\ v \in Worlds
  BY <1>1, <1>2, <1>3 DEF Worlds
<1>7. Vouched(v, Gens)
  BY <1>1, <1>3, <1>6 DEF Vouched
<1>8. ApplyAuthority(w, a, publish) = IF v.safe # NoSafe /\ ~Matches(a, v.safe) THEN Revoke(v) ELSE v
  BY <1>4 DEF ApplyAuthority
<1> HIDE DEF v, p
<1>9. Current(v, m, R, s)
  BY <1>5, <1>6, <1>7 DEF Current
<1>10. CASE v.safe # NoSafe /\ ~Matches(a, v.safe)
  <2>1. Current(Revoke(v), m, R, s) /\ Heeded(Revoke(v).page) /\ Revoke(v).safe = NoSafe
    BY <1>9, RevokeCurrent
  <2> QED BY <1>8, <1>10, <2>1 DEF NoSafe
<1>11. CASE ~(v.safe # NoSafe /\ ~Matches(a, v.safe))
  <2>1. v.safe.gen \in {0, a}
    BY <1>11 DEF Matches, NoSafe
  <2> QED BY <1>5, <1>6, <1>8, <1>9, <1>11, <2>1
<1> QED BY <1>10, <1>11

LEMMA ScheduleCurrent ==
  ASSUME NEW w, NEW m \in BOOLEAN, NEW R, NEW s \in Safes, Current(w, m, R, s),
         NEW delay \in Nat, delay < Lease - w.safe.age \/ w.safe = NoSafe \/ w.safe.age >= Lease
  PROVE  Current(Schedule(w, delay), m, R, s) /\ Heeded(Schedule(w, delay).page)
<1>1. w \in Worlds /\ Vouched(w, Gens) /\ w.page \in Pages /\ w.safe.age \in Int
  BY WorldIs DEF Current
<1>2. CASE w.safe = NoSafe
  BY <1>2, ClearCurrent DEF Schedule
<1>3. CASE w.safe # NoSafe /\ w.safe.age >= Lease
  BY <1>3, RevokeCurrent DEF Schedule
<1>4. CASE w.safe # NoSafe /\ ~(w.safe.age >= Lease)
  <2> DEFINE p == [w.page EXCEPT !.watch = delay, !.expiry = Lease - w.safe.age]
  <2>1. Schedule(w, delay) = [w EXCEPT !.page = p]
    BY <1>1, <1>4 DEF Schedule, Worlds
  <2>2. /\ p.watch = delay /\ p.expiry = Lease - w.safe.age /\ p.open = w.page.open
        /\ p.green = w.page.green /\ p.renew = w.page.renew /\ p.show = w.page.show
    BY <1>1 DEF Pages
  <2>3. Speaks(p, Gens)
    <3>1. Lease - w.safe.age \in Int /\ delay \in Int
      BY <1>1, Arithmetic
    <3> QED BY <1>1, <3>1 DEF Vouched, Speaks, Pages
  <2>4. delay < Lease - w.safe.age /\ Lease - w.safe.age \in Nat /\ delay # Off /\ delay >= Off
    BY <1>1, <1>4, Arithmetic
  <2> HIDE DEF p
  <2>5. /\ p.watch >= Off /\ p.expiry >= Off /\ (p.watch > 0 => p.watch < p.expiry)
        /\ w.safe.age + p.expiry <= Lease
    BY <1>1, <2>2, <2>4, Arithmetic
  <2>6. Paced(p, w.safe, m, R) /\ p.open /\ Heeded(p)
    BY <2>2, <2>4, <2>5 DEF Current, Paced, Heeded
  <2>7. [w EXCEPT !.page = p].page = p
    BY <1>1 DEF Worlds
  <2>8. Current([w EXCEPT !.page = p], m, R, s)
    BY <2>3, <2>6, CurrentPage
  <2> QED BY <2>1, <2>6, <2>7, <2>8
<1> QED BY <1>2, <1>3, <1>4

LEMMA ShowCurrent ==
  ASSUME NEW w, NEW m \in BOOLEAN, NEW R, NEW s \in Safes, Current(w, m, R, s),
         NEW g \in Gens, R[g] \in Nat, R[g] <= Late, w.safe.gen \in {0, g}
  PROVE  Current(Show(w, g), m, R, s) /\ Heeded(Show(w, g).page)
<1> DEFINE v == Store(w, [gen |-> g, age |-> 0])
<1> DEFINE p == [v.page EXCEPT !.green = g]
<1>1. Current(v, m, R, s) /\ v.safe = [gen |-> g, age |-> 0] /\ v.page = w.page
  BY StoreCurrent
<1> HIDE DEF v
<1>2. v \in Worlds /\ Vouched(v, Gens) /\ v.page \in Pages
  BY <1>1, WorldIs DEF Current
<1>3. [v EXCEPT !.page.green = g] = [v EXCEPT !.page = p]
  BY <1>2 DEF Worlds
<1>4. /\ p.green = g /\ p.watch = v.page.watch /\ p.expiry = v.page.expiry /\ p.open = v.page.open
      /\ p.renew = v.page.renew /\ p.show = v.page.show
  BY <1>2 DEF Pages
<1>5. Speaks(p, Gens)
  BY <1>2, Arithmetic DEF Vouched, Speaks, Pages
<1> HIDE DEF p
<1>6. R[g] <= MaxStale - p.renew.left
  <2>1. p.renew.left \in Off .. Timeout
    BY <1>1, <1>4 DEF Current, Paced, Timed
  <2> QED BY <2>1, Arithmetic
<1>7. Paced(p, v.safe, m, R) /\ p.open
  BY <1>1, <1>4, <1>6 DEF Current, Paced
<1>8. Current([v EXCEPT !.page = p], m, R, s) /\ [v EXCEPT !.page = p].safe = v.safe
  BY <1>1, <1>2, <1>5, <1>7, CurrentPage DEF Worlds
<1>9. Watchdog \in Nat /\ Watchdog < Lease - v.safe.age
  BY <1>1, Arithmetic
<1>10. Show(w, g) = Schedule([v EXCEPT !.page = p], Watchdog)
  BY <1>3 DEF Show, v
<1> DEFINE u == [v EXCEPT !.page = p]
<1> HIDE DEF u
<1>11. Current(u, m, R, s) /\ Watchdog < Lease - u.safe.age
  BY <1>8, <1>9 DEF u
<1>12. Current(Schedule(u, Watchdog), m, R, s) /\ Heeded(Schedule(u, Watchdog).page)
  BY <1>9, <1>11, ScheduleCurrent
<1>13. Show(w, g) = Schedule(u, Watchdog)
  BY <1>10 DEF u
<1> QED BY <1>12, <1>13

LEMMA VerifyCurrent ==
  ASSUME NEW w, NEW m \in BOOLEAN, NEW R, NEW s \in Safes, Current(w, m, R, s),
         R \in [Gens -> Nat], Heeded(w.page) \/ w.page.watch = Off
  PROVE  Current(Verify(w), m, R, s) /\ Heeded(Verify(w).page)
<1>1. w \in Worlds /\ Vouched(w, Gens) /\ w.page \in Pages /\ w.safe.age \in Int /\ w.safe \in Safes
  BY WorldIs DEF Current
<1>2. CASE w.safe = NoSafe
  BY <1>2, ClearCurrent DEF Verify
<1>3. CASE w.safe # NoSafe /\ w.page.renew # NoRequest
  BY <1>3 DEF Verify, Heeded
<1>4. CASE w.safe # NoSafe /\ w.page.renew = NoRequest /\ w.safe.age >= Lease
  BY <1>4, RevokeCurrent DEF Verify
<1>5. CASE w.safe # NoSafe /\ w.page.renew = NoRequest /\ ~(w.safe.age >= Lease)
           /\ w.safe.age >= Watchdog
  <2> DEFINE r == Request(w.safe.gen)
  <2> DEFINE p == [w.page EXCEPT !.watch = Off, !.renew = r]
  <2>1. Verify(w) = [w EXCEPT !.page = p]
    BY <1>1, <1>5 DEF Verify, Worlds
  <2>2. /\ p.watch = Off /\ p.expiry = w.page.expiry /\ p.open = w.page.open
        /\ p.green = w.page.green /\ p.renew = r /\ p.show = w.page.show
    BY <1>1 DEF Pages
  <2>3. w.safe.gen \in Gens /\ w.safe.gen # 0
    BY <1>1, <1>5, Arithmetic DEF Current, Fresh, Vouched
  <2>4. r \in Requests /\ r.gen = w.safe.gen /\ r.left = Timeout /\ r.yes = Off /\ r # NoRequest
    <3>1. w.safe.gen \in Nat /\ Timeout \in Int /\ Off \in Int
      BY <1>1, Numbers DEF Safes
    <3>2. r \in Requests /\ r.gen = w.safe.gen /\ r.left = Timeout /\ r.yes = Off
      BY <3>1 DEF Request, Requests
    <3> QED BY <2>3, <3>2 DEF NoRequest
  <2> HIDE DEF r
  <2>5. Speaks(p, Gens)
    BY <1>1, <2>3, <2>4, Numbers DEF Vouched, Speaks, Pages
  <2> HIDE DEF p
  <2>6. Timed(p.renew, R)
    BY <2>2, <2>3, <2>4, Arithmetic DEF Timed
  <2>7. ASSUME p.green # 0, ~m PROVE R[p.green] <= MaxStale - p.renew.left
    <3>1. p.green = w.safe.gen
      BY <2>2, <2>7 DEF Current, Paced
    <3>2. R[w.safe.gen] <= Late + w.safe.age /\ R[w.safe.gen] \in Nat
      <4>1. w.safe.age < Lease
        BY <1>1, <1>5, Arithmetic
      <4> QED BY <2>3, <4>1 DEF Current, Fresh
    <3>3. w.safe.age <= Lease - 1
      BY <1>1, <1>5, Arithmetic
    <3> QED BY <1>1, <2>2, <2>4, <3>1, <3>2, <3>3, Arithmetic
  <2>8. Paced(p, w.safe, m, R) /\ p.open /\ Heeded(p)
    BY <2>2, <2>4, <2>6, <2>7, Arithmetic DEF Current, Paced, Heeded
  <2>9. [w EXCEPT !.page = p].page = p
    BY <1>1 DEF Worlds
  <2>10. Current([w EXCEPT !.page = p], m, R, s)
    BY <2>5, <2>8, CurrentPage
  <2> QED BY <2>1, <2>8, <2>9, <2>10
<1>6. CASE w.safe # NoSafe /\ w.page.renew = NoRequest /\ ~(w.safe.age >= Watchdog)
  <2>1. Watchdog - w.safe.age \in Nat /\ Watchdog - w.safe.age < Lease - w.safe.age
        /\ ~(w.safe.age >= Lease)
    BY <1>1, <1>6, Arithmetic
  <2>2. CASE w.page.watch = Off
    <3>1. Verify(w) = Schedule(w, Watchdog - w.safe.age)
      BY <1>6, <2>1, <2>2 DEF Verify
    <3> QED BY <2>1, <3>1, ScheduleCurrent
  <2>3. CASE w.page.watch # Off
    <3>1. Verify(w) = w
      BY <1>6, <2>1, <2>3 DEF Verify
    <3> QED BY <2>3, <3>1
  <2> QED BY <2>2, <2>3
<1> QED BY <1>2, <1>3, <1>4, <1>5, <1>6

-----------------------------------------------------------------------------
LEMMA Nothing ==
  ASSUME NEW R
  PROVE  /\ NoRequest \in Requests /\ NoRequest.gen = 0 /\ NoRequest.left = 0 /\ NoRequest.yes = Off
         /\ Timed(NoRequest, R)
  BY Arithmetic DEF NoRequest, Requests, Timed

LEMMA Asks ==
  ASSUME NEW R, NEW g \in Gens
  PROVE  Request(g) \in Requests /\ Request(g).gen = g /\ Timed(Request(g), R)
  BY Arithmetic DEF Request, Requests, Timed

(* A change of the page that leaves its notice and does not push back a timer. *)
LEMMA AlteredCurrent ==
  ASSUME NEW w, NEW m \in BOOLEAN, NEW R, NEW s \in Safes, Current(w, m, R, s),
         NEW p \in Pages, p.open, p.green = w.page.green,
         p.watch \in {w.page.watch, Off}, p.expiry = w.page.expiry,
         p.renew \in {w.page.renew, NoRequest}, Timed(p.show, R), p.show.gen \in Gens \cup {0}
  PROVE  Current([w EXCEPT !.page = p], m, R, s)
<1>1. Speaks(p, Gens)
  BY Nothing DEF Current, Vouched, Speaks
<1>2. Timed(p.renew, R)
  BY Nothing DEF Current, Paced
<1>3. p.watch >= Off /\ p.expiry >= Off
      /\ (p.watch > 0 => p.watch < p.expiry) /\ (p.expiry >= 0 => w.safe.age + p.expiry <= Lease)
  BY Arithmetic DEF Current, Paced
<1>4. /\ p.green # 0 /\ p.green # w.safe.gen => m
      /\ p.green # 0 /\ p.renew.left > 0 /\ ~m => R[p.green] <= MaxStale - p.renew.left
  <2>1. ~(NoRequest.left > 0)
    BY Nothing
  <2> QED BY <2>1 DEF Current, Paced
<1>5. Paced(p, w.safe, m, R)
  BY <1>2, <1>3, <1>4 DEF Paced
<1> QED BY <1>1, <1>5, CurrentPage

LEMMA PacedElsewhere ==
  ASSUME NEW p \in Pages, NEW s \in Safes, NEW n \in Safes, NEW m \in BOOLEAN, NEW k \in BOOLEAN,
         NEW R, Paced(p, s, m, R), n.age <= s.age, m => k,
         n.gen = s.gen \/ s.gen = 0 \/ k
  PROVE  Paced(p, n, k, R)
<1>1. p.expiry \in Int /\ s.age \in Int /\ n.age \in Int
  BY DEF Pages, Safes
<1>2. p.expiry >= 0 => n.age + p.expiry <= Lease
  BY <1>1, Arithmetic DEF Paced
<1> QED BY <1>2 DEF Paced

LEMMA ShutIs ==
  ASSUME NEW p, Shut(p)
  PROVE  /\ p.open = FALSE /\ p.visible = FALSE /\ p.loading = FALSE
         /\ p.green = 0 /\ p.watch = Off /\ p.expiry = Off /\ p.renew = NoRequest
         /\ p.show = NoRequest /\ p.jobs = {} /\ p.asked = 0
  BY DEF Shut, Closed

LEMMA ShutPaced ==
  ASSUME NEW p, Shut(p), NEW s, NEW m \in BOOLEAN, NEW R
  PROVE  Paced(p, s, m, R) /\ Heeded(p)
<1>1. /\ p.green = 0 /\ p.watch = Off /\ p.expiry = Off
      /\ p.renew = NoRequest /\ p.show = NoRequest
  BY ShutIs
<1>2. Timed(p.renew, R) /\ Timed(p.show, R)
  BY <1>1, Nothing
<1>3. /\ p.watch >= Off /\ p.expiry >= Off /\ ~(p.watch > 0) /\ ~(p.expiry >= 0)
  BY <1>1, Arithmetic
<1>4. Paced(p, s, m, R) /\ Heeded(p)
  BY <1>1, <1>2, <1>3 DEF Paced, Heeded
<1> QED BY <1>1, <1>4

LEMMA Vouches ==
  ASSUME NEW w, Honest, Vouched(w, Completed)
  PROVE  Vouched(w, Gens)
  BY DEF Vouched, Speaks, Completed

LEMMA WorldCurrent ==
  ASSUME Honest, Recent, NEW t \in Tabs, page[t].open
  PROVE  /\ Current(World(t), Warned(t), refused, safe) /\ Heeded(World(t).page)
         /\ World(t) \in Worlds /\ World(t).page = page[t] /\ World(t).safe = safe
         /\ World(t).sent = {} /\ page[t] \in Pages /\ safe \in Safes /\ Warned(t) \in BOOLEAN
<1>1. World(t).page = page[t] /\ World(t).safe = safe /\ World(t).sent = {}
  BY DEF World
<1>2. Vouched(World(t), Gens)
  BY WorldVouched, Vouches
<1>3. safe \in Safes /\ safe.age \in Int /\ page[t] \in Pages
  BY DEF Honest, Browsers, Safes
<1>4. Paced(page[t], safe, Warned(t), refused) /\ Heeded(page[t]) /\ Fresh(safe, refused)
  BY DEF Recent
<1>5. Warned(t) \in BOOLEAN
  BY DEF Warned
<1>6. World(t).safe.age <= safe.age
  BY <1>1, <1>3
<1> QED BY <1>1, <1>2, <1>3, <1>4, <1>5, <1>6, WorldIs DEF Current

(* What the handler of a tab leaves.                                           *)
LEMMA LeavesRecent ==
  ASSUME Honest, Recent, NEW t \in Tabs, NEW w, NEW m \in BOOLEAN,
         Current(w, m, refused, safe), Heeded(w.page),
         page' = [page EXCEPT ![t] = w.page], safe' = w.safe, refused' = refused,
         Warned(t)' = m,
         \A u \in Tabs \ {t} :
           mail'[u] = IF page[u].open THEN mail[u] \cup w.sent ELSE mail[u]
  PROVE  Recent'
<1>1. w \in Worlds /\ w.page \in Pages /\ w.safe \in Safes /\ safe \in Safes
  BY WorldIs DEF Current, Honest, Browsers
<1>2. Fresh(safe, refused)' /\ (refused \in [Gens -> Nat])'
  BY DEF Current, Recent, Fresh
<1>3. page'[t] = w.page /\ \A u \in Tabs \ {t} : page'[u] = page[u] /\ page[u] \in Pages
  BY DEF Honest, Browsers
<1>4. /\ page'[t].open /\ Heeded(page'[t])
      /\ Paced(page'[t], safe', Warned(t)', refused')
  BY <1>3 DEF Current
<1>5. ASSUME NEW u \in Tabs \ {t}
      PROVE  /\ page'[u].open \/ (Shut(page'[u]) /\ mail'[u] = {})
             /\ Paced(page'[u], safe', Warned(u)', refused') /\ Heeded(page'[u])
  <2>1. /\ page'[u] = page[u] /\ page[u] \in Pages
        /\ Paced(page[u], safe, Warned(u), refused) /\ Heeded(page[u])
        /\ page[u].open \/ (Shut(page[u]) /\ mail[u] = {})
    BY <1>3 DEF Recent
  <2>2. CASE page[u].open
    <3>1. mail'[u] = mail[u] \cup w.sent
      BY <2>2
    <3> DEFINE k == Zero \in mail[u] \cup w.sent
    <3>2. Warned(u)' = k
      BY <3>1 DEF Warned
    <3>3. k \in BOOLEAN /\ Warned(u) \in BOOLEAN /\ (Warned(u) => k)
      BY DEF Warned
    <3>4. w.safe.age <= safe.age /\ (w.safe.gen = safe.gen \/ safe.gen = 0 \/ k)
      BY DEF Current
    <3> HIDE DEF k
    <3>5. Paced(page[u], w.safe, k, refused)
      BY <1>1, <2>1, <3>3, <3>4, PacedElsewhere
    <3> QED BY <2>1, <2>2, <3>2, <3>5
  <2>3. CASE ~page[u].open
    <3>1. mail'[u] = {} /\ Shut(page[u])
      BY <2>1, <2>3
    <3>2. Warned(u)' = FALSE
      BY <3>1 DEF Warned
    <3>3. Paced(page[u], w.safe, FALSE, refused)
      BY <3>1, ShutPaced
    <3> QED BY <2>1, <3>1, <3>2, <3>3
  <2> QED BY <2>2, <2>3
<1>6. \A u \in Tabs : /\ page'[u].open \/ (Shut(page'[u]) /\ mail'[u] = {})
                      /\ Paced(page'[u], safe', Warned(u)', refused') /\ Heeded(page'[u])
  BY <1>4, <1>5
<1> QED BY <1>2, <1>6 DEF Recent

LEMMA DoesRecently ==
  ASSUME Honest, Recent, NEW t \in Tabs, NEW w,
         Current(w, Warned(t), refused, safe), Heeded(w.page), Does(t, w)
  PROVE  Recent'
<1>1. /\ page' = [page EXCEPT ![t] = w.page] /\ safe' = w.safe /\ refused' = refused
      /\ \A u \in Tabs \ {t} :
           mail'[u] = IF page[u].open THEN mail[u] \cup w.sent ELSE mail[u]
      /\ mail'[t] = mail[t]
  BY DEF Does
<1>2. Warned(t)' = Warned(t) /\ Warned(t) \in BOOLEAN
  BY <1>1 DEF Warned
<1> QED BY <1>1, <1>2, LeavesRecent

(* What a tab shows, waits for and asks is not touched.                        *)
Alike(p, q) ==
  /\ p \in Pages /\ p.open /\ p.green = q.green /\ p.watch = q.watch
  /\ p.expiry = q.expiry /\ p.renew = q.renew /\ p.show = q.show

LEMMA SamePace ==
  ASSUME NEW w, NEW m \in BOOLEAN, NEW R, NEW s \in Safes, Current(w, m, R, s),
         NEW p, Alike(p, w.page)
  PROVE  /\ Current([w EXCEPT !.page = p], m, R, s)
         /\ Heeded(w.page) => Heeded([w EXCEPT !.page = p].page)
         /\ [w EXCEPT !.page = p].safe = w.safe
<1>1. Timed(p.show, R) /\ p.show.gen \in Gens \cup {0}
  BY DEF Alike, Current, Paced, Vouched, Speaks
<1>2. Current([w EXCEPT !.page = p], m, R, s)
  BY <1>1, AlteredCurrent DEF Alike
<1>3. [w EXCEPT !.page = p].page = p /\ [w EXCEPT !.page = p].safe = w.safe
  BY DEF Current, Vouched, Worlds
<1> QED BY <1>2, <1>3 DEF Alike, Heeded

LEMMA PlainCurrent ==
  ASSUME NEW w, NEW m \in BOOLEAN, NEW R, NEW s \in Safes, Current(w, m, R, s)
  PROVE  /\ \A J \in SUBSET Nat :
              /\ Current([w EXCEPT !.page.jobs = J], m, R, s)
              /\ Heeded(w.page) => Heeded([w EXCEPT !.page.jobs = J].page)
         /\ \A b \in BOOLEAN :
              /\ Current([w EXCEPT !.page.loading = b], m, R, s)
              /\ Heeded(w.page) => Heeded([w EXCEPT !.page.loading = b].page)
              /\ Current([w EXCEPT !.page.visible = b], m, R, s)
              /\ Heeded(w.page) => Heeded([w EXCEPT !.page.visible = b].page)
         /\ \A n \in Nat :
              /\ Current([w EXCEPT !.page.asked = n], m, R, s)
              /\ Heeded(w.page) => Heeded([w EXCEPT !.page.asked = n].page)
<1>1. w \in Worlds /\ w.page \in Pages /\ w.page.open
  BY WorldIs DEF Current
<1>2. ASSUME NEW J \in SUBSET Nat
      PROVE  /\ Current([w EXCEPT !.page.jobs = J], m, R, s)
             /\ Heeded(w.page) => Heeded([w EXCEPT !.page.jobs = J].page)
  <2> DEFINE p == [w.page EXCEPT !.jobs = J]
  <2> DEFINE v == [w EXCEPT !.page = p]
  <2>1. [w EXCEPT !.page.jobs = J] = v
    BY <1>1 DEF Worlds
  <2>2. Alike(p, w.page)
    BY <1>1 DEF Alike, Pages
  <2> HIDE DEF p
  <2>3. Current(v, m, R, s) /\ (Heeded(w.page) => Heeded(v.page))
    BY <2>2, SamePace
  <2> HIDE DEF v
  <2> QED BY <2>1, <2>3
<1>3. ASSUME NEW b \in BOOLEAN
      PROVE  /\ Current([w EXCEPT !.page.loading = b], m, R, s)
             /\ Heeded(w.page) => Heeded([w EXCEPT !.page.loading = b].page)
  <2> DEFINE p == [w.page EXCEPT !.loading = b]
  <2> DEFINE v == [w EXCEPT !.page = p]
  <2>1. [w EXCEPT !.page.loading = b] = v
    BY <1>1 DEF Worlds
  <2>2. Alike(p, w.page)
    BY <1>1 DEF Alike, Pages
  <2> HIDE DEF p
  <2>3. Current(v, m, R, s) /\ (Heeded(w.page) => Heeded(v.page))
    BY <2>2, SamePace
  <2> HIDE DEF v
  <2> QED BY <2>1, <2>3
<1>4. ASSUME NEW b \in BOOLEAN
      PROVE  /\ Current([w EXCEPT !.page.visible = b], m, R, s)
             /\ Heeded(w.page) => Heeded([w EXCEPT !.page.visible = b].page)
  <2> DEFINE p == [w.page EXCEPT !.visible = b]
  <2> DEFINE v == [w EXCEPT !.page = p]
  <2>1. [w EXCEPT !.page.visible = b] = v
    BY <1>1 DEF Worlds
  <2>2. Alike(p, w.page)
    BY <1>1 DEF Alike, Pages
  <2> HIDE DEF p
  <2>3. Current(v, m, R, s) /\ (Heeded(w.page) => Heeded(v.page))
    BY <2>2, SamePace
  <2> HIDE DEF v
  <2> QED BY <2>1, <2>3
<1>5. ASSUME NEW n \in Nat
      PROVE  /\ Current([w EXCEPT !.page.asked = n], m, R, s)
             /\ Heeded(w.page) => Heeded([w EXCEPT !.page.asked = n].page)
  <2> DEFINE p == [w.page EXCEPT !.asked = n]
  <2> DEFINE v == [w EXCEPT !.page = p]
  <2>1. [w EXCEPT !.page.asked = n] = v
    BY <1>1 DEF Worlds
  <2>2. Alike(p, w.page)
    BY <1>1 DEF Alike, Pages
  <2> HIDE DEF p
  <2>3. Current(v, m, R, s) /\ (Heeded(w.page) => Heeded(v.page))
    BY <2>2, SamePace
  <2> HIDE DEF v
  <2> QED BY <2>1, <2>3
<1> QED BY <1>2, <1>3, <1>4, <1>5

(* A lease is asked for to show an approval, or the question is answered.      *)
LEMMA AskingCurrent ==
  ASSUME NEW w, NEW m \in BOOLEAN, NEW R, NEW s \in Safes, Current(w, m, R, s),
         NEW r \in Requests, Timed(r, R), r.gen \in Gens \cup {0}
  PROVE  /\ Current([w EXCEPT !.page.show = r], m, R, s)
         /\ Heeded(w.page) => Heeded([w EXCEPT !.page.show = r].page)
<1>1. w \in Worlds /\ w.page \in Pages /\ w.page.open
  BY WorldIs DEF Current
<1> DEFINE p == [w.page EXCEPT !.show = r]
<1>2. [w EXCEPT !.page.show = r] = [w EXCEPT !.page = p] /\ [w EXCEPT !.page = p].page = p
  BY <1>1 DEF Worlds
<1>3. /\ p \in Pages /\ p.open /\ p.green = w.page.green /\ p.watch = w.page.watch
      /\ p.expiry = w.page.expiry /\ p.renew = w.page.renew /\ p.show = r
  BY <1>1 DEF Pages
<1> HIDE DEF p
<1>4. Current([w EXCEPT !.page = p], m, R, s)
  BY <1>3, AlteredCurrent
<1> QED BY <1>2, <1>3, <1>4 DEF Heeded

-----------------------------------------------------------------------------
(* Who does something is open.                                                 *)
LEMMA BusyIsOpen ==
  ASSUME Recent, NEW t \in Tabs,
         \/ page[t].loading \/ page[t].visible \/ page[t].asked # 0 \/ page[t].jobs # {}
         \/ page[t].renew.gen # 0 \/ page[t].show.gen # 0 \/ page[t].green # 0
         \/ page[t].watch = 0 \/ page[t].expiry = 0 \/ mail[t] # {}
  PROVE  page[t].open
<1>1. CASE Shut(page[t]) /\ mail[t] = {}
  <2>1. /\ page[t].loading = FALSE /\ page[t].visible = FALSE /\ page[t].asked = 0 /\ page[t].jobs = {}
        /\ page[t].renew = NoRequest /\ page[t].show = NoRequest /\ page[t].green = 0
        /\ page[t].watch = Off /\ page[t].expiry = Off
    BY <1>1, ShutIs
  <2>2. Off # 0 /\ NoRequest.gen = 0
    BY Arithmetic DEF NoRequest
  <2> QED BY <1>1, <2>1, <2>2
<1> QED BY <1>1 DEF Recent

LEMMA LaunchAnswerRecent ==
  ASSUME Honest, Recent, NEW t \in Tabs, LaunchAccepted(t) \/ LaunchRefused(t)
  PROVE  Recent'
<1> DEFINE g == page[t].asked
<1> DEFINE a == Answered(t)
<1> DEFINE m == Warned(t)
<1>1. page[t].open /\ g \in Nat
  BY BusyIsOpen, WorldVouched DEF LaunchAccepted, LaunchRefused, Pages
<1>2. safe \in Safes /\ m \in BOOLEAN
  BY <1>1, WorldCurrent
<1> HIDE DEF m
<1>3. Current(a, m, refused, safe) /\ Heeded(a.page)
  BY <1>1, <1>2, WorldCurrent, PlainCurrent DEF m, Answered
<1> HIDE DEF a
<1>4. CASE LaunchAccepted(t)
  <2> DEFINE v == Revoke(a)
  <2> DEFINE J == v.page.jobs \cup {g}
  <2> DEFINE w == [v EXCEPT !.page.jobs = J]
  <2>1. Does(t, ApplyAuthority(w, g, TRUE))
    BY <1>4 DEF LaunchAccepted, a
  <2>2. Current(v, m, refused, safe) /\ Heeded(v.page)
    BY <1>2, <1>3, RevokeCurrent
  <2>3. J \in SUBSET Nat
    BY <1>1, <2>2, WorldIs DEF Current, Pages
  <2> HIDE DEF v, J
  <2>4. Current(w, m, refused, safe) /\ Heeded(w.page)
    BY <1>2, <2>2, <2>3, PlainCurrent
  <2> HIDE DEF w
  <2>5. Current(ApplyAuthority(w, g, TRUE), m, refused, safe) /\ Heeded(ApplyAuthority(w, g, TRUE).page)
    BY <1>1, <1>2, <2>4, AuthorityCurrent
  <2> QED BY <2>1, <2>5, DoesRecently DEF m
<1>5. CASE LaunchRefused(t)
  <2>1. Does(t, a) \/ Does(t, ApplyAuthority(a, g, TRUE))
    BY <1>5 DEF LaunchRefused, a
  <2>2. Current(ApplyAuthority(a, g, TRUE), m, refused, safe) /\ Heeded(ApplyAuthority(a, g, TRUE).page)
    BY <1>1, <1>2, <1>3, AuthorityCurrent
  <2> QED BY <1>3, <2>1, <2>2, DoesRecently DEF m
<1> QED BY <1>4, <1>5

LEMMA GenerationIs ==
  ASSUME Honest, NEW g \in Gens
  PROVE  g \in Nat /\ (\A a \in g .. gen : a \in Gens /\ a \in Nat)
  BY Numbers DEF Honest, Server0, Gens

LEMMA PollRecent ==
  ASSUME Honest, Recent, NEW t \in Tabs, NEW g \in Gens, Poll(t, g)
  PROVE  Recent'
<1>1. page[t].open /\ page[t].show = NoRequest
  BY BusyIsOpen DEF Poll
<1> DEFINE m == Warned(t)
<1>2. safe \in Safes /\ m \in BOOLEAN /\ Current(World(t), m, refused, safe) /\ Heeded(World(t).page)
  BY <1>1, WorldCurrent
<1> HIDE DEF m
<1>3. PICK a \in g..gen :
        LET w == ApplyAuthority(World(t), a, TRUE) IN
        \/ Does(t, w)
        \/ /\ job[g] \in {"safe", "failed", "expired"}
           /\ Does(t, [w EXCEPT !.page.jobs = @ \ {g},
                                !.page.show = IF job[g] = "safe" /\ a = g THEN Request(g) ELSE @])
  BY DEF Poll
<1> DEFINE w == ApplyAuthority(World(t), a, TRUE)
<1>4. Current(w, m, refused, safe) /\ Heeded(w.page)
  <2>1. a \in Nat
    BY GenerationIs
  <2> QED BY <1>2, <2>1, AuthorityCurrent
<1>5. w \in Worlds /\ w.page \in Pages /\ w.page.show \in Requests
  BY <1>4, WorldIs DEF Current
<1> DEFINE J == w.page.jobs \ {g}
<1> DEFINE v == [w EXCEPT !.page.jobs = J]
<1> DEFINE s == IF job[g] = "safe" /\ a = g THEN Request(g) ELSE w.page.show
<1> DEFINE u == [v EXCEPT !.page.show = s]
<1>6. u = [w EXCEPT !.page.jobs = @ \ {g},
                    !.page.show = IF job[g] = "safe" /\ a = g THEN Request(g) ELSE @]
  BY <1>5 DEF Worlds, Pages
<1>7. Does(t, w) \/ Does(t, u)
  BY <1>3, <1>6
<1>8. J \in SUBSET Nat
  BY <1>5 DEF Pages
<1>9. s \in Requests /\ Timed(s, refused) /\ s.gen \in Gens \cup {0}
  <2>1. w.page.show \in Requests /\ Timed(w.page.show, refused) /\ w.page.show.gen \in Gens \cup {0}
    BY <1>4, WorldIs DEF Current, Paced
  <2> QED BY <2>1, Asks
<1> HIDE DEF w, J
<1>10. Current(v, m, refused, safe) /\ Heeded(v.page)
  BY <1>2, <1>4, <1>8, PlainCurrent
<1> HIDE DEF v, s
<1>11. Current(u, m, refused, safe) /\ Heeded(u.page)
  BY <1>2, <1>9, <1>10, AskingCurrent
<1> HIDE DEF u
<1> QED BY <1>4, <1>7, <1>11, DoesRecently DEF m

LEMMA ShowEndsRecent ==
  ASSUME Honest, Recent, NEW t \in Tabs, ShowEnds(t)
  PROVE  Recent'
<1> DEFINE g == page[t].show.gen
<1> DEFINE v == [World(t) EXCEPT !.page.show = NoRequest]
<1> DEFINE w == [v EXCEPT !.page.loading = FALSE]
<1> DEFINE m == Warned(t)
<1>1. page[t].open /\ g \in Gens /\ g \in Nat
  BY BusyIsOpen, Arithmetic DEF ShowEnds, Honest, Speaks, Completed
<1>2. safe \in Safes /\ m \in BOOLEAN /\ Current(World(t), m, refused, safe) /\ Heeded(World(t).page)
  BY <1>1, WorldCurrent
<1> HIDE DEF m
<1>3. Current(v, m, refused, safe) /\ Heeded(v.page)
  BY <1>2, Nothing, AskingCurrent
<1>4. w = [World(t) EXCEPT !.page.show = NoRequest, !.page.loading = FALSE]
  OBVIOUS
<1>5. \/ page[t].show.yes # Off /\ Does(t, Show(ApplyAuthority(w, g, TRUE), g))
      \/ Does(t, Revoke(w)) \/ Does(t, w)
  BY <1>4 DEF ShowEnds
<1> HIDE DEF v
<1>6. Current(w, m, refused, safe) /\ Heeded(w.page)
  BY <1>2, <1>3, PlainCurrent
<1> HIDE DEF w
<1>7. Current(Revoke(w), m, refused, safe) /\ Heeded(Revoke(w).page)
  BY <1>2, <1>6, RevokeCurrent
<1>8. CASE page[t].show.yes # Off /\ Does(t, Show(ApplyAuthority(w, g, TRUE), g))
  <2> DEFINE u == ApplyAuthority(w, g, TRUE)
  <2>1. Current(u, m, refused, safe) /\ u.safe.gen \in {0, g}
    BY <1>1, <1>2, <1>6, AuthorityCurrent
  <2>2. refused[g] \in Nat /\ refused[g] <= Late
    <3>1. Timed(page[t].show, refused) /\ refused[g] \in Nat
      BY <1>1 DEF Recent, Paced
    <3> QED BY <1>8, <3>1, Arithmetic DEF Timed
  <2> HIDE DEF u
  <2>3. Current(Show(u, g), m, refused, safe) /\ Heeded(Show(u, g).page)
    BY <1>1, <1>2, <2>1, <2>2, ShowCurrent
  <2> QED BY <1>8, <2>3, DoesRecently DEF m, u
<1> QED BY <1>5, <1>6, <1>7, <1>8, DoesRecently DEF m

LEMMA RenewEndsRecent ==
  ASSUME Honest, Recent, NEW t \in Tabs, RenewEnds(t)
  PROVE  Recent'
<1> DEFINE g == page[t].renew.gen
<1> DEFINE p == [page[t] EXCEPT !.renew = NoRequest]
<1> DEFINE w == [World(t) EXCEPT !.page = p]
<1> DEFINE v == ApplyAuthority(w, g, TRUE)
<1> DEFINE u == IF v.safe = NoSafe THEN v ELSE Store(v, [gen |-> g, age |-> 0])
<1> DEFINE m == Warned(t)
<1>1. page[t].open /\ g \in Gens /\ g \in Nat
  BY BusyIsOpen, Arithmetic DEF RenewEnds, Honest, Speaks, Completed
<1>2. /\ safe \in Safes /\ m \in BOOLEAN /\ Current(World(t), m, refused, safe)
      /\ World(t) \in Worlds /\ World(t).page = page[t] /\ page[t] \in Pages
  BY <1>1, WorldCurrent
<1> HIDE DEF m
<1>3. w = [World(t) EXCEPT !.page.renew = NoRequest]
  BY <1>2 DEF Worlds
<1>4. \/ page[t].renew.yes # Off /\ Does(t, Schedule(u, Watchdog))
      \/ Does(t, Clear(ApplyAuthority(Revoke(w), 0, TRUE)))
  BY <1>3 DEF RenewEnds
<1>5. /\ p \in Pages /\ p.open /\ p.green = page[t].green /\ p.watch = page[t].watch
      /\ p.expiry = page[t].expiry /\ p.renew = NoRequest /\ p.show = page[t].show
  BY <1>1, <1>2, Nothing DEF Pages
<1> HIDE DEF p
<1>6. Current(w, m, refused, safe)
  <2>1. Timed(p.show, refused) /\ p.show.gen \in Gens \cup {0}
    BY <1>2, <1>5, WorldIs DEF Current, Paced
  <2> QED BY <1>2, <1>5, <2>1, AlteredCurrent
<1> HIDE DEF w
<1>7. Current(v, m, refused, safe) /\ v.safe.gen \in {0, g}
  BY <1>1, <1>2, <1>6, AuthorityCurrent
<1>8. CASE page[t].renew.yes # Off /\ Does(t, Schedule(u, Watchdog))
  <2>1. refused[g] \in Nat /\ refused[g] <= Late
    <3>1. Timed(page[t].renew, refused) /\ refused[g] \in Nat
      BY <1>1 DEF Recent, Paced
    <3> QED BY <1>8, <3>1, Arithmetic DEF Timed
  <2> HIDE DEF v
  <2>2. Current(u, m, refused, safe) /\ (u.safe = NoSafe \/ u.safe = [gen |-> g, age |-> 0])
    <3> DEFINE n == Store(v, [gen |-> g, age |-> 0])
    <3>1. Current(n, m, refused, safe) /\ n.safe = [gen |-> g, age |-> 0]
      BY <1>1, <1>2, <1>7, <2>1, StoreCurrent
    <3>2. (u = v /\ v.safe = NoSafe) \/ u = n
      OBVIOUS
    <3> HIDE DEF n, u
    <3> QED BY <1>7, <3>1, <3>2
  <2> HIDE DEF u, g
  <2>3. Watchdog \in Nat /\ (Watchdog < Lease - u.safe.age \/ u.safe = NoSafe)
    BY <2>2, Arithmetic
  <2>4. Current(Schedule(u, Watchdog), m, refused, safe) /\ Heeded(Schedule(u, Watchdog).page)
    BY <1>2, <2>2, <2>3, ScheduleCurrent
  <2> QED BY <1>8, <2>4, DoesRecently DEF m
<1>9. CASE Does(t, Clear(ApplyAuthority(Revoke(w), 0, TRUE)))
  <2> DEFINE x == Revoke(w)
  <2> DEFINE y == ApplyAuthority(x, 0, TRUE)
  <2>1. Current(x, m, refused, safe)
    BY <1>2, <1>6, RevokeCurrent
  <2> HIDE DEF x
  <2>2. Current(y, m, refused, safe)
    BY <1>2, <2>1, AuthorityCurrent
  <2> HIDE DEF y
  <2>3. Current(Clear(y), m, refused, safe) /\ Heeded(Clear(y).page)
    BY <1>2, <2>2, ClearCurrent
  <2> QED BY <1>9, <2>3, DoesRecently DEF m, x, y
<1> QED BY <1>4, <1>8, <1>9

LEMMA RestoreRecent ==
  ASSUME Honest, Recent, NEW t \in Tabs, Restore(t)
  PROVE  Recent'
<1>1. PICK a \in 0..gen :
        LET w == [ApplyAuthority(World(t), a, TRUE) EXCEPT !.page.jobs =
                    IF a # 0 /\ job[a] \in {"queued", "running"} THEN {a} ELSE {}] IN
        \/ a # 0 /\ job[a] = "safe" /\ Does(t, [w EXCEPT !.page.show = Request(a)])
        \/ Does(t, [Revoke(w) EXCEPT !.page.loading = FALSE])
        \/ Does(t, [ApplyAuthority(Revoke(World(t)), 0, TRUE) EXCEPT !.page.loading = FALSE])
  BY DEF Restore
<1> DEFINE m == Warned(t)
<1> DEFINE J == IF a # 0 /\ job[a] \in {"queued", "running"} THEN {a} ELSE {}
<1> DEFINE v == ApplyAuthority(World(t), a, TRUE)
<1> DEFINE w == [v EXCEPT !.page.jobs = J]
<1> DEFINE x == Revoke(World(t))
<1> DEFINE y == ApplyAuthority(x, 0, TRUE)
<1>2. \/ a # 0 /\ Does(t, [w EXCEPT !.page.show = Request(a)])
      \/ Does(t, [Revoke(w) EXCEPT !.page.loading = FALSE])
      \/ Does(t, [y EXCEPT !.page.loading = FALSE])
  BY <1>1
<1>3. page[t].open
  BY BusyIsOpen DEF Restore
<1>4. a \in Nat /\ (a # 0 => a \in Gens)
  BY Numbers DEF Honest, Server0, Gens
<1>5. safe \in Safes /\ m \in BOOLEAN /\ Current(World(t), m, refused, safe) /\ Heeded(World(t).page)
  BY <1>3, WorldCurrent
<1>6. J \in SUBSET Nat
  BY <1>4
<1> HIDE DEF m, J
<1>7. Current(v, m, refused, safe) /\ Heeded(v.page)
  BY <1>4, <1>5, AuthorityCurrent
<1> HIDE DEF v
<1>8. Current(w, m, refused, safe) /\ Heeded(w.page)
  BY <1>5, <1>6, <1>7, PlainCurrent
<1>9. Current(x, m, refused, safe) /\ Heeded(x.page)
  BY <1>5, RevokeCurrent
<1> HIDE DEF w, x
<1>10. Current(y, m, refused, safe) /\ Heeded(y.page)
  BY <1>5, <1>9, AuthorityCurrent
<1> HIDE DEF y
<1>11. CASE a # 0 /\ Does(t, [w EXCEPT !.page.show = Request(a)])
  <2> DEFINE r == Request(a)
  <2>1. r \in Requests /\ Timed(r, refused) /\ r.gen \in Gens \cup {0}
    BY <1>4, <1>11, Asks
  <2> HIDE DEF r
  <2>2. Current([w EXCEPT !.page.show = r], m, refused, safe) /\ Heeded([w EXCEPT !.page.show = r].page)
    BY <1>5, <1>8, <2>1, AskingCurrent
  <2> QED BY <1>11, <2>2, DoesRecently DEF m, r
<1>12. CASE Does(t, [Revoke(w) EXCEPT !.page.loading = FALSE])
  <2> DEFINE z == Revoke(w)
  <2>1. Current(z, m, refused, safe) /\ Heeded(z.page)
    BY <1>5, <1>8, RevokeCurrent
  <2> HIDE DEF z
  <2>2. Current([z EXCEPT !.page.loading = FALSE], m, refused, safe)
        /\ Heeded([z EXCEPT !.page.loading = FALSE].page)
    BY <1>5, <2>1, PlainCurrent
  <2> QED BY <1>12, <2>2, DoesRecently DEF m, z
<1>13. CASE Does(t, [y EXCEPT !.page.loading = FALSE])
  <2>1. Current([y EXCEPT !.page.loading = FALSE], m, refused, safe)
        /\ Heeded([y EXCEPT !.page.loading = FALSE].page)
    BY <1>5, <1>10, PlainCurrent
  <2> QED BY <1>13, <2>1, DoesRecently DEF m
<1> QED BY <1>2, <1>11, <1>12, <1>13

LEMMA ExpiryRecent ==
  ASSUME Honest, Recent, NEW t \in Tabs, ExpiryFires(t)
  PROVE  Recent'
<1> DEFINE m == Warned(t)
<1> DEFINE p == [page[t] EXCEPT !.expiry = Off]
<1> DEFINE w == [World(t) EXCEPT !.page = p]
<1>1. page[t].open /\ page[t].expiry = 0
  BY BusyIsOpen DEF ExpiryFires
<1>2. /\ safe \in Safes /\ m \in BOOLEAN /\ Current(World(t), m, refused, safe)
      /\ Heeded(page[t]) /\ Paced(page[t], safe, m, refused)
      /\ World(t) \in Worlds /\ World(t).page = page[t] /\ page[t] \in Pages /\ World(t).safe = safe
  BY <1>1, WorldCurrent DEF Current
<1> HIDE DEF m
<1>3. w = [World(t) EXCEPT !.page.expiry = Off]
  BY <1>2 DEF Worlds
<1>4. Does(t, Clear(w)) \/ Does(t, Revoke(w)) \/ Does(t, w)
  BY <1>3 DEF ExpiryFires
<1>5. /\ p \in Pages /\ p.open /\ p.green = page[t].green /\ p.watch = page[t].watch
      /\ p.expiry = Off /\ p.renew = page[t].renew /\ p.show = page[t].show
  BY <1>1, <1>2, Numbers DEF Pages
<1> HIDE DEF p
<1>6. page[t].watch >= Off /\ page[t].watch <= 0
  <2>1. page[t].watch \in Int
    BY <1>2 DEF Pages
  <2> QED BY <1>1, <1>2, <2>1 DEF Paced
<1>7. /\ p.watch >= Off /\ p.expiry >= Off /\ ~(p.watch > 0) /\ ~(p.expiry >= 0)
  <2>1. page[t].watch \in Int
    BY <1>2 DEF Pages
  <2> QED BY <1>5, <1>6, <2>1, Arithmetic
<1>8. Paced(p, World(t).safe, m, refused) /\ Heeded(p)
  BY <1>2, <1>5, <1>7 DEF Paced, Heeded
<1>9. Speaks(p, Gens)
  BY <1>2, <1>5, WorldIs DEF Current, Vouched, Speaks
<1>10. Current(w, m, refused, safe) /\ Heeded(w.page)
  <2>1. w.page = p
    BY <1>2 DEF Worlds
  <2> QED BY <1>2, <1>5, <1>8, <1>9, <2>1, CurrentPage
<1> HIDE DEF w
<1>11. /\ Current(Clear(w), m, refused, safe) /\ Heeded(Clear(w).page)
       /\ Current(Revoke(w), m, refused, safe) /\ Heeded(Revoke(w).page)
  BY <1>2, <1>10, ClearCurrent, RevokeCurrent
<1> QED BY <1>4, <1>10, <1>11, DoesRecently DEF m

LEMMA WatchRecent ==
  ASSUME Honest, Recent, NEW t \in Tabs, WatchFires(t)
  PROVE  Recent'
<1> DEFINE m == Warned(t)
<1> DEFINE p == [page[t] EXCEPT !.watch = Off]
<1> DEFINE w == [World(t) EXCEPT !.page = p]
<1>1. page[t].open
  BY BusyIsOpen DEF WatchFires
<1>2. /\ safe \in Safes /\ m \in BOOLEAN /\ Current(World(t), m, refused, safe)
      /\ World(t) \in Worlds /\ World(t).page = page[t] /\ page[t] \in Pages
  BY <1>1, WorldCurrent
<1> HIDE DEF m
<1>3. w = [World(t) EXCEPT !.page.watch = Off] /\ w.page = p
  BY <1>2 DEF Worlds
<1>4. Does(t, Verify(w))
  BY <1>3 DEF WatchFires
<1>5. /\ p \in Pages /\ p.open /\ p.green = page[t].green /\ p.watch = Off
      /\ p.expiry = page[t].expiry /\ p.renew = page[t].renew /\ p.show = page[t].show
  BY <1>1, <1>2, Numbers DEF Pages
<1> HIDE DEF p
<1>6. Current(w, m, refused, safe)
  <2>1. Timed(p.show, refused) /\ p.show.gen \in Gens \cup {0}
    BY <1>2, <1>5, WorldIs DEF Current, Paced
  <2> QED BY <1>2, <1>5, <2>1, AlteredCurrent
<1>7. w.page.watch = Off /\ refused \in [Gens -> Nat]
  BY <1>3, <1>5 DEF Recent
<1> HIDE DEF w
<1>8. Current(Verify(w), m, refused, safe) /\ Heeded(Verify(w).page)
  BY <1>2, <1>6, <1>7, VerifyCurrent
<1> QED BY <1>4, <1>8, DoesRecently DEF m

LEMMA ResumeDismissRecent ==
  ASSUME Honest, Recent, NEW t \in Tabs, Resume(t) \/ Dismiss(t)
  PROVE  Recent'
<1> DEFINE m == Warned(t)
<1> DEFINE w == [World(t) EXCEPT !.page.visible = TRUE]
<1>1. page[t].open
  BY DEF Resume, Dismiss
<1>2. /\ safe \in Safes /\ m \in BOOLEAN /\ Current(World(t), m, refused, safe)
      /\ Heeded(World(t).page)
  BY <1>1, WorldCurrent
<1> HIDE DEF m
<1>3. Does(t, Revoke(World(t))) \/ Does(t, Revoke(w)) \/ Does(t, Verify(w))
  BY DEF Resume, Dismiss
<1>4. Current(w, m, refused, safe) /\ Heeded(w.page) /\ refused \in [Gens -> Nat]
  BY <1>2, PlainCurrent DEF Recent
<1> HIDE DEF w
<1>5. /\ Current(Revoke(World(t)), m, refused, safe) /\ Heeded(Revoke(World(t)).page)
      /\ Current(Revoke(w), m, refused, safe) /\ Heeded(Revoke(w).page)
      /\ Current(Verify(w), m, refused, safe) /\ Heeded(Verify(w).page)
  BY <1>2, <1>4, RevokeCurrent, VerifyCurrent
<1> QED BY <1>3, <1>5, DoesRecently DEF m

LEMMA StorageEventRecent ==
  ASSUME Honest, Recent, NEW t \in Tabs, NEW e \in mail[t], StorageEvent(t, e)
  PROVE  Recent'
<1> DEFINE m == Warned(t)
<1> DEFINE a == ApplyAuthority(World(t), e.gen, FALSE)
<1>1. page[t].open /\ e \in Events /\ e.gen \in Nat
  BY BusyIsOpen, WorldVouched DEF Events
<1>2. /\ safe \in Safes /\ m \in BOOLEAN /\ Current(World(t), m, refused, safe)
      /\ Heeded(World(t).page) /\ World(t).page = page[t] /\ World(t).safe = safe
      /\ World(t).sent = {} /\ World(t) \in Worlds
  BY <1>1, WorldCurrent
<1>3. mail \in [Tabs -> SUBSET Events] /\ page \in [Tabs -> Pages]
  BY DEF Honest, Browsers
<1>4. refused' = refused
  BY DEF StorageEvent
<1>5. CASE e.key = "authority"
  <2>1. page' = [page EXCEPT ![t] = a.page] /\ safe' = a.safe
    BY <1>5 DEF StorageEvent
  <2>2. \A u \in Tabs \ {t} : mail'[u] = IF page[u].open THEN mail[u] \cup a.sent ELSE mail[u]
    BY <1>5 DEF StorageEvent
  <2>3. mail'[t] = mail[t] \ {e}
    BY DEF StorageEvent
  <2>4. Warned(t)' = m
    BY <1>5, <2>3 DEF Warned, Zero
  <2> HIDE DEF m
  <2>5. Current(a, m, refused, safe) /\ Heeded(a.page)
    BY <1>1, <1>2, AuthorityCurrent
  <2> HIDE DEF a
  <2> QED BY <1>2, <1>4, <2>1, <2>2, <2>4, <2>5, LeavesRecent
<1>6. CASE e.key # "authority"
  <2>1. /\ safe' = safe
        /\ page' = [page EXCEPT ![t] = IF Matches(page[t].auth, e) THEN page[t] ELSE Clear(World(t)).page]
    BY <1>6 DEF StorageEvent
  <2>2. \A u \in Tabs \ {t} : mail'[u] = mail[u]
    BY <1>6 DEF StorageEvent
  <2>3. mail'[t] = mail[t] \ {e}
    BY DEF StorageEvent
  <2>4. CASE Matches(page[t].auth, e)
    <3>1. e # Zero
      BY <2>4 DEF Matches, Zero
    <3>2. Warned(t)' = m
      BY <2>3, <3>1 DEF Warned
    <3>3. page' = [page EXCEPT ![t] = World(t).page] /\ safe' = World(t).safe
      BY <1>2, <2>1, <2>4
    <3>4. \A u \in Tabs \ {t} : mail'[u] = IF page[u].open THEN mail[u] \cup World(t).sent ELSE mail[u]
      BY <1>2, <2>2
    <3> HIDE DEF m
    <3> QED BY <1>2, <1>4, <3>2, <3>3, <3>4, LeavesRecent
  <2>5. CASE ~Matches(page[t].auth, e)
    <3> DEFINE k == Zero \in mail[t] \ {e}
    <3> DEFINE w == Clear(World(t))
    <3>1. Warned(t)' = k /\ k \in BOOLEAN
      BY <2>3 DEF Warned
    <3>2. w.safe = safe /\ w.sent = {}
      BY <1>2 DEF Clear, Worlds
    <3>3. page' = [page EXCEPT ![t] = w.page] /\ safe' = w.safe
      BY <2>1, <2>5, <3>2
    <3>4. \A u \in Tabs \ {t} : mail'[u] = IF page[u].open THEN mail[u] \cup w.sent ELSE mail[u]
      BY <2>2, <3>2
    <3> HIDE DEF m, k
    <3>5. Current(w, k, refused, safe) /\ Heeded(w.page)
      BY <1>2, <3>1, ClearCurrent
    <3> HIDE DEF w
    <3> QED BY <1>4, <3>1, <3>3, <3>4, <3>5, LeavesRecent
  <2> QED BY <2>4, <2>5
<1> QED BY <1>5, <1>6

-----------------------------------------------------------------------------
LEMMA PageRecent ==
  ASSUME Honest, Recent, NEW t \in Tabs, NEW p,
         page' = [page EXCEPT ![t] = p], safe' = safe, refused' = refused,
         \A u \in Tabs \ {t} : mail'[u] = mail[u],
         p.open \/ (Shut(p) /\ mail'[t] = {}),
         Paced(p, safe, Warned(t)', refused), Heeded(p)
  PROVE  Recent'
<1>1. page'[t] = p /\ \A u \in Tabs \ {t} : page'[u] = page[u]
  BY DEF Honest, Browsers
<1>2. \A u \in Tabs \ {t} : Warned(u)' = Warned(u)
  BY DEF Warned
<1>3. Fresh(safe, refused)' /\ (refused \in [Gens -> Nat])'
  BY DEF Recent, Fresh
<1>4. ASSUME NEW u \in Tabs \ {t}
      PROVE  /\ page'[u].open \/ (Shut(page'[u]) /\ mail'[u] = {})
             /\ Paced(page'[u], safe', Warned(u)', refused') /\ Heeded(page'[u])
  BY <1>1, <1>2 DEF Recent
<1>5. /\ page'[t].open \/ (Shut(page'[t]) /\ mail'[t] = {})
      /\ Paced(page'[t], safe', Warned(t)', refused') /\ Heeded(page'[t])
  BY <1>1
<1> QED BY <1>3, <1>4, <1>5 DEF Recent

LEMMA BlankPaced ==
  ASSUME NEW p, p.green = 0, p.watch = Off, p.expiry = Off, p.renew = NoRequest, p.show = NoRequest,
         NEW s, NEW m \in BOOLEAN, NEW R
  PROVE  Paced(p, s, m, R) /\ Heeded(p)
<1>1. Timed(p.renew, R) /\ Timed(p.show, R)
  BY Nothing
<1>2. /\ p.watch >= Off /\ p.expiry >= Off /\ ~(p.watch > 0) /\ ~(p.expiry >= 0)
  BY Arithmetic
<1> QED BY <1>1, <1>2 DEF Paced, Heeded

LEMMA OpenCloseHideRecent ==
  ASSUME Honest, Recent, NEW t \in Tabs, Open(t) \/ Close(t) \/ Hide(t) \/ Launch(t)
  PROVE  Recent'
<1>1. page[t] \in Pages /\ Paced(page[t], safe, Warned(t), refused) /\ Heeded(page[t])
      /\ Warned(t) \in BOOLEAN
  BY DEF Honest, Browsers, Recent, Warned
<1>2. CASE Open(t)
  <2>1. /\ Loading.green = 0 /\ Loading.watch = Off /\ Loading.expiry = Off /\ Loading.open
        /\ Loading.renew = NoRequest /\ Loading.show = NoRequest
    BY DEF Loading, Closed
  <2>2. Warned(t)' = Warned(t) /\ \A u \in Tabs \ {t} : mail'[u] = mail[u]
    BY <1>2 DEF Open, Warned
  <2>3. Paced(Loading, safe, Warned(t)', refused) /\ Heeded(Loading)
    BY <1>1, <2>1, <2>2, BlankPaced
  <2> HIDE DEF Loading
  <2> QED BY <1>2, <2>1, <2>2, <2>3, PageRecent DEF Open, storage
<1>3. CASE Close(t)
  <2> DEFINE p == [Closed EXCEPT !.gone = TRUE]
  <2>1. Shut(p)
    BY DEF Shut, Closed
  <2>2. page' = [page EXCEPT ![t] = p] /\ mail'[t] = {} /\ \A u \in Tabs \ {t} : mail'[u] = mail[u]
    BY <1>3 DEF Close, Honest, Browsers
  <2>3. Warned(t)' \in BOOLEAN
    BY DEF Warned
  <2> HIDE DEF p
  <2>4. Paced(p, safe, Warned(t)', refused) /\ Heeded(p)
    BY <2>1, <2>3, ShutPaced
  <2> QED BY <1>3, <2>1, <2>2, <2>4, PageRecent DEF Close, storage
<1>4. CASE Hide(t) \/ Launch(t)
  <2>1. PICK p \in {[page[t] EXCEPT !.visible = FALSE], [page[t] EXCEPT !.asked = gen + 1]} :
          page' = [page EXCEPT ![t] = p]
    BY <1>4 DEF Hide, Launch
  <2>2. page[t].open
    BY <1>4, BusyIsOpen DEF Hide, Launch
  <2>3. /\ p.open = page[t].open /\ p.green = page[t].green /\ p.watch = page[t].watch
        /\ p.expiry = page[t].expiry /\ p.renew = page[t].renew /\ p.show = page[t].show
    BY <1>1, <2>1 DEF Pages
  <2>4. mail' = mail /\ safe' = safe /\ refused' = refused
    BY <1>4 DEF Hide, Launch, storage
  <2>5. Warned(t)' = Warned(t)
    BY <2>4 DEF Warned
  <2>6. Paced(p, safe, Warned(t)', refused) /\ Heeded(p)
    BY <1>1, <2>3, <2>5 DEF Paced, Heeded
  <2>7. p.open /\ \A u \in Tabs \ {t} : mail'[u] = mail[u]
    BY <2>2, <2>3, <2>4
  <2> QED BY <2>1, <2>4, <2>6, <2>7, PageRecent
<1> QED BY <1>2, <1>3, <1>4

(* A refusal that has lasted less long is no worse.                            *)
LEMMA SoonerPaced ==
  ASSUME NEW p \in Pages, NEW s, NEW m \in BOOLEAN, NEW R \in [Gens -> Nat], NEW Q \in [Gens -> Nat],
         \A g \in Gens : Q[g] <= R[g], Speaks(p, Gens), Paced(p, s, m, R)
  PROVE  Paced(p, s, m, Q)
<1>1. ASSUME NEW r \in Requests, r.gen \in Gens \cup {0}, Timed(r, R) PROVE Timed(r, Q)
  <2>1. ASSUME r.yes # Off PROVE r.gen # 0 /\ Q[r.gen] <= Late - r.yes
    <3>1. r.gen \in Gens /\ R[r.gen] <= Late - r.yes /\ r.yes \in Int
      BY <1>1, <2>1 DEF Timed, Requests
    <3>2. Q[r.gen] <= R[r.gen] /\ Q[r.gen] \in Nat /\ R[r.gen] \in Nat
      BY <3>1
    <3> QED BY <3>1, <3>2, Arithmetic
  <2> QED BY <1>1, <2>1 DEF Timed
<1>2. Timed(p.renew, Q) /\ Timed(p.show, Q)
  BY <1>1 DEF Paced, Pages, Speaks
<1>3. ASSUME p.green # 0, p.renew.left > 0, ~m PROVE Q[p.green] <= MaxStale - p.renew.left
  <2>1. p.green \in Gens /\ R[p.green] <= MaxStale - p.renew.left /\ p.renew.left \in Int
    BY <1>3 DEF Paced, Speaks, Pages, Requests
  <2>2. Q[p.green] <= R[p.green] /\ Q[p.green] \in Nat /\ R[p.green] \in Nat
    BY <2>1
  <2> QED BY <2>1, <2>2, Arithmetic
<1> QED BY <1>2, <1>3 DEF Paced

LEMMA AllSpeak ==
  ASSUME Honest, NEW t \in Tabs
  PROVE  page[t] \in Pages /\ Speaks(page[t], Gens) /\ safe \in Safes /\ safe.gen \in Gens \cup {0}
  BY DEF Honest, Browsers, Speaks, Completed

LEMMA GrantLeaseRecent ==
  ASSUME Honest, Recent, NEW t \in Tabs, NEW r \in {"renew", "show"}, GrantLease(t, r)
  PROVE  Recent'
<1> DEFINE p == [page[t] EXCEPT ![r].yes = Late]
<1> DEFINE g == page[t][r].gen
<1>1. /\ page' = [page EXCEPT ![t] = p] /\ refused' = [refused EXCEPT ![g] = 0]
      /\ safe' = safe /\ mail' = mail /\ g # 0
  BY DEF GrantLease, storage
<1>2. page[t] \in Pages /\ Speaks(page[t], Gens) /\ g \in Gens
  BY <1>1, AllSpeak DEF Speaks
<1>3. refused \in [Gens -> Nat] /\ refused' \in [Gens -> Nat] /\ refused'[g] = 0
      /\ \A h \in Gens : refused'[h] <= refused[h]
  BY <1>1, <1>2 DEF Recent
<1>4. ASSUME NEW u \in Tabs
      PROVE  /\ Paced(page[u], safe, Warned(u), refused') /\ Heeded(page[u])
             /\ page[u].open \/ (Shut(page[u]) /\ mail[u] = {})
  <2>1. Warned(u) \in BOOLEAN /\ Paced(page[u], safe, Warned(u), refused)
    BY DEF Warned, Recent
  <2>2. Paced(page[u], safe, Warned(u), refused')
    BY <1>3, <2>1, AllSpeak, SoonerPaced
  <2> QED BY <2>2 DEF Recent
<1>5. Fresh(safe, refused')
  <2>1. safe \in Safes /\ safe.gen \in Gens \cup {0}
    BY AllSpeak
  <2>2. ASSUME safe.gen # 0, safe.age < Lease PROVE refused'[safe.gen] <= Late + safe.age
    <3>1. refused[safe.gen] <= Late + safe.age /\ safe.gen \in Gens /\ safe.age \in Int
      BY <2>1, <2>2 DEF Recent, Fresh, Safes
    <3>2. refused'[safe.gen] <= refused[safe.gen] /\ refused'[safe.gen] \in Nat /\ refused[safe.gen] \in Nat
      BY <1>3, <3>1
    <3> QED BY <3>1, <3>2, Arithmetic
  <2> QED BY <2>2 DEF Recent, Fresh
<1> DEFINE q == [page[t][r] EXCEPT !.yes = Late]
<1>6. q.gen = g /\ q.left = page[t][r].left /\ q.yes = Late /\ q # NoRequest
  BY <1>1, <1>2 DEF Pages, Requests, NoRequest
<1>7. Timed(page[t][r], refused') /\ page[t][r].left \in Int
  BY <1>2, <1>4 DEF Paced, Pages, Requests
<1>8. Timed(q, refused')
  <2>1. refused'[g] <= Late - Late /\ Late \in Off .. Late
    BY <1>3, Arithmetic
  <2> HIDE DEF q
  <2> QED BY <1>1, <1>6, <1>7, <2>1 DEF Timed
<1>9. /\ p.open = page[t].open /\ p.green = page[t].green /\ p.watch = page[t].watch
      /\ p.expiry = page[t].expiry
      /\ \/ p.renew = q /\ p.show = page[t].show /\ q.left = page[t].renew.left /\ page[t].renew # NoRequest
         \/ p.renew = page[t].renew /\ p.show = q
  <2>1. page[t][r] # NoRequest
    BY <1>1 DEF NoRequest
  <2>2. CASE r = "renew"
    BY <1>2, <1>6, <2>1, <2>2 DEF Pages
  <2>3. CASE r = "show"
    BY <1>2, <2>1, <2>3 DEF Pages
  <2> QED BY <2>2, <2>3
<1>10. page[t].open
  BY <1>1, BusyIsOpen
<1> HIDE DEF p, q
<1>11. Paced(p, safe, Warned(t), refused') /\ Heeded(p) /\ p.open
  BY <1>4, <1>6, <1>8, <1>9, <1>10 DEF Paced, Heeded
<1>12. ASSUME NEW u \in Tabs
       PROVE  /\ page'[u].open \/ (Shut(page'[u]) /\ mail'[u] = {})
              /\ Paced(page'[u], safe', Warned(u)', refused') /\ Heeded(page'[u])
  <2>1. Warned(u)' = Warned(u) /\ page'[u] = IF u = t THEN p ELSE page[u]
    BY <1>1 DEF Warned, Honest, Browsers
  <2> QED BY <1>1, <1>4, <1>11, <2>1
<1>13. Fresh(safe, refused)'
  BY <1>1, <1>5 DEF Fresh
<1> QED BY <1>3, <1>12, <1>13 DEF Recent

(* The headers are there: the request is given up no more.                     *)
LEMMA HeadersRecent ==
  ASSUME Honest, Recent, NEW t \in Tabs, NEW r \in {"renew", "show"}, Headers(t, r)
  PROVE  Recent'
<1> DEFINE p == [page[t] EXCEPT ![r].left = Off]
<1> DEFINE q == [page[t][r] EXCEPT !.left = Off]
<1>1. /\ page' = [page EXCEPT ![t] = p] /\ refused' = refused /\ safe' = safe /\ mail' = mail
      /\ page[t][r].gen # 0
  BY DEF Headers, storage
<1>2. page[t] \in Pages /\ Speaks(page[t], Gens)
  BY AllSpeak
<1>3. page[t][r] \in Requests /\ page[t][r] # NoRequest
  BY <1>1, <1>2 DEF Pages, NoRequest
<1>4. q.gen = page[t][r].gen /\ q.left = Off /\ q.yes = page[t][r].yes /\ q # NoRequest
  BY <1>1, <1>3 DEF Requests, NoRequest
<1>5. /\ Paced(page[t], safe, Warned(t), refused) /\ Heeded(page[t])
      /\ page[t].open
  BY <1>1, BusyIsOpen DEF Recent
<1>6. Timed(q, refused)
  <2>1. Timed(page[t][r], refused)
    BY <1>5 DEF Paced
  <2>2. Off \in Off .. Timeout
    BY Arithmetic
  <2> HIDE DEF q
  <2> QED BY <1>1, <1>4, <2>1, <2>2 DEF Timed
<1>7. /\ p.open = page[t].open /\ p.green = page[t].green /\ p.watch = page[t].watch
      /\ p.expiry = page[t].expiry
      /\ \/ p.renew = q /\ p.show = page[t].show
         \/ p.renew = page[t].renew /\ p.show = q
  <2>1. CASE r = "renew"
    BY <1>2, <2>1 DEF Pages
  <2>2. CASE r = "show"
    BY <1>2, <2>2 DEF Pages
  <2> QED BY <2>1, <2>2
<1>8. ~(q.left > 0)
  BY <1>4, Arithmetic
<1> HIDE DEF p, q
<1>9. Paced(p, safe, Warned(t), refused) /\ Heeded(p)
  BY <1>4, <1>5, <1>6, <1>7, <1>8 DEF Paced, Heeded
<1>10. Warned(t)' = Warned(t)
  BY <1>1 DEF Warned
<1> QED BY <1>1, <1>5, <1>7, <1>9, <1>10, PageRecent

LEMMA DownIs ==
  ASSUME NEW n \in Int, n >= Off
  PROVE  /\ Down(n) \in Int /\ Down(n) >= Off /\ (Down(n) = Off => n = Off)
         /\ n > 0 => Down(n) = n - 1
         /\ ~(n > 0) => Down(n) = n
  BY Arithmetic DEF Down

LEMMA TimePasses ==
  ASSUME NEW r \in Requests, NEW R \in [Gens -> Nat], NEW Q \in [Gens -> Nat],
         \A g \in Gens : Q[g] <= R[g] + 1, r.gen \in Gens \cup {0}, Timed(r, R)
  PROVE  /\ Timed(Wait(r), Q)
         /\ (Wait(r) = NoRequest) <=> (r = NoRequest)
         /\ Wait(r).left > 0 => r.left > 0 /\ Wait(r).left = r.left - 1
<1> DEFINE q == Wait(r)
<1>1. /\ q.gen = r.gen /\ q.left = Down(r.left) /\ q.yes = IF r.yes = Off THEN Off ELSE r.yes - 1
      /\ r.left \in Off .. Timeout /\ r.yes \in Off .. Late
  BY DEF Wait, Requests, Timed
<1>2. q.left \in Off .. Timeout /\ (q.left > 0 => r.left > 0 /\ q.left = r.left - 1)
  BY <1>1, Arithmetic DEF Down
<1>3. q.yes \in Off .. Late /\ (q.yes # Off => r.yes # Off /\ q.yes = r.yes - 1)
  BY <1>1, Arithmetic
<1>4. (q = NoRequest) <=> (r = NoRequest)
  <2>1. CASE r = NoRequest
    <3>1. r.left = 0 /\ r.yes = Off /\ Down(0) = 0
      BY <2>1 DEF NoRequest, Down
    <3>2. q = r
      BY <3>1 DEF Wait, Requests
    <3> QED BY <2>1, <3>2
  <2>2. CASE r # NoRequest
    <3>1. r.gen # 0
      BY <2>2 DEF Timed
    <3> HIDE DEF q
    <3>2. q # NoRequest
      BY <1>1, <3>1 DEF NoRequest
    <3> QED BY <2>2, <3>2
  <2> QED BY <2>1, <2>2
<1> HIDE DEF q
<1>5. ASSUME q.yes # Off PROVE q.gen # 0 /\ Q[q.gen] <= Late - q.yes
  <2>1. r.gen \in Gens /\ r.gen # 0 /\ R[r.gen] <= Late - r.yes
    BY <1>3, <1>5 DEF Timed
  <2>2. Q[r.gen] <= R[r.gen] + 1 /\ Q[r.gen] \in Nat /\ R[r.gen] \in Nat
    BY <2>1
  <2>3. q.yes = r.yes - 1 /\ r.yes \in Int
    BY <1>1, <1>3, <1>5, Arithmetic
  <2> QED BY <1>1, <2>1, <2>2, <2>3, Arithmetic
<1>6. q # NoRequest => q.gen # 0
  BY <1>1, <1>4 DEF Timed
<1> QED BY <1>2, <1>3, <1>4, <1>5, <1>6 DEF Timed, q

LEMMA TickRecent ==
  ASSUME Honest, Recent, Tick
  PROVE  Recent'
<1>1. mail' = mail /\ \A t \in Tabs : Warned(t)' = Warned(t) /\ Warned(t) \in BOOLEAN
  <2>1. mail' = mail
    BY DEF Tick
  <2>2. Zero' = Zero
    BY DEF Zero
  <2> QED BY <2>1, <2>2 DEF Warned
<1>2. refused \in [Gens -> Nat] /\ refused' \in [Gens -> Nat]
      /\ \A g \in Gens : refused'[g] <= refused[g] + 1
  <2>1. refused \in [Gens -> Nat]
    BY DEF Recent
  <2>2. ASSUME NEW g \in Gens
        PROVE  LET n == IF Granted(g) \/ ~Shown(g) THEN 0 ELSE Least(refused[g] + 1, MaxStale)
               IN  n \in Nat /\ n <= refused[g] + 1
    <3>1. refused[g] \in Nat
      BY <2>1
    <3> QED BY <3>1, Arithmetic DEF Least
  <2>3. refused' = [g \in Gens |-> IF Granted(g) \/ ~Shown(g) THEN 0 ELSE Least(refused[g] + 1, MaxStale)]
    BY DEF Tick
  <2> QED BY <2>1, <2>2, <2>3
<1>3. /\ safe' \in Safes /\ safe'.gen = safe.gen /\ safe \in Safes
      /\ safe.age \in 0 .. Lease /\ safe'.age \in 0 .. Lease
      /\ safe'.age <= safe.age + 1
      /\ safe.gen # 0 /\ safe'.age < Lease => safe'.age = safe.age + 1
      /\ safe.gen = 0 => safe' = safe
  <2>1. safe \in Safes /\ safe.age \in 0 .. Lease /\ (safe.gen = 0 => safe = NoSafe)
    BY AllSpeak DEF Recent, Fresh, Honest, Browsers
  <2>2. CASE safe = NoSafe
    <3>1. safe' = safe /\ safe.gen = 0
      BY <2>2 DEF Tick, NoSafe
    <3> QED BY <2>1, <3>1, Arithmetic
  <2>3. CASE safe # NoSafe
    <3> DEFINE a == Least(safe.age + 1, Lease)
    <3>1. a \in 0 .. Lease /\ a <= safe.age + 1 /\ (a < Lease => a = safe.age + 1)
      BY <2>1, Arithmetic DEF Least
    <3>2. safe' = [safe EXCEPT !.age = a]
      BY <2>3 DEF Tick
    <3> HIDE DEF a
    <3>3. safe' \in Safes /\ safe'.gen = safe.gen /\ safe'.age = a
      BY <2>1, <3>1, <3>2, Arithmetic DEF Safes
    <3> QED BY <2>1, <2>3, <3>1, <3>3
  <2> QED BY <2>2, <2>3
<1>4. Fresh(safe', refused')
  <2>1. ASSUME safe'.gen # 0, safe'.age < Lease PROVE refused'[safe'.gen] <= Late + safe'.age
    <3>1. safe'.age = safe.age + 1 /\ safe.age < Lease /\ safe.gen \in Gens
      BY <1>3, <2>1, AllSpeak, Arithmetic DEF Honest, Completed
    <3>2. refused[safe.gen] <= Late + safe.age
      BY <1>3, <2>1, <3>1 DEF Recent, Fresh
    <3>3. refused'[safe.gen] <= refused[safe.gen] + 1 /\ refused'[safe.gen] \in Nat /\ refused[safe.gen] \in Nat
      BY <1>2, <3>1
    <3> QED BY <1>3, <3>1, <3>2, <3>3, Arithmetic
  <2>2. safe'.gen = 0 => safe' = NoSafe
    BY <1>3 DEF Recent, Fresh
  <2> QED BY <1>3, <2>1, <2>2 DEF Fresh
<1>5. ASSUME NEW t \in Tabs
      PROVE  /\ page'[t].open \/ (Shut(page'[t]) /\ mail'[t] = {})
             /\ Paced(page'[t], safe', Warned(t), refused') /\ Heeded(page'[t])
  <2> DEFINE p == page[t]
  <2> DEFINE m == Warned(t)
  <2> DEFINE r == Wait(p.renew)
  <2> DEFINE s == Wait(p.show)
  <2> DEFINE q == [p EXCEPT !.watch = Down(p.watch), !.expiry = Down(p.expiry), !.renew = r, !.show = s]
  <2>1. /\ p \in Pages /\ Speaks(p, Gens) /\ Paced(p, safe, m, refused) /\ Heeded(p) /\ m \in BOOLEAN
        /\ p.open \/ (Shut(p) /\ mail[t] = {})
    BY <1>1, AllSpeak DEF Recent
  <2>2. page'[t] = q
    <3>1. page'[t] = [page[t] EXCEPT !.watch = Down(@), !.expiry = Down(@),
                                     !.renew = Wait(@), !.show = Wait(@)]
      BY DEF Tick
    <3>2. [page[t] EXCEPT !.watch = Down(@), !.expiry = Down(@),
                          !.renew = Wait(@), !.show = Wait(@)] = q
      BY <2>1 DEF Pages
    <3> QED BY <3>1, <3>2
  <2>3. /\ p.renew \in Requests /\ p.show \in Requests /\ Timed(p.renew, refused) /\ Timed(p.show, refused)
        /\ p.renew.gen \in Gens \cup {0} /\ p.show.gen \in Gens \cup {0}
        /\ p.watch \in Int /\ p.expiry \in Int /\ p.watch >= Off /\ p.expiry >= Off
        /\ p.green \in Gens \cup {0}
    BY <2>1 DEF Pages, Paced, Speaks
  <2>5. /\ q.open = p.open /\ q.green = p.green /\ q.watch = Down(p.watch) /\ q.expiry = Down(p.expiry)
        /\ q.renew = r /\ q.show = s
    BY <2>1 DEF Pages
  <2>6. /\ Timed(r, refused') /\ ((r = NoRequest) <=> (p.renew = NoRequest))
        /\ r.left > 0 => p.renew.left > 0 /\ r.left = p.renew.left - 1
    BY <1>2, <2>3, TimePasses
  <2>7. Timed(s, refused')
    BY <1>2, <2>3, TimePasses
  <2>8. /\ Down(p.watch) >= Off /\ Down(p.expiry) >= Off
        /\ Down(p.watch) > 0 => Down(p.watch) < Down(p.expiry)
        /\ Down(p.watch) = Off => p.watch = Off
    <3>1. p.watch > 0 => p.watch < p.expiry
      BY <2>1 DEF Paced
    <3> QED BY <2>3, <3>1, DownIs, Arithmetic
  <2>9. Down(p.expiry) >= 0 => safe'.age + Down(p.expiry) <= Lease
    <3>1. p.expiry >= 0 => safe.age + p.expiry <= Lease
      BY <2>1 DEF Paced
    <3>2. (p.expiry > 0 => Down(p.expiry) = p.expiry - 1) /\ (~(p.expiry > 0) => Down(p.expiry) = p.expiry)
      BY <2>3, DownIs
    <3> QED BY <1>3, <2>3, <3>1, <3>2, Arithmetic
  <2>10. q.green # 0 /\ q.green # safe'.gen => m
    BY <1>3, <2>1, <2>5 DEF Paced
  <2>11. ASSUME q.green # 0, r.left > 0, ~m PROVE refused'[q.green] <= MaxStale - r.left
    <3>1. p.green \in Gens /\ p.renew.left > 0 /\ refused[p.green] <= MaxStale - p.renew.left
      BY <2>1, <2>3, <2>5, <2>6, <2>11 DEF Paced
    <3>2. refused'[p.green] <= refused[p.green] + 1 /\ refused'[p.green] \in Nat /\ refused[p.green] \in Nat
      BY <1>2, <3>1
    <3>3. r.left = p.renew.left - 1 /\ p.renew.left \in Int
      BY <2>3, <2>6, <2>11 DEF Requests
    <3> QED BY <2>5, <3>1, <3>2, <3>3, Arithmetic
  <2>12. ASSUME ~p.open PROVE Shut(q) /\ mail'[t] = {}
    <3>1. Shut(p) /\ mail[t] = {}
      BY <2>1, <2>12
    <3>2. p.watch = Off /\ p.expiry = Off /\ p.renew = NoRequest /\ p.show = NoRequest
      BY <3>1, ShutIs
    <3>3. Down(Off) = Off
      BY Arithmetic DEF Down
    <3>4. r = p.renew /\ s = p.show
      <4>1. NoRequest.gen = 0 /\ NoRequest \in Requests /\ Timed(NoRequest, refused)
        BY Nothing
      <4>2. Wait(NoRequest) = NoRequest
        BY <1>2, <4>1, TimePasses
      <4> QED BY <3>2, <4>2
    <3>5. q = p
      <4> HIDE DEF p, r, s
      <4> QED BY <2>1, <3>2, <3>3, <3>4 DEF Pages
    <3> QED BY <1>1, <3>1, <3>5
  <2> HIDE DEF q, r, s, m
  <2>13. Paced(q, safe', m, refused')
    BY <2>5, <2>6, <2>7, <2>8, <2>9, <2>10, <2>11 DEF Paced
  <2>14. Heeded(q)
    BY <2>1, <2>5, <2>6, <2>8 DEF Heeded
  <2> QED BY <2>2, <2>5, <2>12, <2>13, <2>14 DEF m
<1>6. \A t \in Tabs : Warned(t)' = Warned(t)
  BY <1>1
<1>7. Fresh(safe, refused)' /\ (refused \in [Gens -> Nat])'
  BY <1>2, <1>4 DEF Fresh
<1> QED BY <1>5, <1>6, <1>7 DEF Recent

LEMMA StillRecent ==
  ASSUME Recent, UNCHANGED <<safe, page, mail, refused>>
  PROVE  Recent'
  BY DEF Recent, Fresh, Warned

LEMMA StepRecent ==
  ASSUME Honest, Recent, [Next]_vars
  PROVE  Recent'
<1>1. CASE UNCHANGED vars
  BY <1>1, StillRecent DEF vars, storage
<1>2. CASE Server
  <2>1. CASE DeviceComesOrGoes \/ LaunchElsewhere
    BY <2>1, StillRecent DEF DeviceComesOrGoes, LaunchElsewhere, ServerStep, storage
  <2>2. CASE \E g \in Gens : WorkerStarts(g) \/ WorkerEnds(g) \/ Expire(g)
    BY <2>2, StillRecent DEF WorkerStarts, WorkerEnds, Expire, ServerStep, storage
  <2>3. CASE \E t \in Tabs, r \in {"renew", "show"} : GrantLease(t, r)
    BY <2>3, GrantLeaseRecent
  <2> QED BY <1>2, <2>1, <2>2, <2>3 DEF Server
<1>3. ASSUME NEW t \in Tabs, Handles(t) \/ Leaves(t) PROVE Recent'
  <2>1. CASE Open(t) \/ Close(t) \/ Hide(t) \/ Launch(t)
    BY <2>1, OpenCloseHideRecent
  <2>2. CASE Restore(t)
    BY <2>2, RestoreRecent
  <2>3. CASE LaunchAccepted(t) \/ LaunchRefused(t)
    BY <2>3, LaunchAnswerRecent
  <2>4. CASE \E g \in Gens : Poll(t, g)
    BY <2>4, PollRecent
  <2>5. CASE ShowEnds(t)
    BY <2>5, ShowEndsRecent
  <2>6. CASE RenewEnds(t)
    BY <2>6, RenewEndsRecent
  <2>7. CASE ExpiryFires(t)
    BY <2>7, ExpiryRecent
  <2>8. CASE WatchFires(t)
    BY <2>8, WatchRecent
  <2>9. CASE Resume(t) \/ Dismiss(t)
    BY <2>9, ResumeDismissRecent
  <2>10. CASE \E e \in mail[t] : StorageEvent(t, e)
    BY <2>10, StorageEventRecent
  <2>11. CASE Headers(t, "renew") \/ Headers(t, "show")
    BY <2>11, HeadersRecent
  <2> QED BY <1>3, <2>1, <2>2, <2>3, <2>4, <2>5, <2>6, <2>7, <2>8, <2>9, <2>10, <2>11 DEF Handles, Leaves
<1>4. CASE Tick
  BY <1>4, TickRecent
<1> QED BY <1>1, <1>2, <1>3, <1>4 DEF Next

LEMMA InitRecent ==
  ASSUME Init
  PROVE  Recent
<1>1. \A t \in Tabs : page[t] = Closed /\ mail[t] = {} /\ Warned(t) = FALSE
  BY DEF Init, Warned
<1>2. Shut(Closed)
  BY DEF Shut, Closed
<1>3. Paced(Closed, safe, FALSE, refused) /\ Heeded(Closed)
  BY <1>2, ShutPaced
<1>4. safe = NoSafe /\ refused \in [Gens -> Nat]
  BY DEF Init
<1>5. Fresh(safe, refused)
  BY <1>4, Arithmetic DEF Fresh, NoSafe
<1> QED BY <1>1, <1>2, <1>3, <1>4, <1>5 DEF Recent

LEMMA RecentIsEnough ==
  ASSUME Honest, Recent
  PROVE  ApprovalIsRecent
<1> SUFFICES ASSUME NEW t \in Tabs, page[t].visible, Punctual(t), page[t].green # 0, ~Stalled(t)
             PROVE  refused[page[t].green] < MaxStale
  BY DEF ApprovalIsRecent
<1> DEFINE p == page[t]
<1> DEFINE g == p.green
<1>1. /\ p \in Pages /\ g \in Gens /\ refused[g] \in Nat /\ p.watch \in Int /\ p.expiry \in Int
      /\ p.renew \in Requests /\ p.renew.left \in Int /\ safe.age \in 0 .. Lease
  BY AllSpeak DEF Speaks, Recent, Fresh, Pages, Requests
<1>2. /\ mail[t] = {} /\ p.watch # 0 /\ p.expiry # 0
      /\ p.renew # NoRequest => p.renew.left # 0
  <2>1. \A x \in {"renew", "show"} : page[t][x] # NoRequest => page[t][x].left # 0
    BY DEF Punctual
  <2> QED BY <2>1 DEF Punctual
<1>3. ~Warned(t) /\ Warned(t) \in BOOLEAN
  BY <1>2 DEF Warned
<1>4. Paced(p, safe, Warned(t), refused) /\ Heeded(p)
  BY DEF Recent
<1>5. g = safe.gen
  BY <1>3, <1>4 DEF Paced
<1>6. CASE safe.age < Lease
  <2>1. refused[g] <= Late + safe.age
    BY <1>5, <1>6 DEF Recent, Fresh
  <2> QED BY <1>1, <1>6, <2>1, Arithmetic
<1>7. CASE ~(safe.age < Lease)
  <2>1. p.expiry = Off
    <3>1. p.expiry >= Off /\ (p.expiry >= 0 => safe.age + p.expiry <= Lease)
      BY <1>4 DEF Paced
    <3> QED BY <1>1, <1>2, <1>7, <3>1, Arithmetic
  <2>2. p.watch = Off
    <3>1. p.watch >= Off /\ (p.watch > 0 => p.watch < p.expiry)
      BY <1>4 DEF Paced
    <3> QED BY <1>1, <1>2, <2>1, <3>1, Arithmetic
  <2>3. p.renew # NoRequest
    BY <1>4, <2>2 DEF Heeded
  <2>4. p.renew.left > 0
    <3>1. p.renew.left \in Off .. Timeout /\ p.renew.gen # 0
      BY <1>4, <2>3 DEF Paced, Timed
    <3>2. p.renew.left # Off
      BY <2>1, <3>1 DEF Stalled
    <3> QED BY <1>2, <2>3, <3>1, <3>2, Arithmetic
  <2>5. refused[g] <= MaxStale - p.renew.left
    BY <1>3, <1>4, <2>4 DEF Paced
  <2> QED BY <1>1, <2>4, <2>5, Arithmetic
<1> QED BY <1>6, <1>7

(* What a user sees is not old (guardian.js:1036-1157, api_helpers.php:833):   *)
(* for every number of tabs, hidden as they like, and every lease, watchdog,    *)
(* timeout and age of a late answer, a visible tab whose due work is done and   *)
(* whose renewal has not stalled in its body shows an approval only while the  *)
(* server would have confirmed it less than a lease, a timeout and that age    *)
(* ago.                                                                       *)
THEOREM NoStaleApproval == Spec => []ApprovalIsRecent
<1>1. Init => Honest /\ Recent
  BY InitHonest, InitRecent
<1>2. Honest /\ Recent /\ [Next]_vars => Honest' /\ Recent'
  BY StepHonest, StepRecent
<1>3. Honest /\ Recent => ApprovalIsRecent
  BY RecentIsEnough
<1> QED BY <1>1, <1>2, <1>3, PTL DEF Spec
===============================================================================
