---------------------------- MODULE SafeApproval ----------------------------
(***************************************************************************)
(* Who may see "safe to unplug": the lease API (api_helpers.php) and the     *)
(* browser tabs (guardian.js).  An approval is not a fact but a lease: a tab *)
(* shows it while the server has confirmed, a moment ago, that its job is    *)
(* the newest, ended safely, and that its device is still absent.  All tabs  *)
(* of a browser share one approval in local storage and hear of each other's *)
(* writes by storage events; each keeps its own notice and its own timers.   *)
(*                                                                           *)
(* Time passes in units, with Tick.  A visible tab is punctual: it has run   *)
(* what was due before time goes on.  A hidden one, throttled or frozen, may  *)
(* be late by any time: with its timers, its storage events and the answers   *)
(* to its requests.                                                           *)
(*                                                                           *)
(* The page gives a request up after Timeout, with a timer like the others,   *)
(* and only until the headers are there: the body of an answer may take any   *)
(* time.  A lease is dated by the end of the body and not by what the server  *)
(* said when, so how old an answer may be when it is taken, by a connection    *)
(* that stalls or a tab that thaws, is not for the page to say: it is Late     *)
(* here, an older one is an error.  Not a step of this model: a clock that is  *)
(* set back (the page takes a negative age for a young one), and a visible tab *)
(* that sleeps with its machine.                                              *)
(*                                                                           *)
(* The lease is one step at the server, under the shared api.lock: a launch  *)
(* holds it exclusively, and a device that appears while sysfs is scanned    *)
(* was absent when the scan listed the bus, which is that step.  A request   *)
(* may fail at any moment, granted or not.                                    *)
(* The boot id, the identity compared by the page, jobs remembered by another *)
(* tab and the clearing of all storage are left out.                         *)
(***************************************************************************)
EXTENDS Integers, FiniteSets

CONSTANTS
  Tabs,        (* browser tabs on the page                                    *)
  MaxGen,      (* bound: jobs launched                                        *)
  Lease,       (* SAFE_LEASE_MS                                               *)
  Watchdog,    (* SAFE_WATCHDOG_MS                                            *)
  Timeout,     (* SAFE_REQUEST_TIMEOUT_MS                                     *)
  Late         (* bound: how old a lease may be when a tab takes the answer   *)

ASSUME ApprovalAssumption ==
  /\ {MaxGen, Lease, Watchdog, Timeout} \subseteq Nat \ {0}
  /\ Watchdog < Lease /\ Late \in Nat

Gens == 1..MaxGen
Off == -1

VARIABLES
  gen,        (* authority: generation of the newest job, 0 before the first  *)
  job,        (* job file by generation; expired: the API says it failed      *)
  present,    (* a device with the identity of the jobs is on the bus         *)
  safe,       (* local storage: the approval and its age                      *)
  published,  (* local storage: the authority, 0 for none                     *)
  page,       (* what each tab shows, waits for and has scheduled             *)
  mail,       (* per tab: storage events not delivered yet                    *)
  refused     (* history: how long a lease has been refused for a generation  *)
              (* some tab shows or is about to show                           *)
serverVars == <<gen, job, present>>
storage == <<safe, published>>
vars == <<serverVars, storage, page, mail, refused>>

NoSafe == [gen |-> 0, age |-> 0]
(* A request: the time until it is given up, Off once its headers are there,   *)
(* and the time for which a lease granted to it will do, Off without one.      *)
NoRequest == [gen |-> 0, left |-> 0, yes |-> Off]
Request(g) == [gen |-> g, left |-> Timeout, yes |-> Off]
Closed ==
  [open |-> FALSE, gone |-> FALSE, visible |-> FALSE, loading |-> FALSE, auth |-> 0, green |-> 0,
   watch |-> Off, expiry |-> Off, renew |-> NoRequest, show |-> NoRequest,
   jobs |-> {}, asked |-> 0]
Loading == [Closed EXCEPT !.open = TRUE, !.visible = TRUE, !.loading = TRUE]

Init ==
  /\ gen = 0 /\ job = [g \in Gens |-> "none"] /\ present = TRUE
  /\ safe = NoSafe /\ published = 0
  /\ page = [t \in Tabs |-> Closed] /\ mail = [t \in Tabs |-> {}]
  /\ refused = [g \in Gens |-> 0]

-----------------------------------------------------------------------------
(* The handlers of a tab, as functions of its world: its page, the shared     *)
(* approval, and the storage events it has caused.                            *)
World(t) == [page |-> page[t], safe |-> safe, published |-> published, sent |-> {}]

Clear(w) == [w EXCEPT !.page.green = 0, !.page.watch = Off, !.page.expiry = Off]

Store(w, s) ==
  [w EXCEPT !.safe = s,
            !.sent = @ \cup IF s = NoSafe /\ w.safe = NoSafe THEN {}
                            ELSE {[key |-> "safe", gen |-> s.gen]}]

Revoke(w) == Clear(Store(w, NoSafe))

Matches(a, s) == a # 0 /\ s.gen = a

ApplyAuthority(w, a, publish) ==
  LET p == IF publish THEN a ELSE w.published
      v == [w EXCEPT !.page.auth = a, !.published = p,
              !.sent = @ \cup IF p = w.published THEN {} ELSE {[key |-> "authority", gen |-> a]}]
  IN IF v.safe # NoSafe /\ ~Matches(a, v.safe) THEN Revoke(v) ELSE v

Schedule(w, delay) ==
  IF w.safe = NoSafe THEN Clear(w)
  ELSE IF w.safe.age >= Lease THEN Revoke(w)
  ELSE [w EXCEPT !.page.watch = delay, !.page.expiry = Lease - w.safe.age]

Show(w, g) ==
  Schedule([Store(w, [gen |-> g, age |-> 0]) EXCEPT !.page.green = g], Watchdog)

(* Variant: a check that comes too early is not put off but forgotten.         *)
VerifyOnce(w) ==
  IF w.safe = NoSafe THEN Clear(w)
  ELSE IF w.page.renew # NoRequest \/ w.safe.age < Watchdog THEN w
  ELSE IF w.safe.age >= Lease THEN Revoke(w)
  ELSE [w EXCEPT !.page.watch = Off, !.page.renew = Request(w.safe.gen)]

(* verifySafeLease: one request at a time, and none of a young lease.          *)
Verify(w) ==
  IF w.safe = NoSafe THEN Clear(w)
  ELSE IF w.page.renew # NoRequest THEN w
  ELSE IF w.safe.age >= Lease THEN Revoke(w)
  ELSE IF w.safe.age >= Watchdog
    THEN [w EXCEPT !.page.watch = Off, !.page.renew = Request(w.safe.gen)]
  ELSE IF w.page.watch = Off THEN Schedule(w, Watchdog - w.safe.age) ELSE w

Does(t, w) ==
  /\ page' = [page EXCEPT ![t] = w.page]
  /\ safe' = w.safe /\ published' = w.published
  /\ mail' = [u \in Tabs |-> IF u # t /\ page[u].open THEN mail[u] \cup w.sent ELSE mail[u]]
  /\ UNCHANGED refused

-----------------------------------------------------------------------------
(* The server, the workers and the device.                                    *)
(* The bus has no device on the port of the job nor one with its identity.    *)
Absent == ~present

Granted(g) == g = gen /\ job[g] = "safe" /\ Absent

ServerStep == UNCHANGED <<storage, page, mail, refused>>

DeviceComesOrGoes == present' = ~present /\ UNCHANGED <<gen, job>> /\ ServerStep

WorkerStarts(g) ==
  /\ job[g] \in {"queued", "expired"}
  /\ job' = [job EXCEPT ![g] = "running"]
  /\ UNCHANGED <<gen, present>> /\ ServerStep

WorkerEnds(g) ==
  /\ job[g] = "running"
  /\ \E e \in {"failed"} \cup (IF present THEN {} ELSE {"safe"}) :
       job' = [job EXCEPT ![g] = e]
  /\ UNCHANGED <<gen, present>> /\ ServerStep

(* The API writes failed: no worker within 30 seconds, or a launch that failed *)
(* after its job file.  It looked before, the worker may have started since.  *)
Expire(g) ==
  /\ job[g] \in {"queued", "running"}
  /\ job' = [job EXCEPT ![g] = "expired"]
  /\ UNCHANGED <<gen, present>> /\ ServerStep

GrantLease(t, r) ==
  /\ page[t][r].gen # 0 /\ page[t][r].left # Off /\ page[t][r].yes = Off
  /\ Granted(page[t][r].gen)
  /\ page' = [page EXCEPT ![t][r].yes = Late]
  /\ refused' = [refused EXCEPT ![page[t][r].gen] = 0]
  /\ UNCHANGED <<serverVars, storage, mail>>

-----------------------------------------------------------------------------
(* Launch, by a click in a tab, and the answer the tab gets, late or never.    *)
NewJob ==
  /\ gen < MaxGen /\ present
  /\ \A g \in Gens : job[g] \notin {"queued", "running"}
  /\ gen' = gen + 1
  /\ job' = [job EXCEPT ![gen + 1] = "queued"]
  /\ UNCHANGED present

LaunchElsewhere == NewJob /\ ServerStep

Launch(t) ==
  /\ page[t].open /\ ~page[t].loading /\ page[t].asked = 0
  /\ NewJob
  /\ page' = [page EXCEPT ![t].asked = gen + 1]
  /\ UNCHANGED <<storage, mail, refused>>

Answered(t) == [World(t) EXCEPT !.page.asked = 0]

LaunchAccepted(t) ==
  LET g == page[t].asked IN
  /\ g # 0
  /\ Does(t, ApplyAuthority([Revoke(Answered(t)) EXCEPT !.page.jobs = @ \cup {g}], g, TRUE))
  /\ UNCHANGED serverVars

LaunchRefused(t) ==
  /\ page[t].asked # 0
  /\ \/ Does(t, Answered(t))
     \/ job[page[t].asked] = "expired" /\ Does(t, ApplyAuthority(Answered(t), page[t].asked, TRUE))
  /\ UNCHANGED serverVars

(* A status the server gave at any time since the job was launched.  A tab     *)
(* asks for one lease at a time to show an approval.                          *)
Poll(t, g) ==
  /\ g \in page[t].jobs /\ ~page[t].loading /\ page[t].show = NoRequest
  /\ \E a \in g..gen :
       LET w == ApplyAuthority(World(t), a, TRUE) IN
       \/ Does(t, w)
       \/ /\ job[g] \in {"safe", "failed", "expired"}
          /\ Does(t, [w EXCEPT !.page.jobs = @ \ {g},
                               !.page.show = IF job[g] = "safe" /\ a = g THEN Request(g) ELSE @])
  /\ UNCHANGED serverVars

(* The headers of an answer, a lease or not: nothing ends the request now but   *)
(* the body or the connection.                                                *)
Headers(t, r) ==
  /\ page[t][r].gen # 0 /\ page[t][r].left # Off
  /\ page' = [page EXCEPT ![t][r].left = Off]
  /\ UNCHANGED <<serverVars, storage, mail, refused>>

(* finishJob and restoreJobs, once the lease has answered.                     *)
ShowEnds(t) ==
  LET g == page[t].show.gen
      w == [World(t) EXCEPT !.page.show = NoRequest, !.page.loading = FALSE]
  IN /\ g # 0
     /\ \/ page[t].show.yes # Off /\ Does(t, Show(ApplyAuthority(w, g, TRUE), g))
        \/ Does(t, IF page[t].loading THEN Revoke(w) ELSE w)
     /\ UNCHANGED serverVars

RenewEnds(t) ==
  LET g == page[t].renew.gen
      w == [World(t) EXCEPT !.page.renew = NoRequest]
      v == ApplyAuthority(w, g, TRUE)
  IN /\ g # 0
     /\ \/ /\ page[t].renew.yes # Off
           /\ Does(t, Schedule(IF v.safe = NoSafe THEN v ELSE Store(v, [gen |-> g, age |-> 0]),
                               Watchdog))
        \/ Does(t, Clear(ApplyAuthority(Revoke(w), 0, TRUE)))
     /\ UNCHANGED serverVars

-----------------------------------------------------------------------------
(* Loading the page: what the server told about its jobs, at any time so far.  *)
Open(t) ==
  /\ ~page[t].open /\ ~page[t].gone
  /\ page' = [page EXCEPT ![t] = Loading]
  /\ UNCHANGED <<serverVars, storage, mail, refused>>

Close(t) ==
  /\ page[t].open
  /\ page' = [page EXCEPT ![t] = [Closed EXCEPT !.gone = TRUE]]
  /\ mail' = [mail EXCEPT ![t] = {}]
  /\ UNCHANGED <<serverVars, storage, refused>>

Restore(t) ==
  /\ page[t].loading /\ page[t].show = NoRequest
  /\ \E a \in 0..gen :
       LET w == [ApplyAuthority(World(t), a, TRUE) EXCEPT !.page.jobs =
                   IF a # 0 /\ job[a] \in {"queued", "running"} THEN {a} ELSE {}] IN
       \/ a # 0 /\ job[a] = "safe" /\ Does(t, [w EXCEPT !.page.show = Request(a)])
       \/ Does(t, [Revoke(w) EXCEPT !.page.loading = FALSE])
       \/ Does(t, [ApplyAuthority(Revoke(World(t)), 0, TRUE) EXCEPT !.page.loading = FALSE])
  /\ UNCHANGED serverVars

ExpiryFires(t) ==
  LET w == [World(t) EXCEPT !.page.expiry = Off] IN
  /\ page[t].expiry = 0
  /\ Does(t, IF safe = NoSafe THEN Clear(w) ELSE IF safe.age >= Lease THEN Revoke(w) ELSE w)
  /\ UNCHANGED serverVars

WatchFires(t) ==
  /\ page[t].watch = 0
  /\ Does(t, Verify([World(t) EXCEPT !.page.watch = Off]))
  /\ UNCHANGED serverVars

(* Focus, or the tab becomes visible.                                          *)
Resume(t) ==
  LET w == [World(t) EXCEPT !.page.visible = TRUE] IN
  /\ page[t].open
  /\ Does(t, IF safe # NoSafe /\ safe.age >= Lease THEN Revoke(w) ELSE Verify(w))
  /\ UNCHANGED serverVars

Hide(t) ==
  /\ page[t].visible
  /\ page' = [page EXCEPT ![t].visible = FALSE]
  /\ UNCHANGED <<serverVars, storage, mail, refused>>

(* The user dismisses the notice; or a list of the devices failed, or showed   *)
(* the device again.                                                           *)
Dismiss(t) ==
  /\ page[t].open /\ (safe # NoSafe \/ page[t].green # 0)
  /\ Does(t, Revoke(World(t)))
  /\ UNCHANGED serverVars

StorageEvent(t, e) ==
  /\ page' = [page EXCEPT ![t] =
       IF e.key = "authority" THEN ApplyAuthority(World(t), e.gen, FALSE).page
       ELSE IF Matches(page[t].auth, e) THEN @ ELSE Clear(World(t)).page]
  /\ LET w == ApplyAuthority(World(t), e.gen, FALSE) IN
     /\ safe' = IF e.key = "authority" THEN w.safe ELSE safe
     /\ mail' = [u \in Tabs |->
          IF u = t THEN mail[u] \ {e}
          ELSE IF e.key = "authority" /\ page[u].open THEN mail[u] \cup w.sent ELSE mail[u]]
  /\ UNCHANGED <<serverVars, published, refused>>

-----------------------------------------------------------------------------
Least(a, b) == IF a < b THEN a ELSE b
Down(n) == IF n > 0 THEN n - 1 ELSE n
Wait(r) == [r EXCEPT !.left = Down(@), !.yes = IF @ = Off THEN Off ELSE @ - 1]

(* A tab that keeps up has run what was due.                                  *)
Punctual(t) ==
  /\ mail[t] = {} /\ page[t].watch # 0 /\ page[t].expiry # 0
  /\ \A r \in {"renew", "show"} :
       page[t][r] # NoRequest => page[t][r].left # 0

(* The answer may be Late when it starts the lease; and a tab whose expiry ran  *)
(* while another tab had renewed the approval shows it until its own last      *)
(* request is given up.                                                       *)
MaxStale == Lease + Late + Timeout - 1

Shown(g) == \E t \in Tabs :
  page[t].green = g \/ \E r \in {"renew", "show"} : page[t][r].gen = g /\ page[t][r].yes # Off

Tick ==
  /\ \A t \in Tabs : page[t].visible => Punctual(t)
  /\ safe' = IF safe = NoSafe THEN safe ELSE [safe EXCEPT !.age = Least(@ + 1, Lease)]
  /\ page' = [t \in Tabs |->
       [page[t] EXCEPT !.watch = Down(@), !.expiry = Down(@),
                       !.renew = Wait(@), !.show = Wait(@)]]
  /\ refused' = [g \in Gens |->
       IF Granted(g) \/ ~Shown(g) THEN 0 ELSE Least(refused[g] + 1, MaxStale)]
  /\ UNCHANGED <<serverVars, published, mail>>

Server ==
  \/ DeviceComesOrGoes \/ LaunchElsewhere
  \/ \E g \in Gens : WorkerStarts(g) \/ WorkerEnds(g) \/ Expire(g)
  \/ \E t \in Tabs, r \in {"renew", "show"} : GrantLease(t, r)

Leaves(t) == Close(t) \/ Dismiss(t)

Handles(t) ==
  \/ Open(t) \/ Restore(t)
  \/ Launch(t) \/ LaunchAccepted(t) \/ LaunchRefused(t)
  \/ \E g \in Gens : Poll(t, g)
  \/ Headers(t, "renew") \/ Headers(t, "show") \/ ShowEnds(t) \/ RenewEnds(t)
  \/ ExpiryFires(t) \/ WatchFires(t)
  \/ Resume(t) \/ Hide(t)
  \/ \E e \in mail[t] : StorageEvent(t, e)

Next == Server \/ (\E t \in Tabs : Handles(t) \/ Leaves(t)) \/ Tick
Spec == Init /\ [][Next]_vars

(* The body of its own renewal is on its way, and another tab's renewal has    *)
(* made its expiry timer the last one: no timer of the tab runs.               *)
Stalled(t) == page[t].renew.gen # 0 /\ page[t].renew.left = Off /\ page[t].expiry = Off

(* What a user sees is not old (guardian.js:1036-1157, api_helpers.php:833): a  *)
(* visible tab whose due work is done shows an approval only while the server *)
(* would have confirmed it less than a lease, a timeout and the age of a late   *)
(* answer ago, whatever the other tabs of the browser did to the shared        *)
(* approval and however long they were hidden; but for a tab whose renewal has  *)
(* stalled in the body of its answer, which nothing gives up.                  *)
ApprovalIsRecent ==
  \A t \in Tabs :
    page[t].visible /\ Punctual(t) /\ page[t].green # 0 /\ ~Stalled(t)
      => refused[page[t].green] < MaxStale

(* And it is never shown for a job that is only running, has failed or was     *)
(* given up (guardian.js:933-959, api_helpers.php:783-793), however late an    *)
(* answer, a timer or a storage event comes.                                  *)
ShownIsCompleted ==
  \A t \in Tabs : page[t].green # 0 => page[t].green \in Gens /\ job[page[t].green] = "safe"
=============================================================================
