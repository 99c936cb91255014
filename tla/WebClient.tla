------------------------------- MODULE WebClient -------------------------------
(***************************************************************************)
(* What a browser shows while the calls it makes change the database: the  *)
(* two applications, their pages and acts (WebPages, AdminPages), over the *)
(* query cache (QueryCache) and the API, of which only the order of        *)
(* commits, reads and answers matters.                                     *)
(*                                                                         *)
(* One answer is watched, chosen in the initial state among those the acts *)
(* refresh.  Pages and acts that have nothing to do with it are one page   *)
(* "elsewhere".  The browser makes at most one call per member of Calls.   *)
(***************************************************************************)
EXTENDS Browsers, QueryCache, FiniteSets, Naturals

CONSTANTS Calls,      \* the calls the user makes
          First,      \* the only one made when the answer looked at is not in Busy
          Busy,       \* the answers that are looked at under all of Calls
          MaxSignIns  \* how often somebody signs in

ASSUME BoundAssumption == First \in Calls /\ Busy \subseteq Watchable /\ MaxSignIns \in Nat \ {0}

VARIABLES app,        \* which application the browser runs
          watched,    \* the key of the answer looked at
          opened,       \* the page open
          shown,      \* whether the page has asked for the answer
          entry,      \* the entry of the key in the query cache
          calls,      \* for each call, the mutation it belongs to
          excused,    \* calls the browser cannot know to have changed the answer
          account,    \* who signed in last: the n-th sign-in is account n
          signedIn,   \* whether the browser has a session
          dropped     \* whether a failed refresh has ended a session

vars == <<app, watched, opened, shown, entry, calls, excused, account, signedIn, dropped>>

-----------------------------------------------------------------------------
here == PagesOf[app][opened]
Acts == ActsOf[app]
Relevant == ActsOn[<<app, watched>>]

(* Queries that are not retried, and the one that onSuccess refetches       *)
(* itself, whether it is on display or not.                                 *)
NotRetried == {"banking-recon/one", "banking-recon/two"}
RefetchedAnyway == {"import-batch"}

NoCall ==
    [act |-> "none", closure |-> "none", stage |-> "idle", next |-> 0, waiting |-> FALSE,
     mounted |-> FALSE]

Pending(c) == calls[c].stage \in {"sent", "done", "callback"}

-----------------------------------------------------------------------------
Init ==
    \E w \in Watchable :
        /\ app = w[1] /\ watched = w[2]
        /\ opened = "elsewhere"
        /\ shown = (w[2] \in PagesOf[w[1]]["elsewhere"].now)
        /\ entry = IF shown THEN Mounted(NoEntry, 1) ELSE NoEntry
        /\ calls = [c \in Calls |-> NoCall]
        /\ excused = {} /\ account = 1 /\ signedIn = TRUE /\ dropped = FALSE

-----------------------------------------------------------------------------
(* Another page opens.  The components of another part are unmounted and    *)
(* mounted; within a part they stay, and a mutation that is not answered    *)
(* yet takes the options of the component's new render.                     *)
SamePart(p) == PagesOf[app][p].part = here.part

ShownOn(p) ==
    \/ watched \in PagesOf[app][p].now
    \/ SamePart(p) /\ shown /\ watched \in PagesOf[app][p].later

Rerendered(call, p) ==
    LET same == {n \in DOMAIN Acts : Acts[n].button = Acts[call.closure].button
                                     /\ OnPage(Acts[n], app, p)} IN
    IF call.stage \notin {"sent", "done"} \/ call.closure \in same \/ same = {} THEN call
    ELSE [call EXCEPT !.closure = CHOOSE n \in same : TRUE]

OnPageChange(call, p) ==
    IF ~call.mounted THEN call
    ELSE IF SamePart(p) THEN Rerendered(call, p) ELSE [call EXCEPT !.mounted = FALSE]

Open(p, e, ks) ==
    IF p = opened THEN UNCHANGED <<opened, shown>> /\ entry' = e /\ calls' = ks
    ELSE /\ opened' = p
         /\ shown' = ShownOn(p)
         /\ entry' = IF ShownOn(p) /\ ~(SamePart(p) /\ shown) THEN Mounted(e, account) ELSE e
         /\ calls' = [c \in Calls |-> OnPageChange(ks[c], p)]

Visit ==
    /\ signedIn
    /\ \E p \in PagesOn[<<app, watched>>] \ {opened, "login"} : Open(p, entry, calls)
    /\ UNCHANGED <<app, watched, excused, account, signedIn, dropped>>

(* What a query waits for has been chosen or loaded.                        *)
Enable ==
    /\ signedIn /\ ~shown /\ watched \in here.later
    /\ shown' = TRUE
    /\ entry' = Mounted(entry, account)
    /\ UNCHANGED <<app, watched, opened, calls, excused, account, signedIn, dropped>>

-----------------------------------------------------------------------------
(* The calls.  A button that needs the answer is there once it is loaded.   *)
Loaded == shown /\ entry.held

Greyed(button) ==
    \E d \in Calls : Pending(d) /\ calls[d].mounted /\ Acts[calls[d].closure].button = button

Offered(n) ==
    /\ OnPage(Acts[n], app, opened)
    /\ watched \in Acts[n].needs => Loaded
    /\ Acts[n].alone => ~Greyed(Acts[n].button)

Submit(c) ==
    /\ calls[c].stage = "idle" /\ signedIn
    /\ c = First \/ <<app, watched>> \in Busy
    /\ \E n \in Relevant :
          /\ Offered(n)
          /\ calls' = [calls EXCEPT ![c] = [act |-> n, closure |-> n, stage |-> "sent",
                                            next |-> 1, waiting |-> FALSE, mounted |-> TRUE]]
    /\ UNCHANGED <<app, watched, opened, shown, entry, excused, account, signedIn, dropped>>

(* The API commits, or refuses; an orphan has nobody to answer to.          *)
Commit(c) ==
    /\ calls[c].stage \in {"sent", "orphan"}
    /\ calls' = [calls EXCEPT ![c].stage = IF @ = "sent" THEN "done" ELSE "settled"]
    /\ entry' = IF Changes(app, calls[c].act, watched) THEN Overtaken(entry, c) ELSE entry
    /\ UNCHANGED <<app, watched, opened, shown, excused, account, signedIn, dropped>>

Refuse(c) ==
    /\ calls[c].stage = "sent"
    /\ calls' = [calls EXCEPT ![c].stage = "settled"]
    /\ UNCHANGED <<app, watched, opened, shown, entry, excused, account, signedIn, dropped>>

(* The connection breaks before the answer: to the page, the call failed.   *)
Lose(c) ==
    /\ calls[c].stage \in {"sent", "done"}
    /\ calls' = [calls EXCEPT ![c].stage = IF @ = "sent" THEN "orphan" ELSE "settled"]
    /\ excused' = excused \cup {c}
    /\ UNCHANGED <<app, watched, opened, shown, entry, account, signedIn, dropped>>

-----------------------------------------------------------------------------
(* The callbacks: what onSuccess of call c refreshes, one step at a time.   *)
(* A step that is awaited ends when the refetch it started or joined ends;  *)
(* a refetch that starts anew ends the waiting for the one it cancels.  An  *)
(* answer on its way that was read before the call is beyond the callback.  *)

(* Mutant of Steps: onSuccess forgets the last key.                         *)
StepsButLast(c) ==
    LET keys == Acts[calls[c].closure].refreshes IN SubSeq(keys, 1, Len(keys) - 1)

Steps(c) == Acts[calls[c].closure].refreshes

(* Mutant of Waits: onSuccess starts the refetches and awaits none.         *)
WaitsForNone(c) == FALSE

Waits(c) == Acts[calls[c].closure].waits

(* onSuccess navigates, wherever the user is by now; what it shows on its   *)
(* own page, the component shows if it is still there.                      *)
Goes(c) ==
    LET act == Acts[calls[c].closure] IN
    IF act.goes = "open" \/ (act.goes = act.page /\ ~calls[c].mounted) THEN opened
    ELSE act.goes

Refetches == shown \/ watched \in RefetchedAnyway

Refreshed(keys) ==
    IF watched \in keys THEN Invalidated(entry, Refetches, account) ELSE entry

StopsWaiting(keys) == watched \in keys /\ Refetches /\ Restarts(entry)

(* The callback of call c has still to refresh the answer.                  *)
Ahead(c) ==
    \E i \in DOMAIN Steps(c) :
        calls[c].stage \in {"done", "callback"} /\ i >= calls[c].next /\ watched \in Steps(c)[i]

Excuse(c, keys, e) ==
    excused' = IF watched \in keys /\ e.flight = "answered" /\ c \in e.brings
               THEN excused \cup {c} ELSE excused

Step(c) ==
    LET keys == Steps(c)[calls[c].next] IN
    /\ entry' = Refreshed(keys)
    /\ calls' = [d \in Calls |->
                    IF d = c
                    THEN [calls[c] EXCEPT !.stage = "callback", !.next = @ + 1,
                                          !.waiting = watched \in keys /\ Refetches]
                    ELSE [calls[d] EXCEPT !.waiting = @ /\ ~StopsWaiting(keys)]]
    /\ Excuse(c, keys, Refreshed(keys))
    /\ UNCHANGED <<opened, shown>>

(* Nothing is awaited: everything is refreshed and the next page opens.     *)
StepThrough(c) ==
    LET keys == RefreshesOf(Acts[calls[c].closure]) IN
    /\ Open(Goes(c), Refreshed(keys), [calls EXCEPT ![c].stage = "settled"])
    /\ Excuse(c, keys, Refreshed(keys))

Respond(c) ==
    /\ calls[c].stage = "done"
    /\ IF Waits(c) /\ Steps(c) # <<>> THEN Step(c) ELSE StepThrough(c)
    /\ UNCHANGED <<app, watched, account, signedIn, dropped>>

Callback(c) ==
    /\ calls[c].stage = "callback" /\ ~calls[c].waiting /\ calls[c].next <= Len(Steps(c))
    /\ Step(c)
    /\ UNCHANGED <<app, watched, account, signedIn, dropped>>

Settle(c) ==
    /\ calls[c].stage = "callback" /\ ~calls[c].waiting /\ calls[c].next > Len(Steps(c))
    /\ Open(Goes(c), entry, [calls EXCEPT ![c].stage = "settled"])
    /\ UNCHANGED <<app, watched, excused, account, signedIn, dropped>>

-----------------------------------------------------------------------------
(* The request for the answer, and time.                                    *)
StillWaiting == [c \in Calls |-> [calls[c] EXCEPT !.waiting = FALSE]]

Serve ==
    /\ entry.flight = "sent"
    /\ entry' = Answered(entry)
    /\ UNCHANGED <<app, watched, opened, shown, calls, excused, account, signedIn, dropped>>

(* Mutant of Arrive: who awaits the answer is not told.                     *)
ArriveUntold ==
    /\ entry.flight = "answered"
    /\ entry' = Arrived(entry)
    /\ UNCHANGED <<app, watched, opened, shown, calls, excused, account, signedIn, dropped>>

Arrive ==
    /\ entry.flight = "answered"
    /\ entry' = Arrived(entry)
    /\ calls' = StillWaiting
    /\ UNCHANGED <<app, watched, opened, shown, excused, account, signedIn, dropped>>

CanRetry == shown /\ ~entry.retried /\ watched \notin NotRetried

(* The request or its answer is lost: once it is sent again, then it fails, *)
(* and the data the page goes on showing are known to be behind.            *)
Resend ==
    /\ entry.flight # "none" /\ CanRetry
    /\ entry' = Retried(entry)
    /\ UNCHANGED <<app, watched, opened, shown, calls, excused, account, signedIn, dropped>>

Fail ==
    /\ entry.flight # "none" /\ ~CanRetry
    /\ entry' = Failed(entry)
    /\ calls' = StillWaiting
    /\ excused' = excused \cup {c \in entry.missing : ~Ahead(c)}
    /\ UNCHANGED <<app, watched, opened, shown, account, signedIn, dropped>>

(* staleTime passes; unobserved, the entry is collected after gcTime.       *)
Pass ==
    /\ entry.flight = "none" /\ entry.held
    /\ \/ ~entry.old /\ entry' = [entry EXCEPT !.old = TRUE]
       \/ ~shown /\ entry' = NoEntry
    /\ UNCHANGED <<app, watched, opened, shown, calls, excused, account, signedIn, dropped>>

(* The network comes back, or the interval of the import batch has passed.  *)
AskAgain ==
    /\ shown /\ entry.flight = "none"
    /\ Stale(entry) \/ watched \in RefetchedAnyway
    /\ entry' = Fetched(entry, account)
    /\ UNCHANGED <<app, watched, opened, shown, calls, excused, account, signedIn, dropped>>

(* The browser loads the application anew: the cache and the callbacks are  *)
(* gone, and calls under way have nobody to answer to.                      *)
Reload ==
    /\ signedIn
    /\ opened' = "elsewhere"
    /\ shown' = (watched \in PagesOf[app]["elsewhere"].now)
    /\ entry' = IF shown' THEN Mounted(NoEntry, account) ELSE NoEntry
    /\ calls' = [c \in Calls |->
                    CASE calls[c].stage = "idle" -> NoCall
                      [] calls[c].stage \in {"sent", "orphan"} ->
                            [calls[c] EXCEPT !.stage = "orphan", !.mounted = FALSE]
                      [] OTHER -> [calls[c] EXCEPT !.stage = "settled", !.waiting = FALSE,
                                                   !.mounted = FALSE]]
    /\ excused' = excused \cup {c \in Calls : calls[c].stage \notin {"idle", "settled"}}
    /\ UNCHANGED <<app, watched, account, signedIn, dropped>>

-----------------------------------------------------------------------------
(* The session, for the menu of the web application.  Signing out removes   *)
(* auth-me from the cache; a refresh that fails clears the session only.    *)
ToLogin ==
    /\ watched = "auth-me" /\ signedIn
    /\ signedIn' = FALSE /\ opened' = "login" /\ shown' = FALSE
    /\ UNCHANGED <<app, watched, calls, excused, account>>

(* Mutant of Logout: auth-me stays in the cache.                            *)
LogoutKeeps == ToLogin /\ UNCHANGED <<entry, dropped>>

Logout == ToLogin /\ entry' = NoEntry /\ UNCHANGED dropped

RefreshFails == ToLogin /\ dropped' = TRUE /\ UNCHANGED entry

SignIn ==
    /\ ~signedIn /\ account < MaxSignIns
    /\ signedIn' = TRUE /\ account' = account + 1
    /\ opened' = "elsewhere" /\ shown' = TRUE
    /\ entry' = Mounted(entry, account + 1)
    /\ UNCHANGED <<app, watched, calls, excused, dropped>>

-----------------------------------------------------------------------------
Next ==
    \/ Visit \/ Enable
    \/ \E c \in Calls : \/ Submit(c) \/ Commit(c) \/ Refuse(c) \/ Lose(c)
                        \/ Respond(c) \/ Callback(c) \/ Settle(c)
    \/ Serve \/ Arrive \/ Resend \/ Fail \/ Pass \/ AskAgain \/ Reload
    \/ Logout \/ RefreshFails \/ SignIn

Spec == Init /\ [][Next]_vars

-----------------------------------------------------------------------------
(* What no callback refreshes although the act changes it: the lists and    *)
(* reports that lag behind, for up to staleTime, what other pages did.      *)
SalesChanges == {"sales.addLine", "sales.removeLine", "sales.updateLine", "sales.release"}

PurchaseChanges ==
    {"purchases.addLine", "purchases.removeLine", "purchases.updateLine", "purchases.submit",
     "purchases.release", "purchases.receive"}

TenantChanges == {"tenant.update", "tenant.setStatus", "tenant.softDelete"}

Overlooked ==
    UNION {{"inventory-ledger", "inventory-balances"} \X {"produce.lot", "produce.loss"},
           {"produce-summary", "produce-lots", "produce-expiration-risk"}
               \X {"sales.release", "purchases.receive"},
           {"purchase-orders"} \X {"purchases.submit", "approvals.approve"},
           {"purchase-order"} \X {"approvals.approve"},
           {"approvals-inbox"} \X PurchaseChanges,
           {"banking-recon/one", "banking-recon/two"}
               \X (SalesChanges \cup PurchaseChanges \cup {"approvals.approve"}),
           {"fiscal-master-rows/employees"} \X {"fiscal.branches"},
           {"platform-tenants/list", "platform-tenants/one"} \X {"plan.change"},
           {"platform-tenants/one"} \X {"user.invite", "user.update", "user.assignTenant",
                                       "user.secure"},
           {"platform-users/list", "platform-users/one"} \X TenantChanges,
           {"platform-users/list"} \X {"user.secure"}}

(* What the proofs ask of the tables, none of which depends on the calls    *)
(* made: the pages an act or a visit opens are pages of the application...  *)
PagesAreThere ==
    \A w \in Watchable :
        LET pages == DOMAIN PagesOf[w[1]]
            all == ActsOf[w[1]]
        IN  /\ w[1] \in Apps
            /\ {"login", "elsewhere"} \cup PagesOn[w] \subseteq pages
            /\ ActsOn[w] \subseteq DOMAIN all
            /\ \A n \in ActsOn[w], m \in DOMAIN all :
                   all[m].button = all[n].button => all[m].goes \in pages \cup {"open"}

(* ...a callback has four steps at most, each awaited in the web client...  *)
CallbacksAreShort ==
    \A a \in Apps : \A n \in DOMAIN ActsOf[a] :
        LET act == ActsOf[a][n]
        IN  /\ act.refreshes \in Seq(SUBSET DOMAIN SourcesOf[a])
            /\ Len(act.refreshes) <= 4
            /\ a = "web" => act.waits

(* ...it refreshes what the call writes, or the act is listed above...      *)
ChangesAreRefreshed ==
    \A w \in Watchable : \A n \in ActsOn[w] :
        Changes(w[1], n, w[2]) =>
            w[2] \in RefreshesOf(ActsOf[w[1]][n]) \/ <<w[2], n>> \in Overlooked

(* ...no act touches the menu...                                            *)
MenuIsLeftAlone ==
    \A w \in Watchable : w[2] = "auth-me" => w[1] = "web" /\ ActsOn[w] = {}

(* ...and where a button needs an answer, all pages of the part where it is *)
(* changed show it.                                                         *)
NeededIsShown ==
    \A w \in Watchable : \A n \in ActsOn[w], m \in ActsOn[w] :
        /\ w[1] = "web" /\ Changes("web", n, w[2]) /\ <<w[2], n>> \notin Overlooked
        /\ w[2] \in ActsOf["web"][m].needs \ RefetchedAnyway
        => \A p, q \in DOMAIN PagesOf["web"] :
               OnPage(ActsOf["web"][n], "web", p)
               /\ PagesOf["web"][q].part = PagesOf["web"][p].part
               => w[2] \in PagesOf["web"][q].now

ASSUME TablesAssumption ==
    PagesAreThere /\ CallbacksAreShort /\ ChangesAreRefreshed /\ MenuIsLeftAlone /\ NeededIsShown

(* A call whose effect the browser lets its user miss: nobody refreshes the *)
(* answer, the call seemed to fail, its callback was taken over by another  *)
(* section, or the refetch failed and the page says so.                     *)
Missable(c) ==
    \/ <<watched, calls[c].act>> \in Overlooked
    \/ c \in excused
    \/ calls[c].closure # calls[c].act

-----------------------------------------------------------------------------
(* Types, and what ties the mutations to the query: a callback that waits   *)
(* waits for a request that is under way, and an answer that lacks a call   *)
(* lacks one that has committed.                                            *)
CallRecords ==
    [act : DOMAIN Acts \cup {"none"}, closure : DOMAIN Acts \cup {"none"},
     stage : {"idle", "sent", "done", "callback", "settled", "orphan"}, next : 0..5,
     waiting : BOOLEAN, mounted : BOOLEAN]

TypeOK ==
    /\ <<app, watched>> \in Watchable /\ opened \in DOMAIN PagesOf[app] /\ shown \in BOOLEAN
    /\ entry \in Entries(Calls, 0..MaxSignIns)
    /\ calls \in [Calls -> CallRecords] /\ excused \subseteq Calls
    /\ account \in 1..MaxSignIns /\ signedIn \in BOOLEAN /\ dropped \in BOOLEAN
    /\ \A c \in Calls : calls[c].waiting => calls[c].stage = "callback" /\ entry.flight # "none"
    /\ \A c \in entry.missing \cup entry.brings : calls[c].stage \notin {"idle", "sent", "orphan"}

(* What a page shows is never behind a call the browser itself made, unless *)
(* a newer answer is on its way or a callback of the call has still to ask  *)
(* for one: no page forgets, in any order of commits, reads, answers and    *)
(* page changes, one of the keys its act changes (the invalidateQueries of  *)
(* every onSuccess of both applications).                                   *)
Coming(c) ==
    \/ entry.flight = "sent"
    \/ entry.flight = "answered" /\ c \notin entry.brings
    \/ Ahead(c)

ShownNotBehind ==
    Loaded => \A c \in entry.missing : Coming(c) \/ Missable(c)

(* Nobody presses a button on the strength of an answer that lacks what he  *)
(* did on the same page before: while no call is under way, the answer a    *)
(* button needs shows every act of the page (the "await" of every onSuccess *)
(* of apps/web, which keeps its button greyed until the order is read       *)
(* again; apps/admin awaits nothing and promises less).                     *)
ActedOnSight ==
    [][\A c \in Calls :
          /\ app = "web" /\ calls[c].stage = "idle" /\ calls'[c].stage = "sent"
          /\ watched \in Acts[calls'[c].act].needs
          /\ \A d \in Calls : ~Pending(d)
          => \A d \in entry.missing : ~calls[d].mounted \/ Missable(d)]_vars

(* The menu is that of the account signed in, whatever auth-me request was  *)
(* under way when the last one left (handleLogout of the shell); unless a   *)
(* session ended because its refresh failed, which leaves auth-me cached.   *)
MenuOfAccount ==
    watched = "auth-me" /\ Loaded => entry.owner = account \/ dropped
=============================================================================
