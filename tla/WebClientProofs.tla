--------------------------- MODULE WebClientProofs ---------------------------
(***************************************************************************)
(* Proofs about WebClient, for any set of calls, any answers watched under *)
(* all of them and any number of sign-ins, given what TablesAssumption     *)
(* says of the pages: types, that a page is never behind a call of its own *)
(* browser, that nobody acts on an answer without seeing what he did, and  *)
(* that the menu is that of the account signed in.                         *)
(***************************************************************************)
EXTENDS WebClient, TLAPS

-----------------------------------------------------------------------------
(* The inductive invariants.                                                *)

(* What the stage of a call says of the rest of it.                         *)
CallsFit ==
    \A c \in Calls :
        /\ calls[c].stage = "idle" => ~calls[c].mounted
        /\ calls[c].stage # "idle" =>
               /\ calls[c].act \in Relevant /\ calls[c].closure \in DOMAIN Acts
               /\ Acts[calls[c].closure].button = Acts[calls[c].act].button
        /\ calls[c].stage \in {"sent", "done", "orphan"} => calls[c].next = 1
        /\ calls[c].stage = "callback" => calls[c].next \in 1 .. Len(Steps(c)) + 1
        /\ calls[c].stage = "orphan" => c \in excused

(* Only calls that change the answer are ever missing from it.              *)
MissingChanged ==
    \A c \in entry.missing \cup entry.brings : Changes(app, calls[c].act, watched)

(* A session ends in the model only while the menu is looked at.            *)
EndsAtMenu == signedIn \/ watched = "auth-me"

Typing == TypeOK /\ CallsFit /\ MissingChanged /\ EndsAtMenu

(* A callback will refresh the answer, or the user may miss the call.       *)
Sure(c) == Ahead(c) \/ Missable(c)

(* ShownNotBehind while the answer is not on display either: then it may be *)
(* marked, and is asked for when it is shown again.  And an answer on its   *)
(* way lacks only what is sure.                                             *)
Covered ==
    /\ entry.held =>
           \A c \in entry.missing : Coming(c) \/ Missable(c) \/ (~shown /\ entry.invalid)
    /\ entry.flight = "answered" => \A c \in entry.brings : Sure(c)

(* The answers of a page are asked for, and a component that is mounted is  *)
(* one of the part that is open.                                            *)
InPart(k, q) ==
    k.mounted => \E p \in DOMAIN PagesOf[app] :
                     /\ OnPage(Acts[k.act], app, p)
                     /\ PagesOf[app][q].part = PagesOf[app][p].part

Placed ==
    /\ signedIn /\ watched \in here.now => shown
    /\ \A c \in Calls : InPart(calls[c], opened)

(* In the web client, a call of the page whose callback has gone past the   *)
(* answer and waits no more is seen, or somebody waits for a newer one.     *)
Needed == app = "web" /\ \E m \in Relevant : watched \in Acts[m].needs

Unseen(c) == calls[c].mounted /\ calls[c].stage # "done" /\ ~calls[c].waiting /\ ~Sure(c)

Sighted ==
    Needed => \A c \in entry.missing : Unseen(c) => \E d \in Calls : calls[d].waiting

(* Until a refresh fails, what is held of the menu and what is on its way   *)
(* are the account's, and nothing is left of it once that has signed out.   *)
Owned(e, who) == (e.held => e.owner = who) /\ (e.flight # "none" => e.sender = who)

MenuKept ==
    watched = "auth-me" /\ ~dropped =>
        Owned(entry, account) /\ (~signedIn => entry = NoEntry /\ ~shown)

-----------------------------------------------------------------------------
(* The query cache.                                                         *)
Records == Entries(Calls, 0 .. MaxSignIns)

(* A request for e is sent anew.                                            *)
Asked(e, f, who) ==
    /\ f \in Records /\ f.flight = "sent" /\ f.brings = {} /\ f.sender = who
    /\ f.held = e.held /\ f.missing = e.missing /\ f.owner = e.owner

(* Nothing but the marks changes.                                           *)
Marked(e, f) ==
    /\ f \in Records /\ f.flight = e.flight /\ f.brings = e.brings /\ f.sender = e.sender
    /\ f.held = e.held /\ f.missing = e.missing /\ f.owner = e.owner

LEMMA NoEntryFits ==
    /\ NoEntry \in Records /\ ~NoEntry.held /\ NoEntry.flight = "none"
    /\ NoEntry.missing = {} /\ NoEntry.brings = {}
  BY BoundAssumption DEF NoEntry, Records, Entries

LEMMA SendAsks ==
    ASSUME NEW e \in Records, NEW who \in 0 .. MaxSignIns
    PROVE  Asked(e, Send(e, who), who) /\ Send(e, who).invalid = e.invalid
  BY DEF Records, Entries, Send, Asked

LEMMA FetchedAsks ==
    ASSUME NEW e \in Records, NEW who \in 0 .. MaxSignIns
    PROVE  IF e.flight = "none" THEN Asked(e, Fetched(e, who), who) ELSE Fetched(e, who) = e
  BY SendAsks DEF Fetched

LEMMA MountedAsks ==
    ASSUME NEW e \in Records, NEW who \in 0 .. MaxSignIns
    PROVE  IF Stale(e) /\ e.flight = "none" THEN Asked(e, Mounted(e, who), who)
           ELSE Mounted(e, who) = e
  BY FetchedAsks DEF Mounted, Fetched

LEMMA InvalidatedAsks ==
    ASSUME NEW e \in Records, NEW refetch \in BOOLEAN, NEW who \in 0 .. MaxSignIns
    PROVE  LET f == Invalidated(e, refetch, who)
           IN  /\ f.invalid = e.held
               /\ IF refetch /\ Restarts(e) THEN Asked(e, f, who) ELSE Marked(e, f)
  <1> DEFINE m == [e EXCEPT !.invalid = e.held]
  <1>1. /\ Marked(e, m) /\ m.invalid = e.held
    BY DEF Records, Entries, Marked
  <1>2. Restarts(m) <=> Restarts(e)
    BY <1>1 DEF Marked, Restarts
  <1>3. m \in Records
    BY <1>1 DEF Marked
  <1>4. Asked(m, Send(m, who), who) /\ Send(m, who).invalid = m.invalid
    BY <1>3, SendAsks
  <1>5. Invalidated(e, refetch, who) = IF refetch /\ Restarts(m) THEN Send(m, who) ELSE m
    BY DEF Invalidated, Refetched
  <1> HIDE DEF m
  <1>6. Asked(m, Send(m, who), who) => Asked(e, Send(m, who), who)
    BY <1>1 DEF Marked, Asked
  <1> QED
    BY <1>1, <1>2, <1>4, <1>5, <1>6

LEMMA AnsweredFits ==
    ASSUME NEW e \in Records
    PROVE  LET f == Answered(e)
           IN  /\ f \in Records /\ f.flight = "answered" /\ f.brings = {} /\ f.sender = e.sender
               /\ f.held = e.held /\ f.missing = e.missing /\ f.owner = e.owner
               /\ f.invalid = e.invalid
  BY DEF Records, Entries, Answered

LEMMA ArrivedFits ==
    ASSUME NEW e \in Records
    PROVE  LET f == Arrived(e)
           IN  /\ f \in Records /\ f.flight = "none" /\ f.brings = {}
               /\ f.held /\ f.missing = e.brings /\ f.owner = e.sender
  <1>1. e.brings \in SUBSET Calls /\ e.sender \in 0 .. MaxSignIns
    BY DEF Records, Entries
  <1> DEFINE g == [NoEntry EXCEPT !.held = TRUE]
  <1>2. g \in Records /\ g.held /\ g.flight = "none" /\ g.brings = {}
    BY NoEntryFits DEF Records, Entries
  <1>3. Arrived(e) = [g EXCEPT !.missing = e.brings, !.owner = e.sender]
    BY NoEntryFits DEF Arrived, Records, Entries
  <1> HIDE DEF g
  <1> QED
    BY <1>1, <1>2, <1>3 DEF Records, Entries

LEMMA RetriedAsks ==
    ASSUME NEW e \in Records
    PROVE  Asked(e, Retried(e), e.sender)
  BY DEF Records, Entries, Retried, Asked

LEMMA FailedFits ==
    ASSUME NEW e \in Records
    PROVE  LET f == Failed(e)
           IN  /\ f \in Records /\ f.flight = "none" /\ f.brings = {}
               /\ f.held = e.held /\ f.missing = e.missing /\ f.owner = e.owner
  <1> DEFINE g == [e EXCEPT !.flight = "none", !.brings = {}]
  <1>1. /\ g \in Records /\ g.flight = "none" /\ g.brings = {}
        /\ g.held = e.held /\ g.missing = e.missing /\ g.owner = e.owner
    BY DEF Records, Entries
  <1>2. Failed(e) = [g EXCEPT !.sender = 0, !.retried = FALSE, !.invalid = e.held]
    BY DEF Failed, Records, Entries
  <1>3. e.held \in BOOLEAN /\ 0 \in 0 .. MaxSignIns
    BY BoundAssumption DEF Records, Entries
  <1> HIDE DEF g
  <1> QED
    BY <1>1, <1>2, <1>3 DEF Records, Entries

LEMMA OvertakenFits ==
    ASSUME NEW e \in Records, NEW c \in Calls
    PROVE  LET f == Overtaken(e, c)
           IN  /\ f \in Records /\ f.flight = e.flight /\ f.sender = e.sender
               /\ f.held = e.held /\ f.owner = e.owner /\ f.invalid = e.invalid
               /\ f.missing = IF e.held THEN e.missing \cup {c} ELSE e.missing
               /\ f.brings = IF e.flight = "answered" THEN e.brings \cup {c} ELSE e.brings
  <1> DEFINE m == IF e.held THEN e.missing \cup {c} ELSE e.missing
             b == IF e.flight = "answered" THEN e.brings \cup {c} ELSE e.brings
  <1>1. m \in SUBSET Calls /\ b \in SUBSET Calls
    BY DEF Records, Entries
  <1>2. Overtaken(e, c) = [e EXCEPT !.missing = m, !.brings = b]
    BY DEF Overtaken, Records, Entries
  <1> HIDE DEF m, b
  <1>3. LET f == [e EXCEPT !.missing = m, !.brings = b]
        IN  /\ f \in Records /\ f.flight = e.flight /\ f.sender = e.sender
            /\ f.held = e.held /\ f.owner = e.owner /\ f.invalid = e.invalid
            /\ f.missing = m /\ f.brings = b
    BY <1>1 DEF Records, Entries
  <1> QED
    BY <1>2, <1>3 DEF m, b

-----------------------------------------------------------------------------
(* The tables, for the answer looked at.                                    *)
Steady == UNCHANGED <<app, watched>>

LEMMA TableFacts ==
    ASSUME <<app, watched>> \in Watchable
    PROVE  /\ app \in Apps
           /\ {"login", "elsewhere"} \cup PagesOn[<<app, watched>>] \subseteq DOMAIN PagesOf[app]
           /\ Relevant \subseteq DOMAIN Acts
           /\ \A n \in Relevant, m \in DOMAIN Acts :
                  Acts[m].button = Acts[n].button =>
                      Acts[m].goes \in DOMAIN PagesOf[app] \cup {"open"}
           /\ watched = "auth-me" => app = "web" /\ Relevant = {}
  <1> DEFINE w == <<app, watched>>
  <1>1. w[1] = app /\ w[2] = watched
    OBVIOUS
  <1>2. PagesAreThere /\ MenuIsLeftAlone
    BY TablesAssumption
  <1> QED
    BY <1>1, <1>2 DEF PagesAreThere, MenuIsLeftAlone, Relevant, Acts

LEMMA CallbackFacts ==
    ASSUME app \in Apps, NEW n \in DOMAIN Acts
    PROVE  /\ DOMAIN Acts[n].refreshes = 1 .. Len(Acts[n].refreshes)
           /\ Len(Acts[n].refreshes) \in 0 .. 4
           /\ app = "web" => Acts[n].waits
  <1>1. /\ Acts[n].refreshes \in Seq(SUBSET DOMAIN SourcesOf[app])
        /\ Len(Acts[n].refreshes) <= 4
        /\ app = "web" => Acts[n].waits
    BY TablesAssumption DEF CallbacksAreShort, Acts
  <1>2. \A S : \A s \in Seq(S) : DOMAIN s = 1 .. Len(s) /\ Len(s) \in Nat
    OBVIOUS
  <1>3. DOMAIN Acts[n].refreshes = 1 .. Len(Acts[n].refreshes) /\ Len(Acts[n].refreshes) \in Nat
    BY <1>1, <1>2, Zenon
  <1> DEFINE k == Len(Acts[n].refreshes)
  <1>4. k \in Nat /\ k <= 4
    BY <1>1, <1>3
  <1> HIDE DEF k
  <1>5. k \in 0 .. 4
    BY <1>4
  <1> QED
    BY <1>1, <1>3, <1>5 DEF k

LEMMA ChangeFacts ==
    ASSUME <<app, watched>> \in Watchable, NEW n \in Relevant, Changes(app, n, watched)
    PROVE  watched \in RefreshesOf(Acts[n]) \/ <<watched, n>> \in Overlooked
  <1> DEFINE w == <<app, watched>>
  <1>1. w[1] = app /\ w[2] = watched
    OBVIOUS
  <1> QED
    BY <1>1, TablesAssumption DEF ChangesAreRefreshed, Relevant, Acts

LEMMA NeedFacts ==
    ASSUME <<app, watched>> \in Watchable, Needed, watched \notin RefetchedAnyway,
           NEW n \in Relevant, Changes(app, n, watched), <<watched, n>> \notin Overlooked,
           NEW p \in DOMAIN PagesOf[app], OnPage(Acts[n], app, p),
           NEW q \in DOMAIN PagesOf[app], PagesOf[app][q].part = PagesOf[app][p].part
    PROVE  watched \in PagesOf[app][q].now
  <1> DEFINE w == <<app, watched>>
  <1>1. w \in Watchable /\ w[1] = app /\ w[2] = watched /\ app = "web"
    BY DEF Needed
  <1>2. PICK m \in Relevant : watched \in Acts[m].needs
    BY DEF Needed
  <1>3. Relevant = ActsOn[w] /\ Acts = ActsOf["web"]
    BY <1>1 DEF Relevant, Acts
  <1>4. NeededIsShown
    BY TablesAssumption
  <1> HIDE DEF w
  <1>5. \A x, y \in DOMAIN PagesOf["web"] :
            OnPage(ActsOf["web"][n], "web", x)
            /\ PagesOf["web"][y].part = PagesOf["web"][x].part
            => watched \in PagesOf["web"][y].now
    BY <1>1, <1>2, <1>3, <1>4 DEF NeededIsShown
  <1> QED
    BY <1>1, <1>3, <1>5

-----------------------------------------------------------------------------
(* What Typing says of a call c whose record is k, when the answer is e and *)
(* the calls in x are excused.                                              *)
StepsOf(k) == Acts[k.closure].refreshes

Fits(c, k, e, x) ==
    /\ k \in CallRecords
    /\ k.stage = "idle" => ~k.mounted
    /\ k.stage # "idle" =>
           /\ k.act \in Relevant /\ k.closure \in DOMAIN Acts
           /\ Acts[k.closure].button = Acts[k.act].button
    /\ k.stage \in {"sent", "done", "orphan"} => k.next = 1
    /\ k.stage = "callback" => k.next \in 1 .. Len(StepsOf(k)) + 1
    /\ k.stage = "orphan" => c \in x
    /\ k.waiting => k.stage = "callback" /\ e.flight # "none"
    /\ c \in e.missing \cup e.brings =>
           k.stage \notin {"idle", "sent", "orphan"} /\ Changes(app, k.act, watched)

CallsAll == DOMAIN calls = Calls /\ calls = [c \in Calls |-> calls[c]]

RestFits ==
    /\ <<app, watched>> \in Watchable /\ opened \in DOMAIN PagesOf[app] /\ shown \in BOOLEAN
    /\ entry \in Records /\ excused \subseteq Calls
    /\ account \in 1 .. MaxSignIns /\ signedIn \in BOOLEAN /\ dropped \in BOOLEAN
    /\ CallsAll /\ EndsAtMenu

AllFit == \A c \in Calls : Fits(c, calls[c], entry, excused)

LEMMA TypingIs == Typing <=> RestFits /\ AllFit
  <1> USE DEF AllFit
  <1>1. Typing => RestFits /\ AllFit
    BY DEF Typing, TypeOK, CallsFit, MissingChanged, RestFits, CallsAll, Fits, Records, Steps,
           StepsOf
  <1>2. ASSUME RestFits, AllFit
        PROVE  Typing
    <2>1. entry.missing \subseteq Calls /\ entry.brings \subseteq Calls
      BY <1>2 DEF RestFits, Records, Entries
    <2>2. calls \in [Calls -> CallRecords]
      BY <1>2 DEF RestFits, CallsAll, Fits
    <2>3. TypeOK
      BY <1>2, <2>1, <2>2 DEF TypeOK, RestFits, Fits, Records
    <2>4. CallsFit /\ MissingChanged
      BY <1>2, <2>1 DEF CallsFit, MissingChanged, Fits, Steps, StepsOf
    <2> QED
      BY <1>2, <2>3, <2>4 DEF Typing, RestFits
  <1> QED
    BY <1>1, <1>2

LEMMA SteadyTables ==
    ASSUME Steady
    PROVE  /\ Relevant' = Relevant /\ Acts' = Acts /\ CallRecords' = CallRecords
           /\ (\A n : (Changes(app, n, watched)' <=> Changes(app, n, watched)))
  BY DEF Steady, Relevant, Acts, CallRecords, Changes

LEMMA TypingNext ==
    ASSUME Typing, Steady,
           opened' \in DOMAIN PagesOf[app], shown' \in BOOLEAN, entry' \in Records,
           excused' \subseteq Calls, account' \in 1 .. MaxSignIns, signedIn' \in BOOLEAN,
           dropped' \in BOOLEAN, CallsAll', signedIn' \/ watched = "auth-me",
           \A c \in Calls : Fits(c, calls'[c], entry', excused')
    PROVE  Typing'
  <1>1. RestFits'
    BY TypingIs DEF RestFits, Steady, EndsAtMenu
  <1>2. AllFit'
    BY SteadyTables DEF AllFit, Fits, Steady, StepsOf, Changes
  <1> QED
    BY <1>1, <1>2, TypingIs, PTL

LEMMA FitsNext ==
    ASSUME Typing', Steady
    PROVE  RestFits' /\ \A c \in Calls : Fits(c, calls'[c], entry', excused')
  <1>1. RestFits' /\ AllFit'
    BY TypingIs, PTL
  <1> QED
    BY <1>1, SteadyTables DEF AllFit, Fits, Steady, StepsOf, Changes

(* A call l is what k was, rendered anew at most.                           *)
Redrawn(k, l) ==
    /\ l \in CallRecords
    /\ l.act = k.act /\ l.stage = k.stage /\ l.next = k.next
    /\ l.waiting => k.waiting
    /\ l.mounted => k.mounted
    /\ \/ l.closure = k.closure
       \/ /\ k.stage \in {"sent", "done"} /\ l.closure \in DOMAIN Acts
          /\ Acts[l.closure].button = Acts[k.closure].button

LEMMA SameRedrawn ==
    ASSUME NEW k \in CallRecords
    PROVE  Redrawn(k, k)
  BY DEF Redrawn

(* What the answer lacks is what it lacked, or less.                        *)
Eased(e, f) ==
    /\ f \in Records
    /\ f.missing \cup f.brings \subseteq e.missing \cup e.brings

LEMMA RedrawnFits ==
    ASSUME NEW c, NEW k, NEW l, NEW e, NEW f, NEW x, NEW y,
           Fits(c, k, e, x), Redrawn(k, l), Eased(e, f), x \subseteq y,
           l.waiting => f.flight # "none"
    PROVE  Fits(c, l, f, y)
  <1>1. k.stage = "callback" => StepsOf(l) = StepsOf(k)
    BY DEF Redrawn, StepsOf
  <1>2. l.stage # "idle" =>
            /\ l.act \in Relevant /\ l.closure \in DOMAIN Acts
            /\ Acts[l.closure].button = Acts[l.act].button
    BY DEF Fits, Redrawn
  <1>3. c \in f.missing \cup f.brings =>
            l.stage \notin {"idle", "sent", "orphan"} /\ Changes(app, l.act, watched)
    BY DEF Fits, Redrawn, Eased
  <1>4. /\ l \in CallRecords
        /\ l.stage = "idle" => ~l.mounted
        /\ l.stage \in {"sent", "done", "orphan"} => l.next = 1
        /\ l.stage = "orphan" => c \in y
        /\ l.waiting => l.stage = "callback" /\ f.flight # "none"
    BY DEF Fits, Redrawn
  <1>5. l.stage = "callback" => l.next \in 1 .. Len(StepsOf(l)) + 1
    BY <1>1 DEF Fits, Redrawn
  <1> QED
    BY <1>2, <1>3, <1>4, <1>5 DEF Fits

LEMMA RerenderedRedraws ==
    ASSUME NEW k \in CallRecords, NEW p
    PROVE  Redrawn(k, Rerendered(k, p)) /\ Rerendered(k, p).waiting = k.waiting
  <1> DEFINE same == {n \in DOMAIN Acts : Acts[n].button = Acts[k.closure].button
                                          /\ OnPage(Acts[n], app, p)}
             n == CHOOSE m \in same : TRUE
             l == [k EXCEPT !.closure = n]
  <1>1. Rerendered(k, p) = IF k.stage \notin {"sent", "done"} \/ k.closure \in same \/ same = {}
                           THEN k ELSE l
    BY DEF Rerendered
  <1>2. CASE k.stage \notin {"sent", "done"} \/ k.closure \in same \/ same = {}
    BY <1>1, <1>2, SameRedrawn
  <1>3. CASE k.stage \in {"sent", "done"} /\ same # {}
    <2>1. n \in same
      BY <1>3
    <2>2. n \in DOMAIN Acts /\ Acts[n].button = Acts[k.closure].button
      BY <2>1
    <2> HIDE DEF n, same
    <2>3. Redrawn(k, l) /\ l.waiting = k.waiting
      BY <1>3, <2>2 DEF Redrawn, CallRecords
    <2> QED
      BY <1>1, <2>3, SameRedrawn
  <1> QED
    BY <1>2, <1>3

LEMMA PageChangeRedraws ==
    ASSUME NEW k \in CallRecords, NEW p
    PROVE  /\ Redrawn(k, OnPageChange(k, p)) /\ OnPageChange(k, p).waiting = k.waiting
           /\ OnPageChange(k, p).mounted => SamePart(p)
  <1> DEFINE l == [k EXCEPT !.mounted = FALSE]
  <1>1. OnPageChange(k, p) = IF ~k.mounted THEN k ELSE IF SamePart(p) THEN Rerendered(k, p) ELSE l
    BY DEF OnPageChange
  <1>2. Redrawn(k, l) /\ ~l.mounted /\ l.waiting = k.waiting
    BY DEF Redrawn, CallRecords
  <1> HIDE DEF l
  <1> QED
    BY <1>1, <1>2, SameRedrawn, RerenderedRedraws

(* A page opens, perhaps the one that is open.                              *)
LEMMA OpenDoes ==
    ASSUME RestFits, NEW p \in DOMAIN PagesOf[app], NEW e \in Records,
           NEW ks \in [Calls -> CallRecords], Open(p, e, ks)
    PROVE  /\ opened' \in DOMAIN PagesOf[app] /\ shown' \in BOOLEAN /\ CallsAll'
           /\ entry' = e \/ entry' = Mounted(e, account)
           /\ ~shown /\ shown' => entry' = Mounted(e, account)
           /\ \A c \in Calls : /\ Redrawn(ks[c], calls'[c]) /\ calls'[c].waiting = ks[c].waiting
                               /\ calls'[c].mounted => PagesOf[app][opened'].part = here.part
           /\ \/ opened' = opened /\ shown' = shown
              \/ watched \in PagesOf[app][opened'].now => shown'
  <1>1. CASE p = opened
    BY <1>1, SameRedrawn DEF Open, RestFits, CallsAll, here
  <1>2. CASE p # opened
    <2>1. /\ opened' = p /\ shown' = ShownOn(p)
          /\ entry' = IF ShownOn(p) /\ ~(SamePart(p) /\ shown) THEN Mounted(e, account) ELSE e
          /\ calls' = [c \in Calls |-> OnPageChange(ks[c], p)]
      BY <1>2 DEF Open
    <2>2. ShownOn(p) \in BOOLEAN /\ (watched \in PagesOf[app][p].now => ShownOn(p))
      BY DEF ShownOn
    <2>3. \A c \in Calls : /\ Redrawn(ks[c], calls'[c]) /\ calls'[c].waiting = ks[c].waiting
                           /\ calls'[c].mounted => PagesOf[app][p].part = here.part
      BY <2>1, PageChangeRedraws DEF SamePart
    <2>4. CallsAll'
      BY <2>1 DEF CallsAll
    <2> QED
      BY <2>1, <2>2, <2>3, <2>4
  <1> QED
    BY <1>1, <1>2

-----------------------------------------------------------------------------
(* Types.  First the steps that change no call of their own.                *)
Waited == \A c \in Calls : calls'[c].waiting => entry'.flight # "none"

LEMMA AllRedrawn ==
    ASSUME Typing, Steady, Eased(entry, entry'), Waited, excused \subseteq excused',
           \A c \in Calls : Redrawn(calls[c], calls'[c])
    PROVE  \A c \in Calls : Fits(c, calls'[c], entry', excused')
  BY TypingIs, RedrawnFits DEF AllFit, Waited

LEMMA FlightHeld ==
    ASSUME Typing, entry.flight # "none" => entry'.flight # "none",
           \A c \in Calls : calls'[c].waiting => calls[c].waiting
    PROVE  Waited
  BY TypingIs DEF Waited, AllFit, Fits

LEMMA MountedEases ==
    ASSUME NEW e \in Records, NEW who \in 0 .. MaxSignIns
    PROVE  /\ Eased(e, Mounted(e, who))
           /\ e.flight # "none" => Mounted(e, who).flight # "none"
  BY MountedAsks DEF Eased, Asked

LEMMA AccountFits == ASSUME RestFits PROVE account \in 0 .. MaxSignIns
  BY BoundAssumption DEF RestFits

LEMMA VisitTyped == ASSUME Typing, Visit PROVE Typing'
  <1>1. RestFits /\ AllFit
    BY TypingIs
  <1>2. PICK p \in PagesOn[<<app, watched>>] : Open(p, entry, calls)
    BY DEF Visit
  <1>3. p \in DOMAIN PagesOf[app]
    BY <1>1, TableFacts DEF RestFits
  <1>4. entry \in Records /\ calls \in [Calls -> CallRecords]
    BY <1>1 DEF RestFits, AllFit, Fits, CallsAll
  <1>5. /\ opened' \in DOMAIN PagesOf[app] /\ shown' \in BOOLEAN /\ CallsAll'
        /\ entry' = entry \/ entry' = Mounted(entry, account)
        /\ \A c \in Calls : Redrawn(calls[c], calls'[c])
    BY <1>1, <1>2, <1>3, <1>4, OpenDoes
  <1>6. Eased(entry, entry') /\ (entry.flight # "none" => entry'.flight # "none")
    BY <1>1, <1>4, <1>5, MountedEases, AccountFits DEF Eased
  <1>7. Steady /\ UNCHANGED <<excused, account, signedIn, dropped>>
    BY DEF Visit, Steady
  <1>8. \A c \in Calls : Fits(c, calls'[c], entry', excused')
    <2>1. Waited
      BY <1>5, <1>6, FlightHeld DEF Redrawn
    <2> QED
      BY <1>5, <1>6, <1>7, <2>1, AllRedrawn
  <1> QED
    BY <1>1, <1>5, <1>6, <1>7, <1>8, TypingNext DEF RestFits, Eased, EndsAtMenu

LEMMA KeptTyped ==
    ASSUME Typing, Steady, UNCHANGED calls, shown' \in BOOLEAN, Eased(entry, entry'),
           entry.flight # "none" => entry'.flight # "none",
           UNCHANGED <<opened, excused, account, signedIn, dropped>>
    PROVE  Typing'
  <1>1. RestFits /\ AllFit
    BY TypingIs
  <1>2. \A c \in Calls : Redrawn(calls[c], calls'[c])
    BY <1>1, SameRedrawn DEF AllFit, Fits
  <1>3. \A c \in Calls : Fits(c, calls'[c], entry', excused')
    <2>1. Waited
      BY FlightHeld
    <2> QED
      BY <1>2, <2>1, AllRedrawn
  <1> QED
    BY <1>1, <1>3, TypingNext DEF RestFits, Eased, CallsAll, EndsAtMenu

LEMMA EnableTyped == ASSUME Typing, Enable PROVE Typing'
  <1>1. RestFits /\ entry \in Records /\ account \in 0 .. MaxSignIns
    BY TypingIs, AccountFits DEF RestFits
  <1>2. Eased(entry, entry') /\ (entry.flight # "none" => entry'.flight # "none")
    BY <1>1, MountedEases DEF Enable
  <1> QED
    BY <1>2, KeptTyped DEF Enable, Steady

LEMMA ServeTyped == ASSUME Typing, Serve PROVE Typing'
  <1>1. entry \in Records
    BY TypingIs DEF RestFits
  <1>2. Eased(entry, entry') /\ entry'.flight # "none"
    BY <1>1, AnsweredFits DEF Serve, Eased
  <1> QED
    BY <1>2, KeptTyped, TypingIs DEF Serve, Steady, RestFits

LEMMA ResendTyped == ASSUME Typing, Resend PROVE Typing'
  <1>1. entry \in Records
    BY TypingIs DEF RestFits
  <1>2. Eased(entry, entry') /\ entry'.flight # "none"
    BY <1>1, RetriedAsks DEF Resend, Eased, Asked
  <1> QED
    BY <1>2, KeptTyped, TypingIs DEF Resend, Steady, RestFits

LEMMA PassTyped == ASSUME Typing, Pass PROVE Typing'
  <1>1. entry \in Records
    BY TypingIs DEF RestFits
  <1>2. Marked(entry, [entry EXCEPT !.old = TRUE])
    BY <1>1 DEF Marked, Records, Entries
  <1>3. Eased(entry, entry') /\ entry.flight = "none"
    BY <1>2, NoEntryFits DEF Pass, Eased, Marked
  <1> QED
    BY <1>3, KeptTyped, TypingIs DEF Pass, Steady, RestFits

LEMMA AskAgainTyped == ASSUME Typing, AskAgain PROVE Typing'
  <1>1. RestFits /\ entry \in Records /\ account \in 0 .. MaxSignIns
    BY TypingIs, AccountFits DEF RestFits
  <1>2. Eased(entry, entry') /\ entry.flight = "none"
    BY <1>1, FetchedAsks DEF AskAgain, Eased, Asked
  <1> QED
    BY <1>1, <1>2, KeptTyped DEF AskAgain, Steady, RestFits

(* The answer arrives or its request fails: nobody waits any more.          *)
LEMMA StillWaitingRedraws ==
    ASSUME Typing, calls' = StillWaiting
    PROVE  /\ CallsAll' /\ Waited
           /\ \A c \in Calls : Redrawn(calls[c], calls'[c]) /\ ~calls'[c].waiting
  <1>1. CallsAll'
    BY DEF CallsAll, StillWaiting
  <1>2. ASSUME NEW c \in Calls
        PROVE  Redrawn(calls[c], calls'[c]) /\ ~calls'[c].waiting
    <2> DEFINE l == [calls[c] EXCEPT !.waiting = FALSE]
    <2>1. calls[c] \in CallRecords
      BY TypingIs DEF AllFit, Fits
    <2>2. Redrawn(calls[c], l) /\ ~l.waiting
      BY <2>1 DEF Redrawn, CallRecords
    <2>3. calls'[c] = l
      BY DEF StillWaiting
    <2> QED
      BY <2>2, <2>3
  <1> QED
    BY <1>1, <1>2 DEF Waited

LEMMA ArriveTyped == ASSUME Typing, Arrive PROVE Typing'
  <1>1. RestFits /\ entry \in Records
    BY TypingIs DEF RestFits
  <1>2. Eased(entry, entry')
    BY <1>1, ArrivedFits DEF Arrive, Eased
  <1>3. Steady /\ UNCHANGED <<opened, shown, excused, account, signedIn, dropped>>
    BY DEF Arrive, Steady
  <1>4. CallsAll' /\ \A c \in Calls : Fits(c, calls'[c], entry', excused')
    BY <1>2, <1>3, StillWaitingRedraws, AllRedrawn DEF Arrive
  <1> QED
    BY <1>1, <1>2, <1>3, <1>4, TypingNext DEF RestFits, Eased, EndsAtMenu

LEMMA FailTyped == ASSUME Typing, Fail PROVE Typing'
  <1>1. RestFits /\ entry \in Records
    BY TypingIs DEF RestFits
  <1>2. Eased(entry, entry')
    BY <1>1, FailedFits DEF Fail, Eased
  <1>3. Steady /\ UNCHANGED <<opened, shown, account, signedIn, dropped>>
    BY DEF Fail, Steady
  <1>4. excused \subseteq excused' /\ excused' \subseteq Calls
    BY <1>1 DEF Fail, RestFits, Records, Entries
  <1>5. CallsAll' /\ \A c \in Calls : Fits(c, calls'[c], entry', excused')
    BY <1>2, <1>3, <1>4, StillWaitingRedraws, AllRedrawn DEF Fail
  <1> QED
    BY <1>1, <1>2, <1>3, <1>4, <1>5, TypingNext DEF RestFits, Eased, EndsAtMenu

-----------------------------------------------------------------------------
(* Types.  Steps of one call: what becomes of it is fitting, and the others *)
(* are redrawn.                                                             *)
OthersRedrawn(c) ==
    CallsAll' /\ \A d \in Calls \ {c} : Redrawn(calls[d], calls'[d])

LEMMA CallTyped ==
    ASSUME Typing, Steady, NEW c \in Calls, OthersRedrawn(c),
           opened' \in DOMAIN PagesOf[app], shown' \in BOOLEAN, Eased(entry, entry'),
           \A d \in Calls \ {c} : calls'[d].waiting => entry'.flight # "none",
           Fits(c, calls'[c], entry', excused'),
           excused \subseteq excused', excused' \subseteq Calls,
           UNCHANGED <<account, signedIn, dropped>>
    PROVE  Typing'
  <1>1. RestFits /\ AllFit
    BY TypingIs
  <1>2. ASSUME NEW d \in Calls \ {c}
        PROVE  Fits(d, calls'[d], entry', excused')
    BY <1>1, RedrawnFits DEF AllFit, OthersRedrawn
  <1>3. \A d \in Calls : Fits(d, calls'[d], entry', excused')
    BY <1>2
  <1> QED
    BY <1>1, <1>3, TypingNext DEF RestFits, Eased, OthersRedrawn, EndsAtMenu

(* Only the record of c changes, and the answer is as far as it was.        *)
LEMMA OneCallTyped ==
    ASSUME Typing, Steady, NEW c \in Calls, NEW l, calls' = [calls EXCEPT ![c] = l],
           Eased(entry, entry'), entry'.flight = entry.flight,
           Fits(c, l, entry', excused'),
           excused \subseteq excused', excused' \subseteq Calls,
           UNCHANGED <<opened, shown, account, signedIn, dropped>>
    PROVE  Typing'
  <1>1. RestFits /\ AllFit
    BY TypingIs
  <1>2. CallsAll' /\ calls'[c] = l /\ \A d \in Calls \ {c} : calls'[d] = calls[d]
    BY <1>1 DEF RestFits, CallsAll
  <1>3. OthersRedrawn(c)
    BY <1>1, <1>2, SameRedrawn DEF OthersRedrawn, AllFit, Fits
  <1>4. \A d \in Calls \ {c} : calls'[d].waiting => entry'.flight # "none"
    BY <1>1, <1>2 DEF AllFit, Fits
  <1> QED
    BY <1>1, <1>2, <1>3, <1>4, CallTyped DEF RestFits

LEMMA SubmitTyped == ASSUME Typing, NEW c \in Calls, Submit(c) PROVE Typing'
  <1>1. RestFits /\ AllFit /\ Steady
    BY TypingIs DEF Submit, Steady
  <1>2. PICK n \in Relevant :
            calls' = [calls EXCEPT ![c] = [act |-> n, closure |-> n, stage |-> "sent",
                                           next |-> 1, waiting |-> FALSE, mounted |-> TRUE]]
    BY DEF Submit
  <1> DEFINE l == [act |-> n, closure |-> n, stage |-> "sent",
                   next |-> 1, waiting |-> FALSE, mounted |-> TRUE]
  <1>3. n \in DOMAIN Acts
    BY <1>1, TableFacts DEF RestFits
  <1>4. l \in CallRecords
    BY <1>3 DEF CallRecords
  <1>5. c \notin entry.missing \cup entry.brings
    BY <1>1 DEF AllFit, Fits, Submit
  <1>6. Fits(c, l, entry, excused)
    BY <1>3, <1>4, <1>5 DEF Fits
  <1>7. UNCHANGED <<entry, opened, shown, excused, account, signedIn, dropped>>
    BY DEF Submit
  <1> HIDE DEF l
  <1>8. calls' = [calls EXCEPT ![c] = l]
    BY <1>2 DEF l
  <1> QED
    BY <1>1, <1>6, <1>7, <1>8, OneCallTyped DEF Eased, RestFits

(* A record whose stage is another.                                         *)
Staged(k, s) == [k EXCEPT !.stage = s]

LEMMA StageFits ==
    ASSUME NEW k \in CallRecords,
           NEW s \in {"idle", "sent", "done", "callback", "settled", "orphan"}
    PROVE  LET l == Staged(k, s)
           IN  /\ l \in CallRecords /\ l.stage = s /\ l.act = k.act /\ l.closure = k.closure
               /\ l.next = k.next /\ l.waiting = k.waiting /\ l.mounted = k.mounted
  BY DEF CallRecords, Staged

LEMMA CommitTyped == ASSUME Typing, NEW c \in Calls, Commit(c) PROVE Typing'
  <1>1. RestFits /\ AllFit /\ Steady
    BY TypingIs DEF Commit, Steady
  <1> DEFINE s == IF calls[c].stage = "sent" THEN "done" ELSE "settled"
             l == Staged(calls[c], s)
  <1>2. calls' = [calls EXCEPT ![c] = l]
    BY DEF Commit, Staged
  <1>3. Fits(c, calls[c], entry, excused) /\ calls[c].stage \in {"sent", "orphan"}
    BY <1>1 DEF AllFit, Commit
  <1>4. s \in {"done", "settled"} /\ (s = "done" => calls[c].stage = "sent")
    BY <1>3
  <1> HIDE DEF s
  <1>5. /\ l \in CallRecords /\ l.stage = s /\ l.act = calls[c].act
        /\ l.closure = calls[c].closure
        /\ l.next = calls[c].next /\ l.waiting = calls[c].waiting
    <2>1. calls[c] \in CallRecords
          /\ s \in {"idle", "sent", "done", "callback", "settled", "orphan"}
      BY <1>3, <1>4 DEF Fits
    <2> QED
      BY <2>1, StageFits
  <1> HIDE DEF l
  <1>6. UNCHANGED <<opened, shown, excused, account, signedIn, dropped>>
    BY DEF Commit
  <1>7. CASE ~Changes(app, calls[c].act, watched)
    <2>1. entry' = entry
      BY <1>7 DEF Commit
    <2>2. Fits(c, l, entry, excused)
      BY <1>3, <1>4, <1>5 DEF Fits
    <2> QED
      BY <1>1, <1>2, <1>6, <2>1, <2>2, OneCallTyped DEF Eased, RestFits
  <1>8. CASE Changes(app, calls[c].act, watched)
    <2>1. entry' = Overtaken(entry, c)
      BY <1>8 DEF Commit
    <2>2. /\ entry' \in Records /\ entry'.flight = entry.flight
          /\ entry'.missing \subseteq entry.missing \cup {c}
          /\ entry'.brings \subseteq entry.brings \cup {c}
      BY <1>1, <2>1, OvertakenFits DEF RestFits
    <2>3. Fits(c, l, entry', excused')
      BY <1>3, <1>4, <1>5, <1>6, <1>8, <2>2 DEF Fits
    <2>4. ASSUME NEW d \in Calls \ {c}
          PROVE  Fits(d, calls[d], entry', excused')
      BY <1>1, <1>6, <2>2 DEF AllFit, Fits
    <2>5. CallsAll' /\ \A d \in Calls : calls'[d] = IF d = c THEN l ELSE calls[d]
      BY <1>1, <1>2 DEF RestFits, CallsAll
    <2>6. \A d \in Calls : Fits(d, calls'[d], entry', excused')
      BY <2>3, <2>4, <2>5
    <2> QED
      BY <1>1, <1>6, <2>2, <2>5, <2>6, TypingNext DEF RestFits, EndsAtMenu
  <1> QED
    BY <1>7, <1>8

LEMMA RefuseTyped == ASSUME Typing, NEW c \in Calls, Refuse(c) PROVE Typing'
  <1>1. RestFits /\ AllFit /\ Steady
    BY TypingIs DEF Refuse, Steady
  <1> DEFINE l == [calls[c] EXCEPT !.stage = "settled"]
  <1>2. calls' = [calls EXCEPT ![c] = l]
    BY DEF Refuse
  <1>3. Fits(c, calls[c], entry, excused) /\ calls[c].stage = "sent"
    BY <1>1 DEF AllFit, Refuse
  <1>4. /\ l \in CallRecords /\ l.stage = "settled" /\ l.act = calls[c].act
        /\ l.closure = calls[c].closure
        /\ l.next = calls[c].next /\ l.waiting = calls[c].waiting
    BY <1>3, StageFits DEF Fits, Staged
  <1> HIDE DEF l
  <1>5. UNCHANGED <<entry, opened, shown, excused, account, signedIn, dropped>>
    BY DEF Refuse
  <1>6. Fits(c, l, entry, excused)
    BY <1>3, <1>4 DEF Fits
  <1> QED
    BY <1>1, <1>2, <1>5, <1>6, OneCallTyped DEF Eased, RestFits

LEMMA LoseTyped == ASSUME Typing, NEW c \in Calls, Lose(c) PROVE Typing'
  <1>1. RestFits /\ AllFit /\ Steady
    BY TypingIs DEF Lose, Steady
  <1> DEFINE s == IF calls[c].stage = "sent" THEN "orphan" ELSE "settled"
             l == Staged(calls[c], s)
  <1>2. calls' = [calls EXCEPT ![c] = l]
    BY DEF Lose, Staged
  <1>3. Fits(c, calls[c], entry, excused) /\ calls[c].stage \in {"sent", "done"}
    BY <1>1 DEF AllFit, Lose
  <1>4. s \in {"orphan", "settled"} /\ (s = "orphan" => calls[c].stage = "sent")
    BY <1>3
  <1> HIDE DEF s
  <1>5. /\ l \in CallRecords /\ l.stage = s /\ l.act = calls[c].act
        /\ l.closure = calls[c].closure
        /\ l.next = calls[c].next /\ l.waiting = calls[c].waiting
    <2>1. calls[c] \in CallRecords
          /\ s \in {"idle", "sent", "done", "callback", "settled", "orphan"}
      BY <1>3, <1>4 DEF Fits
    <2> QED
      BY <2>1, StageFits
  <1> HIDE DEF l
  <1>6. UNCHANGED <<entry, opened, shown, account, signedIn, dropped>>
        /\ excused' = excused \cup {c}
    BY DEF Lose
  <1>7. Fits(c, l, entry, excused')
    BY <1>3, <1>4, <1>5, <1>6 DEF Fits
  <1> QED
    BY <1>1, <1>2, <1>6, <1>7, OneCallTyped DEF Eased, RestFits

-----------------------------------------------------------------------------
(* Types.  A callback refreshes.                                            *)
LEMMA RefreshedDoes ==
    ASSUME RestFits, NEW keys
    PROVE  LET f == Refreshed(keys)
           IN  /\ f \in Records /\ f.held = entry.held /\ f.missing = entry.missing
               /\ f.brings \subseteq entry.brings
               /\ entry.flight # "none" => f.flight # "none"
               /\ watched \notin keys => f = entry
               /\ watched \in keys => f.invalid = entry.held
               /\ watched \in keys /\ Refetches /\ Restarts(entry) =>
                      f.flight = "sent" /\ f.brings = {}
               /\ ~(watched \in keys /\ Refetches /\ Restarts(entry)) =>
                      f.flight = entry.flight /\ f.brings = entry.brings
  <1>1. entry \in Records /\ account \in 0 .. MaxSignIns /\ Refetches \in BOOLEAN
    BY AccountFits DEF RestFits, Refetches
  <1>2. Refreshed(keys) = IF watched \in keys THEN Invalidated(entry, Refetches, account)
                          ELSE entry
    BY DEF Refreshed
  <1>3. CASE watched \in keys
    <2> DEFINE f == Invalidated(entry, Refetches, account)
    <2>1. /\ f.invalid = entry.held
          /\ IF Refetches /\ Restarts(entry) THEN Asked(entry, f, account) ELSE Marked(entry, f)
      BY <1>1, InvalidatedAsks
    <2>2. Refreshed(keys) = f
      BY <1>2, <1>3
    <2> HIDE DEF f
    <2> QED
      BY <1>3, <2>1, <2>2 DEF Asked, Marked
  <1>4. CASE watched \notin keys
    BY <1>1, <1>2, <1>4
  <1> QED
    BY <1>3, <1>4

(* Whoever waits for a refetch waits for a request under way.               *)
LEMMA WaitIsForFlight ==
    ASSUME RestFits, NEW keys, watched \in keys, Refetches
    PROVE  Refreshed(keys).flight # "none"
  BY RefreshedDoes DEF Restarts

LEMMA ExcuseIs ==
    ASSUME RestFits, NEW c \in Calls, NEW keys, NEW e, Excuse(c, keys, e)
    PROVE  excused \subseteq excused' /\ excused' \subseteq Calls
  BY DEF RestFits, Excuse

(* One step of the callback of c.                                           *)
LEMMA StepDoes ==
    ASSUME Typing, NEW c \in Calls, Step(c)
    PROVE  LET keys == Steps(c)[calls[c].next]
               k == calls[c]
               l == calls'[c]
           IN  /\ CallsAll' /\ l.act = k.act /\ l.closure = k.closure /\ l.mounted = k.mounted
               /\ l.stage = "callback" /\ l.next = k.next + 1
               /\ l.waiting = (watched \in keys /\ Refetches)
               /\ k.next + 1 \in 0 .. 5 => l \in CallRecords
               /\ \A d \in Calls \ {c} :
                      /\ Redrawn(calls[d], calls'[d])
                      /\ calls'[d].closure = calls[d].closure
                      /\ calls'[d].mounted = calls[d].mounted
                      /\ calls'[d].waiting = (calls[d].waiting /\ ~StopsWaiting(keys))
  <1>1. RestFits /\ AllFit
    BY TypingIs
  <1> DEFINE keys == Steps(c)[calls[c].next]
             w == watched \in keys /\ Refetches
             l == [calls[c] EXCEPT !.stage = "callback", !.next = @ + 1, !.waiting = w]
             m(d) == [calls[d] EXCEPT !.waiting = @ /\ ~StopsWaiting(keys)]
  <1>2. calls' = [d \in Calls |-> IF d = c THEN l ELSE m(d)]
    BY DEF Step
  <1>3. /\ l.act = calls[c].act /\ l.closure = calls[c].closure
        /\ l.mounted = calls[c].mounted /\ l.stage = "callback" /\ l.next = calls[c].next + 1
        /\ l.waiting = w
    BY <1>1 DEF AllFit, Fits, CallRecords
  <1>a. calls[c].next + 1 \in 0 .. 5 => l \in CallRecords
    <2> DEFINE n == calls[c].next + 1
               r == [calls[c] EXCEPT !.stage = "callback", !.next = n]
    <2>1. calls[c] \in CallRecords /\ w \in BOOLEAN
      BY <1>1 DEF AllFit, Fits, Refetches
    <2>2. l = [r EXCEPT !.waiting = w]
      BY <2>1 DEF CallRecords
    <2> HIDE DEF n, w, l
    <2>3. n \in 0 .. 5 => r \in CallRecords
      BY <2>1 DEF CallRecords
    <2> HIDE DEF r
    <2>4. n \in 0 .. 5 => [r EXCEPT !.waiting = w] \in CallRecords
      BY <2>1, <2>3 DEF CallRecords
    <2> QED
      BY <2>2, <2>4 DEF n
  <1>4. ASSUME NEW d \in Calls
        PROVE  /\ Redrawn(calls[d], m(d)) /\ m(d).closure = calls[d].closure
               /\ m(d).mounted = calls[d].mounted
               /\ m(d).waiting = (calls[d].waiting /\ ~StopsWaiting(keys))
    <2> DEFINE b == calls[d].waiting /\ ~StopsWaiting(keys)
               n == [calls[d] EXCEPT !.waiting = b]
    <2>1. calls[d] \in CallRecords /\ b \in BOOLEAN /\ (b => calls[d].waiting)
      BY <1>1 DEF AllFit, Fits
    <2>2. m(d) = n
      BY <2>1 DEF CallRecords
    <2> HIDE DEF b
    <2>3. /\ Redrawn(calls[d], n) /\ n.closure = calls[d].closure
          /\ n.mounted = calls[d].mounted /\ n.waiting = b
      BY <2>1 DEF Redrawn, CallRecords
    <2> QED
      BY <2>2, <2>3 DEF b
  <1> HIDE DEF l, m, keys, w
  <1>5. CallsAll' /\ calls'[c] = l /\ \A d \in Calls \ {c} : calls'[d] = m(d)
    BY <1>2 DEF CallsAll
  <1>6. CallsAll' /\ \A d \in Calls \ {c} :
            /\ Redrawn(calls[d], calls'[d]) /\ calls'[d].closure = calls[d].closure
            /\ calls'[d].mounted = calls[d].mounted
            /\ calls'[d].waiting = (calls[d].waiting /\ ~StopsWaiting(keys))
    BY <1>4, <1>5
  <1> QED
    BY <1>3, <1>a, <1>5, <1>6 DEF keys, w

StepIsDue(c) ==
    /\ calls[c].stage \in {"done", "callback"} /\ ~calls[c].waiting
    /\ calls[c].next \in 1 .. Len(Steps(c)) /\ calls[c].next \in 1 .. 4

LEMMA StepTyped ==
    ASSUME Typing, Steady, NEW c \in Calls, StepIsDue(c), Step(c),
           UNCHANGED <<account, signedIn, dropped>>
    PROVE  Typing'
  <1>1. RestFits /\ AllFit /\ Fits(c, calls[c], entry, excused)
    BY TypingIs DEF AllFit
  <1> DEFINE keys == Steps(c)[calls[c].next]
  <1>2. /\ entry' = Refreshed(keys) /\ Excuse(c, keys, Refreshed(keys))
        /\ UNCHANGED <<opened, shown>>
    BY DEF Step
  <1>3. /\ OthersRedrawn(c)
        /\ \A d \in Calls \ {c} : calls'[d].waiting => calls[d].waiting
    BY StepDoes DEF OthersRedrawn
  <1>4. /\ calls'[c].act = calls[c].act /\ calls'[c].closure = calls[c].closure
        /\ calls'[c].stage = "callback" /\ calls'[c].next = calls[c].next + 1
        /\ calls'[c].waiting = (watched \in keys /\ Refetches)
        /\ calls[c].next + 1 \in 0 .. 5 => calls'[c] \in CallRecords
    BY StepDoes
  <1> HIDE DEF keys
  <1>5. Eased(entry, entry') /\ (entry.flight # "none" => entry'.flight # "none")
    BY <1>1, <1>2, RefreshedDoes DEF Eased
  <1>6. excused \subseteq excused' /\ excused' \subseteq Calls
    BY <1>1, <1>2, ExcuseIs
  <1>7. \A d \in Calls \ {c} : calls'[d].waiting => entry'.flight # "none"
    BY <1>1, <1>3, <1>5 DEF AllFit, Fits
  <1>8. calls'[c].waiting => entry'.flight # "none"
    BY <1>1, <1>2, <1>4, WaitIsForFlight
  <1>9. Fits(c, calls'[c], entry', excused')
    <2>1. calls[c].next + 1 \in 0 .. 5 /\ calls[c].next + 1 \in 1 .. Len(Steps(c)) + 1
      <3> DEFINE n == calls[c].next
                 m == Len(Steps(c))
      <3>1. n \in 1 .. m /\ n \in 1 .. 4
        BY DEF StepIsDue
      <3>2. calls[c].closure \in DOMAIN Acts /\ app \in Apps
        BY <1>1, TableFacts DEF StepIsDue, Fits, RestFits
      <3>3. m \in Nat
        BY <3>2, CallbackFacts DEF Steps
      <3> HIDE DEF n, m
      <3>4. n + 1 \in 0 .. 5 /\ n + 1 \in 1 .. m + 1
        BY <3>1, <3>3
      <3> QED
        BY <3>4 DEF n, m
    <2>2. StepsOf(calls'[c]) = Steps(c)
      BY <1>4 DEF StepsOf, Steps
    <2>3. c \in entry'.missing \cup entry'.brings => Changes(app, calls[c].act, watched)
      BY <1>1, <1>5 DEF Eased, Fits
    <2>4. calls'[c] \in CallRecords /\ calls'[c].next \in 1 .. Len(StepsOf(calls'[c])) + 1
      BY <1>4, <2>1, <2>2
    <2>5. /\ calls'[c].act \in Relevant /\ calls'[c].closure \in DOMAIN Acts
          /\ Acts[calls'[c].closure].button = Acts[calls'[c].act].button
      BY <1>1, <1>4 DEF StepIsDue, Fits
    <2> QED
      BY <1>4, <1>8, <2>3, <2>4, <2>5 DEF Fits
  <1> QED
    BY <1>1, <1>2, <1>3, <1>5, <1>6, <1>7, <1>9, CallTyped DEF RestFits

(* The callback is over, the next page opens.                               *)
LEMMA OpenTyped ==
    ASSUME Typing, Steady, NEW c \in Calls, NEW e, Eased(entry, e),
           entry.flight # "none" => e.flight # "none",
           calls[c].stage \in {"done", "callback"}, ~calls[c].waiting,
           Open(Goes(c), e, [calls EXCEPT ![c].stage = "settled"]),
           excused \subseteq excused', excused' \subseteq Calls,
           UNCHANGED <<account, signedIn, dropped>>
    PROVE  Typing'
  <1>1. RestFits /\ AllFit /\ Fits(c, calls[c], entry, excused)
    BY TypingIs DEF AllFit
  <1> DEFINE l == [calls[c] EXCEPT !.stage = "settled"]
             ks == [calls EXCEPT ![c] = l]
  <1>2. /\ l \in CallRecords /\ l.stage = "settled" /\ l.act = calls[c].act
        /\ l.closure = calls[c].closure
        /\ l.next = calls[c].next /\ l.waiting = calls[c].waiting
    BY <1>1, StageFits DEF Fits, Staged
  <1>3. Fits(c, l, entry, excused)
    BY <1>1, <1>2 DEF Fits
  <1>4. Open(Goes(c), e, ks)
    BY <1>1 DEF RestFits, CallsAll
  <1> HIDE DEF l
  <1>5. ks \in [Calls -> CallRecords] /\ \A d \in Calls : ks[d] = IF d = c THEN l ELSE calls[d]
    BY <1>1, <1>2 DEF RestFits, CallsAll, AllFit, Fits
  <1>6. Goes(c) \in DOMAIN PagesOf[app]
    BY <1>1, TableFacts DEF Goes, Fits, RestFits
  <1>7. e \in Records /\ account \in 0 .. MaxSignIns
    BY <1>1, AccountFits DEF Eased
  <1> HIDE DEF ks
  <1>8. /\ opened' \in DOMAIN PagesOf[app] /\ shown' \in BOOLEAN /\ CallsAll'
        /\ entry' = e \/ entry' = Mounted(e, account)
        /\ \A d \in Calls : Redrawn(ks[d], calls'[d])
    BY <1>1, <1>4, <1>5, <1>6, <1>7, OpenDoes
  <1>9. Eased(entry, entry') /\ (entry.flight # "none" => entry'.flight # "none")
    BY <1>7, <1>8, MountedEases DEF Eased
  <1>10. \A d \in Calls : Fits(d, ks[d], entry, excused)
    BY <1>1, <1>3, <1>5 DEF AllFit
  <1>11. ASSUME NEW d \in Calls
         PROVE  Fits(d, calls'[d], entry', excused')
    <2>1. calls'[d].waiting => entry'.flight # "none"
      BY <1>8, <1>9, <1>10 DEF Redrawn, Fits
    <2> QED
      BY <1>8, <1>9, <1>10, <2>1, RedrawnFits
  <1> QED
    BY <1>1, <1>8, <1>9, <1>11, TypingNext DEF RestFits, Eased, EndsAtMenu

LEMMA StepThroughTyped ==
    ASSUME Typing, Steady, NEW c \in Calls, calls[c].stage = "done", StepThrough(c),
           UNCHANGED <<account, signedIn, dropped>>
    PROVE  Typing'
  <1>1. RestFits /\ ~calls[c].waiting
    BY TypingIs DEF AllFit, Fits
  <1> DEFINE keys == RefreshesOf(Acts[calls[c].closure])
  <1>2. /\ Open(Goes(c), Refreshed(keys), [calls EXCEPT ![c].stage = "settled"])
        /\ Excuse(c, keys, Refreshed(keys))
    BY DEF StepThrough
  <1> HIDE DEF keys
  <1>3. Eased(entry, Refreshed(keys)) /\ (entry.flight # "none" => Refreshed(keys).flight # "none")
    BY <1>1, RefreshedDoes DEF Eased
  <1> QED
    BY <1>1, <1>2, <1>3, ExcuseIs, OpenTyped

LEMMA RespondIs ==
    ASSUME Typing, NEW c \in Calls, Respond(c)
    PROVE  /\ Steady /\ UNCHANGED <<account, signedIn, dropped>> /\ calls[c].stage = "done"
           /\ \/ StepIsDue(c) /\ Step(c)
              \/ ~(Waits(c) /\ Steps(c) # <<>>) /\ StepThrough(c)
  <1>1. /\ Steady /\ UNCHANGED <<account, signedIn, dropped>> /\ calls[c].stage = "done"
        /\ IF Waits(c) /\ Steps(c) # <<>> THEN Step(c) ELSE StepThrough(c)
    BY DEF Respond, Steady
  <1>2. RestFits /\ Fits(c, calls[c], entry, excused)
    BY TypingIs DEF AllFit
  <1>3. calls[c].next = 1 /\ ~calls[c].waiting /\ calls[c].closure \in DOMAIN Acts /\ app \in Apps
    BY <1>1, <1>2, TableFacts DEF Fits, RestFits
  <1>4. ASSUME Steps(c) # <<>>
        PROVE  StepIsDue(c)
    <2>1. /\ Steps(c) \in Seq(SUBSET DOMAIN SourcesOf[app])
      BY <1>3, TablesAssumption DEF CallbacksAreShort, Steps, Acts
    <2> DEFINE s == Steps(c)
    <2>2. Len(s) \in Nat \ {0}
      <3> HIDE DEF s
      <3>1. \A S : \A t \in Seq(S) : t # <<>> => Len(t) \in Nat \ {0}
        OBVIOUS
      <3> QED
        BY <1>4, <2>1, <3>1, Zenon DEF s
    <2> QED
      BY <1>1, <1>3, <2>2 DEF StepIsDue
  <1> QED
    BY <1>1, <1>4

LEMMA CallbackIs ==
    ASSUME Typing, NEW c \in Calls, Callback(c)
    PROVE  /\ Steady /\ UNCHANGED <<account, signedIn, dropped>>
           /\ calls[c].stage = "callback" /\ StepIsDue(c) /\ Step(c)
  <1>1. /\ Steady /\ UNCHANGED <<account, signedIn, dropped>> /\ Step(c)
        /\ calls[c].stage = "callback" /\ ~calls[c].waiting /\ calls[c].next <= Len(Steps(c))
    BY DEF Callback, Steady
  <1>2. RestFits /\ Fits(c, calls[c], entry, excused)
    BY TypingIs DEF AllFit
  <1> DEFINE n == calls[c].next
             m == Len(Steps(c))
  <1>3. calls[c].closure \in DOMAIN Acts /\ app \in Apps /\ n \in 1 .. m + 1 /\ n <= m
    BY <1>1, <1>2, TableFacts DEF Fits, RestFits, StepsOf, Steps
  <1>4. m \in 0 .. 4
    BY <1>3, CallbackFacts DEF Steps
  <1> HIDE DEF n, m
  <1>5. n \in 1 .. m /\ n \in 1 .. 4
    BY <1>3, <1>4
  <1> QED
    BY <1>1, <1>5 DEF StepIsDue, n, m

LEMMA SettleTyped == ASSUME Typing, NEW c \in Calls, Settle(c) PROVE Typing'
  <1>1. RestFits
    BY TypingIs
  <1> QED
    BY <1>1, OpenTyped DEF Settle, Steady, Eased, RestFits

-----------------------------------------------------------------------------
(* Types.  The browser starts anew, and the session.                        *)
LEMMA AnewFits ==
    ASSUME NEW e, NEW who \in 0 .. MaxSignIns, e = NoEntry \/ e = Mounted(NoEntry, who)
    PROVE  e \in Records /\ e.missing = {} /\ e.brings = {} /\ ~e.held /\ e.flight # "answered"
  BY NoEntryFits, MountedAsks DEF Asked

LEMMA ReloadDoes ==
    ASSUME Typing, Reload
    PROVE  /\ CallsAll'
           /\ \A c \in Calls :
                  /\ ~calls'[c].mounted /\ ~calls'[c].waiting
                  /\ Fits(c, calls'[c], entry', excused')
  <1>1. RestFits /\ AllFit
    BY TypingIs
  <1>2. excused' = excused \cup {c \in Calls : calls[c].stage \notin {"idle", "settled"}}
    BY DEF Reload
  <1>3. entry'.missing = {} /\ entry'.brings = {}
    BY <1>1, AnewFits, AccountFits DEF Reload
  <1>4. CallsAll'
    BY DEF Reload, CallsAll
  <1>5. ASSUME NEW c \in Calls
        PROVE  /\ ~calls'[c].mounted /\ ~calls'[c].waiting
               /\ Fits(c, calls'[c], entry', excused')
    <2> DEFINE k == calls[c]
               o == [k EXCEPT !.stage = "orphan", !.mounted = FALSE]
               t == [k EXCEPT !.stage = "settled", !.waiting = FALSE, !.mounted = FALSE]
    <2>1. calls'[c] = CASE k.stage = "idle" -> NoCall
                        [] k.stage \in {"sent", "orphan"} -> o
                        [] OTHER -> t
      BY DEF Reload
    <2>2. Fits(c, k, entry, excused)
      BY <1>1 DEF AllFit
    <2>3. CASE k.stage = "idle"
      <3>1. calls'[c] = NoCall
        BY <2>1, <2>3
      <3> QED
        BY <1>3, <3>1 DEF Fits, NoCall, CallRecords
    <2>4. CASE k.stage \in {"sent", "orphan"}
      <3>1. calls'[c] = o
        BY <2>1, <2>4
      <3>2. /\ o \in CallRecords /\ o.stage = "orphan" /\ ~o.mounted /\ o.act = k.act
            /\ o.closure = k.closure /\ o.next = k.next /\ o.waiting = k.waiting
        BY <2>2 DEF Fits, CallRecords
      <3>3. c \in excused'
        BY <1>2, <2>4
      <3> HIDE DEF k, o
      <3>4. ~o.waiting
        BY <2>2, <2>4, <3>2 DEF Fits
      <3>5. Fits(c, o, entry', excused')
        BY <1>3, <2>2, <2>4, <3>2, <3>3, <3>4 DEF Fits
      <3> QED
        BY <3>1, <3>2, <3>4, <3>5
    <2>5. CASE k.stage \notin {"idle", "sent", "orphan"}
      <3>1. calls'[c] = t
        BY <2>1, <2>5
      <3>2. /\ t \in CallRecords /\ t.stage = "settled" /\ ~t.mounted /\ t.act = k.act
            /\ t.closure = k.closure /\ t.next = k.next /\ ~t.waiting
        BY <2>2 DEF Fits, CallRecords
      <3> HIDE DEF k, t
      <3>3. Fits(c, t, entry', excused')
        BY <1>3, <2>2, <2>5, <3>2 DEF Fits
      <3> QED
        BY <3>1, <3>2, <3>3
    <2> QED
      BY <2>3, <2>4, <2>5
  <1> QED
    BY <1>4, <1>5

LEMMA ReloadTyped == ASSUME Typing, Reload PROVE Typing'
  <1>1. RestFits /\ AllFit
    BY TypingIs
  <1>2. /\ Steady /\ UNCHANGED <<account, signedIn, dropped>> /\ opened' = "elsewhere"
        /\ entry' = NoEntry \/ entry' = Mounted(NoEntry, account)
    BY DEF Reload, Steady
  <1>a. shown' \in BOOLEAN
    <2> DEFINE s == watched \in PagesOf[app]["elsewhere"].now
    <2>1. shown' = s
      BY DEF Reload
    <2>2. s \in BOOLEAN
      OBVIOUS
    <2> HIDE DEF s
    <2> QED
      BY <2>1, <2>2
  <1>3. excused' \subseteq Calls
    BY <1>1 DEF Reload, RestFits
  <1>4. opened' \in DOMAIN PagesOf[app]
    BY <1>1, <1>2, TableFacts DEF RestFits
  <1>5. entry' \in Records
    BY <1>1, <1>2, AnewFits, AccountFits
  <1> QED
    BY <1>1, <1>2, <1>a, <1>3, <1>4, <1>5, ReloadDoes, TypingNext DEF RestFits, EndsAtMenu

(* While the menu is looked at, no call is made.                            *)
LEMMA MenuIsQuiet ==
    ASSUME Typing, watched = "auth-me"
    PROVE  \A c \in Calls : calls[c].stage = "idle" /\ ~calls[c].waiting
  <1>1. RestFits /\ AllFit
    BY TypingIs
  <1>2. Relevant = {}
    BY <1>1, TableFacts DEF RestFits
  <1> QED
    BY <1>1, <1>2 DEF AllFit, Fits

LEMMA SessionTyped ==
    ASSUME Typing, Steady, watched = "auth-me", UNCHANGED <<calls, excused>>,
           opened' \in {"login", "elsewhere"}, shown' \in BOOLEAN, Eased(entry, entry'),
           account' \in 1 .. MaxSignIns, signedIn' \in BOOLEAN, dropped' \in BOOLEAN
    PROVE  Typing'
  <1>1. RestFits /\ AllFit
    BY TypingIs
  <1>2. \A c \in Calls : Redrawn(calls[c], calls'[c])
    BY <1>1, SameRedrawn DEF AllFit, Fits
  <1>3. Waited
    BY MenuIsQuiet DEF Waited
  <1>4. opened' \in DOMAIN PagesOf[app]
    BY <1>1, TableFacts DEF RestFits
  <1>5. \A c \in Calls : Fits(c, calls'[c], entry', excused')
    BY <1>2, <1>3, AllRedrawn
  <1> QED
    BY <1>1, <1>4, <1>5, TypingNext DEF RestFits, Eased, CallsAll, EndsAtMenu

LEMMA LogoutTyped == ASSUME Typing, Logout PROVE Typing'
  <1>1. Eased(entry, entry')
    BY NoEntryFits DEF Logout, Eased
  <1> QED
    BY <1>1, SessionTyped, TypingIs DEF Logout, ToLogin, Steady, RestFits

LEMMA RefreshFailsTyped == ASSUME Typing, RefreshFails PROVE Typing'
  <1>1. RestFits
    BY TypingIs
  <1> QED
    BY <1>1, SessionTyped DEF RefreshFails, ToLogin, Steady, RestFits, Eased

LEMMA SignInTyped == ASSUME Typing, SignIn PROVE Typing'
  <1>1. RestFits
    BY TypingIs
  <1>2. watched = "auth-me" /\ Steady
    BY <1>1 DEF SignIn, Steady, RestFits, EndsAtMenu
  <1>3. account + 1 \in 1 .. MaxSignIns /\ account + 1 \in 0 .. MaxSignIns
    BY <1>1, BoundAssumption DEF RestFits, SignIn
  <1>4. Eased(entry, entry')
    BY <1>1, <1>3, MountedEases DEF SignIn, RestFits
  <1> QED
    BY <1>1, <1>2, <1>3, <1>4, SessionTyped DEF SignIn, RestFits

LEMMA InitTyped == Init => Typing
  <1> SUFFICES ASSUME Init PROVE Typing
    OBVIOUS
  <1>1. PICK w \in Watchable :
            /\ app = w[1] /\ watched = w[2]
            /\ opened = "elsewhere" /\ shown = (w[2] \in PagesOf[w[1]]["elsewhere"].now)
            /\ entry = (IF shown THEN Mounted(NoEntry, 1) ELSE NoEntry)
            /\ calls = [c \in Calls |-> NoCall]
            /\ excused = {} /\ account = 1 /\ signedIn = TRUE /\ dropped = FALSE
    BY DEF Init
  <1>2. w = <<w[1], w[2]>>
    BY <1>1 DEF Watchable
  <1>3. app = w[1] /\ watched = w[2] /\ <<app, watched>> \in Watchable
    BY <1>1, <1>2
  <1>4. opened \in DOMAIN PagesOf[app] /\ shown \in BOOLEAN
    BY <1>1, <1>3, TableFacts
  <1>5. 1 \in 0 .. MaxSignIns /\ 1 \in 1 .. MaxSignIns
    BY BoundAssumption
  <1>6. entry \in Records /\ entry.missing = {} /\ entry.brings = {}
    BY <1>1, <1>5, AnewFits
  <1>7. ASSUME NEW c \in Calls
        PROVE  Fits(c, calls[c], entry, excused)
    <2>1. calls[c] = NoCall
      BY <1>1
    <2> QED
      BY <1>6, <2>1 DEF Fits, NoCall, CallRecords
  <1> QED
    BY <1>1, <1>3, <1>4, <1>5, <1>6, <1>7, TypingIs DEF RestFits, AllFit, CallsAll, EndsAtMenu

LEMMA TypingStep == Typing /\ [Next]_vars => Typing'
  <1> SUFFICES ASSUME Typing, [Next]_vars PROVE Typing'
    OBVIOUS
  <1>1. CASE UNCHANGED vars
    <2>1. RestFits /\ AllFit
      BY TypingIs
    <2> QED
      BY <1>1, <2>1, KeptTyped DEF vars, Steady, Eased, RestFits
  <1>2. ASSUME NEW c \in Calls, Submit(c) \/ Commit(c) \/ Refuse(c) \/ Lose(c) \/ Settle(c)
        PROVE  Typing'
    BY <1>2, SubmitTyped, CommitTyped, RefuseTyped, LoseTyped, SettleTyped
  <1>3. ASSUME NEW c \in Calls, Respond(c) \/ Callback(c)
        PROVE  Typing'
    BY <1>3, RespondIs, CallbackIs, StepTyped, StepThroughTyped
  <1>4. CASE Visit \/ Enable \/ Serve \/ Arrive \/ Resend \/ Fail \/ Pass \/ AskAgain
    BY <1>4, VisitTyped, EnableTyped, ServeTyped, ArriveTyped, ResendTyped, FailTyped,
       PassTyped, AskAgainTyped
  <1>5. CASE Reload \/ Logout \/ RefreshFails \/ SignIn
    BY <1>5, ReloadTyped, LogoutTyped, RefreshFailsTyped, SignInTyped
  <1> QED
    BY <1>1, <1>2, <1>3, <1>4, <1>5 DEF Next

(* Every state is well typed: in particular a callback that waits waits for *)
(* a request that is under way, and an answer only ever lacks calls that    *)
(* have committed.                                                          *)
THEOREM TypeCorrect == Spec => []TypeOK
  <1>1. Typing => TypeOK
    BY DEF Typing
  <1> QED
    BY <1>1, InitTyped, TypingStep, PTL DEF Spec

-----------------------------------------------------------------------------
(* The menu.                                                                *)
LEMMA AskedOwned ==
    ASSUME NEW e \in Records, NEW who \in 0 .. MaxSignIns, Owned(e, who)
    PROVE  /\ Owned(Mounted(e, who), who) /\ Owned(Fetched(e, who), who)
           /\ e.flight # "none" => Owned(Answered(e), who) /\ Owned(Arrived(e), who)
  <1>1. Owned(Mounted(e, who), who)
    BY MountedAsks DEF Asked, Owned
  <1>2. Owned(Fetched(e, who), who)
    BY FetchedAsks DEF Asked, Owned
  <1>3. e.flight # "none" => Owned(Answered(e), who) /\ Owned(Arrived(e), who)
    BY AnsweredFits, ArrivedFits DEF Owned
  <1> QED
    BY <1>1, <1>2, <1>3

LEMMA MenuStep == Typing /\ MenuKept /\ [Next]_vars => MenuKept'
  <1> SUFFICES ASSUME Typing, MenuKept, [Next]_vars,
                      watched' = "auth-me", ~dropped'
               PROVE  Owned(entry, account)' /\ (~signedIn' => entry' = NoEntry /\ ~shown')
    BY DEF MenuKept
  <1>1. RestFits /\ entry \in Records /\ account \in 0 .. MaxSignIns
    BY TypingIs, AccountFits DEF RestFits
  <1>2. CASE UNCHANGED vars
    BY <1>2 DEF vars, MenuKept, Owned
  <1>3. ASSUME NEW c \in Calls, \/ Submit(c) \/ Commit(c) \/ Refuse(c) \/ Lose(c)
                                \/ Respond(c) \/ Callback(c) \/ Settle(c)
        PROVE  FALSE
    <2>1. watched = "auth-me"
      BY <1>3 DEF Submit, Commit, Refuse, Lose, Respond, Callback, Settle
    <2>2. calls[c].stage = "idle" /\ Relevant = {}
      BY <1>1, <2>1, MenuIsQuiet, TableFacts DEF RestFits
    <2> QED
      BY <1>3, <2>2 DEF Submit, Commit, Refuse, Lose, Respond, Callback, Settle
  <1>4. CASE Visit \/ Enable
    <2>1. watched = "auth-me" /\ ~dropped /\ signedIn /\ UNCHANGED <<account, signedIn>>
      BY <1>4 DEF Visit, Enable
    <2>2. Owned(entry, account)
      BY <2>1 DEF MenuKept
    <2>3. entry' = entry \/ entry' = Mounted(entry, account)
      BY <1>4 DEF Visit, Enable, Open
    <2>4. Owned(entry', account)
      BY <1>1, <2>2, <2>3, AskedOwned
    <2> QED
      BY <2>1, <2>4 DEF Owned
  <1>5. CASE Serve \/ Arrive \/ Resend \/ Fail \/ Pass \/ AskAgain
    <2>1. watched = "auth-me" /\ ~dropped /\ UNCHANGED <<account, signedIn, shown>>
      BY <1>5 DEF Serve, Arrive, Resend, Fail, Pass, AskAgain
    <2>2. Owned(entry, account) /\ (~signedIn => entry = NoEntry /\ ~shown)
      BY <2>1 DEF MenuKept
    <2>3. signedIn
      BY <1>5, <2>2, NoEntryFits DEF Serve, Arrive, Resend, Fail, Pass, AskAgain
    <2>4. Owned(entry', account)
      <3>1. CASE Serve \/ Arrive
        BY <1>1, <2>2, <3>1, AskedOwned DEF Serve, Arrive
      <3>2. CASE Resend
        BY <1>1, <2>2, <3>2, RetriedAsks DEF Resend, Asked, Owned
      <3>3. CASE Fail
        BY <1>1, <2>2, <3>3, FailedFits DEF Fail, Owned
      <3>4. CASE Pass
        <4>1. Marked(entry, [entry EXCEPT !.old = TRUE])
          BY <1>1 DEF Marked, Records, Entries
        <4> QED
          BY <2>2, <3>4, <4>1, NoEntryFits DEF Pass, Owned, Marked
      <3>5. CASE AskAgain
        BY <1>1, <2>2, <3>5, AskedOwned DEF AskAgain
      <3> QED
        BY <1>5, <3>1, <3>2, <3>3, <3>4, <3>5
    <2> QED
      BY <2>1, <2>3, <2>4 DEF Owned
  <1>6. CASE Reload
    <2>1. signedIn' /\ (entry' = NoEntry \/ entry' = Mounted(NoEntry, account))
          /\ account' = account
      BY <1>6 DEF Reload
    <2>2. Owned(NoEntry, account)
      BY NoEntryFits DEF Owned
    <2>3. Owned(entry', account)
      BY <1>1, <2>1, <2>2, NoEntryFits, AskedOwned
    <2> QED
      BY <2>1, <2>3 DEF Owned
  <1>7. CASE Logout
    <2>1. entry' = NoEntry /\ ~shown'
      BY <1>7 DEF Logout, ToLogin
    <2> QED
      BY <2>1, NoEntryFits DEF Owned
  <1>8. CASE RefreshFails
    BY <1>8 DEF RefreshFails
  <1>9. CASE SignIn
    <2>1. /\ ~signedIn /\ signedIn' /\ account' = account + 1 /\ account < MaxSignIns
          /\ entry' = Mounted(entry, account + 1) /\ watched = "auth-me" /\ ~dropped
      BY <1>9 DEF SignIn
    <2>2. entry = NoEntry /\ account + 1 \in 0 .. MaxSignIns
      BY <1>1, <2>1, BoundAssumption DEF MenuKept
    <2>3. Owned(NoEntry, account + 1)
      BY NoEntryFits DEF Owned
    <2>4. Owned(entry', account')
      BY <1>1, <2>1, <2>2, <2>3, AskedOwned
    <2> QED
      BY <2>1, <2>4 DEF Owned
  <1> QED
    BY <1>2, <1>3, <1>4, <1>5, <1>6, <1>7, <1>8, <1>9 DEF Next

(* The menu is that of the account signed in, however often somebody signs  *)
(* in and whatever request was under way when the last one signed out,      *)
(* unless a session ended because its refresh failed (handleLogout of the   *)
(* shell removes auth-me; the refresh of the client does not).              *)
THEOREM MenuIsOfAccount == Spec => []MenuOfAccount
  <1>1. Init => MenuKept
    <2> SUFFICES ASSUME Init PROVE MenuKept
      OBVIOUS
    <2>1. (entry = NoEntry \/ entry = Mounted(NoEntry, 1)) /\ account = 1 /\ signedIn
      BY DEF Init
    <2>2. Owned(NoEntry, 1) /\ 1 \in 0 .. MaxSignIns
      BY NoEntryFits, BoundAssumption DEF Owned
    <2> QED
      BY <2>1, <2>2, NoEntryFits, AskedOwned DEF MenuKept
  <1>2. MenuKept => MenuOfAccount
    BY DEF MenuKept, MenuOfAccount, Owned, Loaded
  <1> QED
    BY <1>1, <1>2, InitTyped, TypingStep, MenuStep, PTL DEF Spec

-----------------------------------------------------------------------------
(* No page is behind.  What Covered says of a call c whose record is k, when *)
(* the answer is e, the calls in x are excused and t says whether the answer *)
(* is on display.                                                            *)
AheadOf(k) ==
    \E i \in DOMAIN StepsOf(k) :
        k.stage \in {"done", "callback"} /\ i >= k.next /\ watched \in StepsOf(k)[i]

MissableOf(c, k, x) ==
    <<watched, k.act>> \in Overlooked \/ c \in x \/ k.closure # k.act

SureOf(c, k, x) == AheadOf(k) \/ MissableOf(c, k, x)

CoverFits(c, k, e, x, t) ==
    /\ e.held /\ c \in e.missing =>
           \/ e.flight = "sent"
           \/ e.flight = "answered" /\ c \notin e.brings
           \/ SureOf(c, k, x)
           \/ ~t /\ e.invalid
    /\ e.flight = "answered" /\ c \in e.brings => SureOf(c, k, x)

AllCovered == \A c \in Calls : CoverFits(c, calls[c], entry, excused, shown)

LEMMA CoveredIs == RestFits => (Covered <=> AllCovered)
  <1> SUFFICES ASSUME RestFits PROVE Covered <=> AllCovered
    OBVIOUS
  <1>1. \A c : Sure(c) <=> SureOf(c, calls[c], excused)
    BY DEF Sure, SureOf, Ahead, AheadOf, Missable, MissableOf, Steps, StepsOf
  <1>2. \A c : Coming(c) \/ Missable(c) <=>
                   \/ entry.flight = "sent"
                   \/ entry.flight = "answered" /\ c \notin entry.brings
                   \/ SureOf(c, calls[c], excused)
    BY <1>1 DEF Coming, Sure
  <1>3. entry.missing \subseteq Calls /\ entry.brings \subseteq Calls
    BY DEF RestFits, Records, Entries
  <1> QED
    BY <1>1, <1>2, <1>3 DEF Covered, AllCovered, CoverFits

(* The same of the next state.                                              *)
LEMMA CoveredNext ==
    ASSUME Steady, \A c \in Calls : CoverFits(c, calls'[c], entry', excused', shown')
    PROVE  AllCovered'
  BY SteadyTables DEF AllCovered, CoverFits, SureOf, AheadOf, MissableOf, StepsOf, Steady

LEMMA SteadyNext == [Next]_vars => Steady
  <1> SUFFICES ASSUME [Next]_vars PROVE Steady
    OBVIOUS
  <1>1. CASE UNCHANGED vars
    BY <1>1 DEF vars, Steady
  <1>2. ASSUME NEW c \in Calls, \/ Submit(c) \/ Commit(c) \/ Refuse(c) \/ Lose(c)
                                \/ Respond(c) \/ Callback(c) \/ Settle(c)
        PROVE  Steady
    BY <1>2 DEF Submit, Commit, Refuse, Lose, Respond, Callback, Settle, Steady
  <1>3. CASE Visit \/ Enable \/ Serve \/ Arrive \/ Resend \/ Fail \/ Pass \/ AskAgain
    BY <1>3 DEF Visit, Enable, Serve, Arrive, Resend, Fail, Pass, AskAgain, Steady
  <1>4. CASE Reload \/ Logout \/ RefreshFails \/ SignIn
    BY <1>4 DEF Reload, Logout, RefreshFails, ToLogin, SignIn, Steady
  <1> QED
    BY <1>1, <1>2, <1>3, <1>4 DEF Next

(* A call that has committed and is not answered will be asked for.         *)
LEMMA DoneIsSure ==
    ASSUME RestFits, NEW c \in Calls, NEW k, NEW e, NEW x, Fits(c, k, e, x),
           k.stage = "done", c \in e.missing \cup e.brings
    PROVE  SureOf(c, k, x)
  <1> SUFFICES ASSUME k.closure = k.act, <<watched, k.act>> \notin Overlooked
               PROVE  AheadOf(k)
    BY DEF SureOf, MissableOf
  <1>1. k.act \in Relevant /\ Changes(app, k.act, watched) /\ k.next = 1 /\ k.act \in DOMAIN Acts
    BY DEF Fits
  <1>2. watched \in RefreshesOf(Acts[k.act])
    BY <1>1, ChangeFacts DEF RestFits
  <1>3. PICK i \in DOMAIN StepsOf(k) : watched \in StepsOf(k)[i]
    BY <1>2 DEF RefreshesOf, StepsOf
  <1>4. i >= 1
    <2>1. DOMAIN StepsOf(k) = 1 .. Len(StepsOf(k)) /\ Len(StepsOf(k)) \in 0 .. 4
      BY <1>1, CallbackFacts, TableFacts DEF StepsOf, RestFits
    <2> QED
      BY <1>3, <2>1
  <1> QED
    BY <1>1, <1>3, <1>4 DEF AheadOf

LEMMA RedrawnIsSure ==
    ASSUME RestFits, NEW c \in Calls, NEW k, NEW l, NEW x, NEW y, NEW f,
           Redrawn(k, l), SureOf(c, k, x), x \subseteq y,
           Fits(c, l, f, y), c \in f.missing \cup f.brings
    PROVE  SureOf(c, l, y)
  <1>1. CASE k.stage = "done"
    BY <1>1, DoneIsSure DEF Redrawn
  <1>2. CASE k.stage # "done"
    <2>1. k.stage # "sent"
      BY DEF Redrawn, Fits
    <2>2. l.closure = k.closure /\ l.act = k.act /\ l.stage = k.stage /\ l.next = k.next
      BY <1>2, <2>1 DEF Redrawn
    <2> QED
      BY <2>2 DEF SureOf, AheadOf, MissableOf, StepsOf
  <1> QED
    BY <1>1, <1>2

(* The answer is as it was, or off display, and its calls are redrawn.      *)
LEMMA RedrawnCovered ==
    ASSUME RestFits, NEW c \in Calls, NEW k, NEW l, NEW x, NEW y, NEW e, NEW s, NEW t,
           CoverFits(c, k, e, x, s), Redrawn(k, l), x \subseteq y, Fits(c, l, e, y), t => s
    PROVE  CoverFits(c, l, e, y, t)
  <1>1. c \in e.missing \cup e.brings /\ SureOf(c, k, x) => SureOf(c, l, y)
    BY RedrawnIsSure
  <1> QED
    BY <1>1 DEF CoverFits

LEMMA AskedCovered ==
    ASSUME NEW c, NEW k, NEW e, NEW f, NEW x, NEW t, NEW who, Asked(e, f, who)
    PROVE  CoverFits(c, k, f, x, t)
  BY DEF Asked, CoverFits

(* The answer is asked for, if need be, when it comes on display.           *)
LEMMA MountedCovered ==
    ASSUME NEW c, NEW k, NEW x, NEW s, NEW t, NEW e \in Records, NEW who \in 0 .. MaxSignIns,
           CoverFits(c, k, e, x, s)
    PROVE  CoverFits(c, k, Mounted(e, who), x, t)
  <1>1. CASE Stale(e) /\ e.flight = "none"
    BY <1>1, MountedAsks, AskedCovered
  <1>2. CASE ~(Stale(e) /\ e.flight = "none")
    <2>1. Mounted(e, who) = e
      BY <1>2, MountedAsks
    <2>2. e.flight \in {"none", "sent", "answered"}
      BY DEF Records, Entries
    <2> QED
      BY <1>2, <2>1, <2>2 DEF CoverFits, Stale
  <1> QED
    BY <1>1, <1>2

(* A page opens.                                                            *)
LEMMA OpenCovered ==
    ASSUME Typing, Typing', Steady, NEW p \in DOMAIN PagesOf[app], NEW e \in Records,
           NEW ks \in [Calls -> CallRecords], Open(p, e, ks),
           \A c \in Calls : CoverFits(c, ks[c], e, excused', shown)
    PROVE  AllCovered'
  <1>1. RestFits /\ account \in 0 .. MaxSignIns
    BY TypingIs, AccountFits
  <1>2. /\ entry' = e \/ entry' = Mounted(e, account)
        /\ ~shown /\ shown' => entry' = Mounted(e, account)
        /\ \A c \in Calls : Redrawn(ks[c], calls'[c])
        /\ shown' \in BOOLEAN
    BY <1>1, OpenDoes
  <1>3. ASSUME NEW c \in Calls
        PROVE  CoverFits(c, ks[c], entry', excused', shown) \/ (shown' /\ ~shown)
    BY <1>1, <1>2, MountedCovered
  <1>4. ASSUME NEW c \in Calls
        PROVE  CoverFits(c, ks[c], entry', excused', shown')
    <2>1. CASE shown' => shown
      BY <1>3, <2>1 DEF CoverFits
    <2>2. CASE shown' /\ ~shown
      BY <1>1, <1>2, <2>2, MountedCovered
    <2> QED
      BY <2>1, <2>2
  <1>5. \A c \in Calls : Fits(c, calls'[c], entry', excused')
    BY FitsNext
  <1>6. ASSUME NEW c \in Calls
        PROVE  CoverFits(c, calls'[c], entry', excused', shown')
    BY <1>1, <1>2, <1>4, <1>5, RedrawnCovered
  <1> QED
    BY <1>6, CoveredNext

(* A callback refreshes keys.                                               *)
LEMMA RefreshCovered ==
    ASSUME RestFits, NEW c, NEW k, NEW l, NEW keys, NEW x,
           CoverFits(c, k, entry, excused, shown),
           watched \notin keys /\ SureOf(c, k, excused) => SureOf(c, l, x),
           watched \in keys /\ Refreshed(keys).flight = "answered"
               /\ c \in Refreshed(keys).brings => SureOf(c, l, x)
    PROVE  CoverFits(c, l, Refreshed(keys), x, shown)
  <1> DEFINE f == Refreshed(keys)
  <1>1. /\ f.held = entry.held /\ f.missing = entry.missing
        /\ watched \notin keys => f = entry
        /\ watched \in keys => f.invalid = entry.held
        /\ watched \in keys /\ Refetches /\ Restarts(entry) => f.flight = "sent" /\ f.brings = {}
    BY RefreshedDoes
  <1>2. shown => Refetches
    BY DEF Refetches
  <1> HIDE DEF f
  <1>3. CASE watched \notin keys
    <2>1. f = entry
      BY <1>1, <1>3
    <2>2. SureOf(c, k, excused) => SureOf(c, l, x)
      BY <1>3
    <2>3. CoverFits(c, l, entry, x, shown)
      BY <2>2 DEF CoverFits
    <2> QED
      BY <2>1, <2>3 DEF f
  <1>4. CASE watched \in keys /\ Refetches /\ Restarts(entry)
    <2>1. CoverFits(c, l, f, x, shown)
      BY <1>1, <1>4 DEF CoverFits
    <2> QED
      BY <2>1 DEF f
  <1>5. CASE watched \in keys /\ ~(Refetches /\ Restarts(entry))
    <2>1. f.flight = "answered" /\ c \in f.brings => SureOf(c, l, x)
      BY <1>5 DEF f
    <2>2. f.held => ~shown /\ f.invalid
      BY <1>1, <1>2, <1>5 DEF Restarts
    <2>3. CoverFits(c, l, f, x, shown)
      BY <2>1, <2>2 DEF CoverFits
    <2> QED
      BY <2>3 DEF f
  <1> QED
    BY <1>3, <1>4, <1>5

(* ...among them those of the calls whose callback it is not.               *)
LEMMA OtherCovered ==
    ASSUME RestFits, NEW d, NEW k, NEW keys, NEW x, excused \subseteq x,
           CoverFits(d, k, entry, excused, shown)
    PROVE  CoverFits(d, k, Refreshed(keys), x, shown)
  <1>1. SureOf(d, k, excused) => SureOf(d, k, x)
    BY DEF SureOf, MissableOf
  <1>2. Refreshed(keys).flight = "answered" /\ d \in Refreshed(keys).brings
            => entry.flight = "answered" /\ d \in entry.brings
    BY RefreshedDoes
  <1>3. Refreshed(keys).flight = "answered" /\ d \in Refreshed(keys).brings => SureOf(d, k, x)
    BY <1>1, <1>2 DEF CoverFits
  <1> QED
    BY <1>1, <1>3, RefreshCovered

(* A step that refreshes something else leaves the callback as sure.        *)
LEMMA StepStaysSure ==
    ASSUME Typing, NEW c \in Calls, StepIsDue(c), Step(c), excused \subseteq excused',
           watched \notin Steps(c)[calls[c].next], SureOf(c, calls[c], excused)
    PROVE  SureOf(c, calls'[c], excused')
  <1>1. RestFits /\ Fits(c, calls[c], entry, excused)
    BY TypingIs DEF AllFit
  <1>2. /\ calls'[c].act = calls[c].act /\ calls'[c].closure = calls[c].closure
        /\ calls'[c].stage = "callback" /\ calls'[c].next = calls[c].next + 1
    BY StepDoes
  <1>3. calls[c].stage \in {"done", "callback"} /\ calls[c].next \in 1 .. Len(Steps(c))
    BY DEF StepIsDue
  <1>4. CASE MissableOf(c, calls[c], excused)
    BY <1>2, <1>4 DEF SureOf, MissableOf
  <1>5. CASE AheadOf(calls[c])
    <2>1. PICK i \in DOMAIN StepsOf(calls[c]) :
              i >= calls[c].next /\ watched \in StepsOf(calls[c])[i]
      BY <1>5 DEF AheadOf
    <2>2. StepsOf(calls'[c]) = StepsOf(calls[c]) /\ StepsOf(calls[c]) = Steps(c)
      BY <1>2 DEF StepsOf, Steps
    <2>3. i # calls[c].next
      BY <2>1, <2>2
    <2>4. i \in Nat /\ calls[c].next \in Nat
      <3>1. calls[c].closure \in DOMAIN Acts /\ app \in Apps
        BY <1>1, <1>3, TableFacts DEF RestFits, Fits
      <3>2. DOMAIN StepsOf(calls[c]) = 1 .. Len(StepsOf(calls[c]))
            /\ Len(StepsOf(calls[c])) \in 0 .. 4
        BY <3>1, CallbackFacts DEF StepsOf
      <3> QED
        BY <1>3, <2>1, <2>2, <3>2
    <2>5. i >= calls[c].next + 1
      BY <2>1, <2>3, <2>4
    <2> QED
      BY <1>2, <2>1, <2>2, <2>5 DEF SureOf, AheadOf
  <1> QED
    BY <1>4, <1>5 DEF SureOf

LEMMA StepCovered ==
    ASSUME Typing, Typing', Steady, AllCovered, NEW c \in Calls, StepIsDue(c), Step(c)
    PROVE  AllCovered'
  <1>1. RestFits /\ RestFits' /\ \A d \in Calls : Fits(d, calls'[d], entry', excused')
    BY TypingIs, FitsNext
  <1> DEFINE keys == Steps(c)[calls[c].next]
  <1>2. /\ entry' = Refreshed(keys) /\ Excuse(c, keys, Refreshed(keys))
        /\ shown' = shown
    BY DEF Step
  <1>3. excused \subseteq excused' /\ excused' \subseteq Calls
    BY <1>1, <1>2, ExcuseIs
  <1>4. ASSUME NEW d \in Calls \ {c}
        PROVE  CoverFits(d, calls'[d], entry', excused', shown')
    <2>1. Redrawn(calls[d], calls'[d])
      BY StepDoes
    <2>2. CoverFits(d, calls[d], entry, excused, shown)
      BY DEF AllCovered
    <2> HIDE DEF keys
    <2>3. CoverFits(d, calls[d], entry', excused', shown)
      BY <1>1, <1>2, <1>3, <2>2, OtherCovered
    <2> QED
      BY <1>1, <1>2, <2>1, <2>3, RedrawnCovered
  <1>5. CoverFits(c, calls'[c], entry', excused', shown')
    <2>3. watched \notin keys /\ SureOf(c, calls[c], excused)
              => SureOf(c, calls'[c], excused')
      BY <1>3, StepStaysSure
    <2>4. watched \in keys /\ Refreshed(keys).flight = "answered" /\ c \in Refreshed(keys).brings
              => c \in excused'
      BY <1>2 DEF Excuse
    <2>5. c \in excused' => SureOf(c, calls'[c], excused')
      BY DEF SureOf, MissableOf
    <2>6. CoverFits(c, calls[c], entry, excused, shown)
      BY DEF AllCovered
    <2> HIDE DEF keys
    <2> QED
      BY <1>1, <1>2, <2>3, <2>4, <2>5, <2>6, RefreshCovered
  <1> QED
    BY <1>4, <1>5, CoveredNext

(* A callback that has nothing more to ask of the answer ends.              *)
LEMMA SettledCovered ==
    ASSUME Typing, Typing', Steady, AllCovered, NEW c \in Calls, NEW keys,
           calls[c].stage \in {"done", "callback"}, Excuse(c, keys, Refreshed(keys)),
           watched \notin keys => ~AheadOf(calls[c]),
           Open(Goes(c), Refreshed(keys), [calls EXCEPT ![c].stage = "settled"])
    PROVE  AllCovered'
  <1>1. RestFits /\ AllFit /\ Fits(c, calls[c], entry, excused)
    BY TypingIs DEF AllFit
  <1> DEFINE l == [calls[c] EXCEPT !.stage = "settled"]
             ks == [calls EXCEPT ![c] = l]
             e == Refreshed(keys)
  <1>2. /\ l \in CallRecords /\ l.stage = "settled" /\ l.act = calls[c].act
        /\ l.closure = calls[c].closure
    BY <1>1, StageFits DEF Fits, Staged
  <1>3. Open(Goes(c), e, ks)
    BY <1>1 DEF RestFits, CallsAll
  <1> HIDE DEF l
  <1>4. ks \in [Calls -> CallRecords] /\ \A d \in Calls : ks[d] = IF d = c THEN l ELSE calls[d]
    BY <1>1, <1>2 DEF RestFits, CallsAll, AllFit, Fits
  <1>5. Goes(c) \in DOMAIN PagesOf[app]
    BY <1>1, TableFacts DEF Goes, Fits, RestFits
  <1>6. e \in Records
    BY <1>1, RefreshedDoes
  <1>7. excused \subseteq excused'
    BY <1>1, ExcuseIs
  <1>8. CoverFits(c, l, e, excused', shown)
    <2>1. CoverFits(c, calls[c], entry, excused, shown)
      BY DEF AllCovered
    <2>2. watched \notin keys /\ SureOf(c, calls[c], excused) => SureOf(c, l, excused')
      BY <1>2, <1>7 DEF SureOf, MissableOf
    <2>3. watched \in keys /\ Refreshed(keys).flight = "answered"
              /\ c \in Refreshed(keys).brings => SureOf(c, l, excused')
      BY DEF Excuse, SureOf, MissableOf
    <2> HIDE DEF ks
    <2> QED
      BY <1>1, <2>1, <2>2, <2>3, RefreshCovered
  <1>9. ASSUME NEW d \in Calls \ {c}
        PROVE  CoverFits(d, calls[d], e, excused', shown)
    BY <1>1, <1>7, OtherCovered DEF AllCovered
  <1> HIDE DEF ks, e
  <1>10. \A d \in Calls : CoverFits(d, ks[d], e, excused', shown)
    BY <1>4, <1>8, <1>9
  <1> QED
    BY <1>3, <1>4, <1>5, <1>6, <1>10, OpenCovered

LEMMA RespondCovered ==
    ASSUME Typing, Typing', AllCovered, NEW c \in Calls, Respond(c)
    PROVE  AllCovered'
  <1>1. CASE StepIsDue(c) /\ Step(c)
    BY <1>1, RespondIs, StepCovered
  <1>2. CASE StepThrough(c)
    <2> DEFINE keys == RefreshesOf(Acts[calls[c].closure])
    <2>1. /\ Open(Goes(c), Refreshed(keys), [calls EXCEPT ![c].stage = "settled"])
          /\ Excuse(c, keys, Refreshed(keys))
      BY <1>2 DEF StepThrough
    <2>2. watched \notin keys => ~AheadOf(calls[c])
      BY DEF AheadOf, RefreshesOf, StepsOf
    <2>3. Steady /\ calls[c].stage = "done"
      BY RespondIs
    <2> HIDE DEF keys
    <2> QED
      BY <2>1, <2>2, <2>3, SettledCovered
  <1> QED
    BY <1>1, <1>2, RespondIs

(* A callback that has done all its steps has nothing ahead.                *)
LEMMA PastIsNotAhead ==
    ASSUME Typing, NEW c \in Calls, calls[c].stage = "callback",
           calls[c].next > Len(Steps(c))
    PROVE  ~AheadOf(calls[c])
  <1>1. RestFits /\ Fits(c, calls[c], entry, excused)
    BY TypingIs DEF AllFit
  <1>2. calls[c].closure \in DOMAIN Acts /\ app \in Apps
    BY <1>1, TableFacts DEF RestFits, Fits
  <1>3. /\ DOMAIN StepsOf(calls[c]) = 1 .. Len(StepsOf(calls[c]))
        /\ Len(StepsOf(calls[c])) \in 0 .. 4
    BY <1>2, CallbackFacts DEF StepsOf
  <1>4. calls[c].next \in 1 .. Len(StepsOf(calls[c])) + 1
        /\ calls[c].next > Len(StepsOf(calls[c]))
    BY <1>1 DEF Fits, Steps, StepsOf
  <1> DEFINE m == Len(StepsOf(calls[c]))
  <1>5. \A i \in 1 .. m : ~(i >= calls[c].next)
    <2> HIDE DEF m
    <2> QED
      BY <1>3, <1>4 DEF m
  <1> QED
    BY <1>3, <1>5 DEF AheadOf

LEMMA SettleCovered ==
    ASSUME Typing, Typing', AllCovered, NEW c \in Calls, Settle(c)
    PROVE  AllCovered'
  <1>1. /\ calls[c].stage = "callback" /\ calls[c].next > Len(Steps(c)) /\ Steady
        /\ Open(Goes(c), entry, [calls EXCEPT ![c].stage = "settled"]) /\ excused' = excused
    BY DEF Settle, Steady
  <1>2. RestFits /\ Fits(c, calls[c], entry, excused)
    BY TypingIs DEF AllFit
  <1>3. Refreshed({}) = entry
    BY DEF Refreshed
  <1>4. Excuse(c, {}, Refreshed({}))
    BY <1>1 DEF Excuse
  <1>5. ~AheadOf(calls[c])
    BY <1>1, PastIsNotAhead
  <1> QED
    BY <1>1, <1>3, <1>4, <1>5, SettledCovered

LEMMA EnableCovered == ASSUME Typing, Typing', AllCovered, Enable PROVE AllCovered'
  <1>1. RestFits /\ account \in 0 .. MaxSignIns /\ entry \in Records
    BY TypingIs, AccountFits DEF RestFits
  <1>2. \A c \in Calls : CoverFits(c, calls[c], Mounted(entry, account), excused, TRUE)
    BY <1>1, MountedCovered DEF AllCovered
  <1>3. /\ entry' = Mounted(entry, account) /\ shown' = TRUE /\ UNCHANGED <<calls, excused>>
        /\ Steady
    BY DEF Enable, Steady
  <1> QED
    BY <1>2, <1>3, CoveredNext

LEMMA VisitCovered == ASSUME Typing, Typing', AllCovered, Visit PROVE AllCovered'
  <1>1. RestFits /\ AllFit /\ Steady /\ excused' = excused
    BY TypingIs DEF Visit, Steady
  <1>2. PICK p \in PagesOn[<<app, watched>>] : Open(p, entry, calls)
    BY DEF Visit
  <1>3. p \in DOMAIN PagesOf[app]
    BY <1>1, TableFacts DEF RestFits
  <1>4. entry \in Records /\ calls \in [Calls -> CallRecords]
    BY <1>1 DEF RestFits, AllFit, Fits, CallsAll
  <1> QED
    BY <1>1, <1>2, <1>3, <1>4, OpenCovered DEF AllCovered

LEMMA SignInCovered == ASSUME Typing, AllCovered, SignIn PROVE AllCovered'
  <1>1. RestFits /\ entry \in Records /\ account + 1 \in 0 .. MaxSignIns
    BY TypingIs, BoundAssumption DEF RestFits, SignIn
  <1>2. \A c \in Calls : CoverFits(c, calls[c], Mounted(entry, account + 1), excused, TRUE)
    BY <1>1, MountedCovered DEF AllCovered
  <1>3. /\ entry' = Mounted(entry, account + 1) /\ shown' = TRUE /\ UNCHANGED <<calls, excused>>
        /\ Steady
    BY DEF SignIn, Steady
  <1> QED
    BY <1>2, <1>3, CoveredNext

(* A call that is not missing is covered.                                   *)
LEMMA PresentCovered ==
    ASSUME NEW c, NEW k, NEW e, NEW x, NEW t, c \notin e.missing \cup e.brings
    PROVE  CoverFits(c, k, e, x, t)
  BY DEF CoverFits

LEMMA ExcusedCovered ==
    ASSUME NEW c, NEW k, NEW e, NEW x, NEW t, c \in x
    PROVE  CoverFits(c, k, e, x, t)
  BY DEF CoverFits, SureOf, MissableOf

(* Only the call c changes.                                                 *)
LEMMA OneCallCovered ==
    ASSUME AllCovered, Steady, NEW c \in Calls, excused \subseteq excused',
           UNCHANGED <<entry, shown>>, \A d \in Calls \ {c} : calls'[d] = calls[d],
           CoverFits(c, calls'[c], entry', excused', shown')
    PROVE  AllCovered'
  <1>1. ASSUME NEW d \in Calls \ {c}
        PROVE  CoverFits(d, calls'[d], entry', excused', shown')
    <2>1. SureOf(d, calls[d], excused) => SureOf(d, calls[d], excused')
      BY DEF SureOf, MissableOf
    <2>2. CoverFits(d, calls[d], entry, excused', shown)
      BY <2>1 DEF AllCovered, CoverFits
    <2> QED
      BY <2>2
  <1> QED
    BY <1>1, CoveredNext

LEMMA SentCovered ==
    ASSUME Typing, AllCovered, NEW c \in Calls, Submit(c) \/ Refuse(c) \/ Lose(c)
    PROVE  AllCovered'
  <1>1. RestFits /\ Fits(c, calls[c], entry, excused)
    BY TypingIs DEF AllFit
  <1>2. Steady /\ UNCHANGED <<entry, shown>> /\ \A d \in Calls \ {c} : calls'[d] = calls[d]
    BY <1>1 DEF Submit, Refuse, Lose, Steady, RestFits, CallsAll
  <1>3. excused \subseteq excused'
    BY DEF Submit, Refuse, Lose
  <1>4. CASE Submit(c) \/ Refuse(c)
    <2>1. c \notin entry'.missing \cup entry'.brings
      BY <1>1, <1>2, <1>4 DEF Submit, Refuse, Fits
    <2> QED
      BY <1>2, <1>3, <2>1, PresentCovered, OneCallCovered
  <1>5. CASE Lose(c)
    <2>1. c \in excused'
      BY <1>5 DEF Lose
    <2> QED
      BY <1>2, <1>3, <2>1, ExcusedCovered, OneCallCovered
  <1> QED
    BY <1>4, <1>5

LEMMA CommitCovered ==
    ASSUME Typing, Typing', AllCovered, NEW c \in Calls, Commit(c)
    PROVE  AllCovered'
  <1>1. RestFits /\ Fits(c, calls[c], entry, excused)
    BY TypingIs DEF AllFit
  <1>2. /\ Steady /\ UNCHANGED <<shown, excused>>
        /\ \A d \in Calls \ {c} : calls'[d] = calls[d]
        /\ calls[c].stage \in {"sent", "orphan"}
    BY <1>1 DEF Commit, Steady, RestFits, CallsAll
  <1>3. Fits(c, calls'[c], entry', excused') /\ RestFits
    BY <1>1, <1>2, FitsNext
  <1>4. CoverFits(c, calls'[c], entry', excused', shown')
    <2>1. CASE calls[c].stage = "orphan"
      <3>1. c \in excused'
        BY <1>1, <1>2, <2>1 DEF Fits
      <3> QED
        BY <3>1, ExcusedCovered
    <2>2. CASE calls[c].stage = "sent"
      <3>1. calls'[c].stage = "done"
        BY <1>1, <2>2 DEF Commit, RestFits, CallsAll, Fits, CallRecords
      <3>2. CASE c \in entry'.missing \cup entry'.brings
        <4>1. SureOf(c, calls'[c], excused')
          BY <1>1, <1>3, <3>1, <3>2, DoneIsSure
        <4> QED
          BY <4>1 DEF CoverFits
      <3>3. CASE c \notin entry'.missing \cup entry'.brings
        BY <3>3, PresentCovered
      <3> QED
        BY <3>2, <3>3
    <2> QED
      BY <1>2, <2>1, <2>2
  <1>5. ASSUME NEW d \in Calls \ {c}
        PROVE  CoverFits(d, calls'[d], entry', excused', shown')
    <2>1. CoverFits(d, calls[d], entry, excused, shown)
      BY DEF AllCovered
    <2>2. /\ entry'.held = entry.held /\ entry'.flight = entry.flight
          /\ entry'.invalid = entry.invalid
          /\ d \in entry'.missing => d \in entry.missing
          /\ d \in entry'.brings => d \in entry.brings
          /\ d \in entry.brings /\ entry.flight = "answered" => d \in entry'.brings
      <3>1. CASE entry' = entry
        BY <3>1
      <3>2. CASE entry' = Overtaken(entry, c)
        <4>1. entry \in Records
          BY <1>1 DEF RestFits
        <4>2. /\ entry'.held = entry.held /\ entry'.flight = entry.flight
              /\ entry'.invalid = entry.invalid
              /\ entry'.missing = IF entry.held THEN entry.missing \cup {c} ELSE entry.missing
              /\ entry'.brings = IF entry.flight = "answered" THEN entry.brings \cup {c}
                                 ELSE entry.brings
          BY <3>2, <4>1, OvertakenFits
        <4> QED
          BY <4>2
      <3> QED
        BY <3>1, <3>2 DEF Commit
    <2>3. d \notin entry.brings => d \notin entry'.brings
      BY <2>2
    <2> QED
      BY <1>2, <2>1, <2>2, <2>3 DEF CoverFits
  <1> QED
    BY <1>2, <1>4, <1>5, CoveredNext

(* The request for the answer, and time.                                    *)
LEMMA ArriveCovered == ASSUME Typing, Typing', AllCovered, Arrive PROVE AllCovered'
  <1>1. RestFits /\ Steady /\ UNCHANGED <<shown, excused>>
    BY TypingIs DEF Arrive, Steady
  <1>2. entry.flight = "answered" /\ entry'.flight = "none" /\ entry'.missing = entry.brings
    BY <1>1, ArrivedFits DEF Arrive, RestFits
  <1>3. ASSUME NEW c \in Calls
        PROVE  CoverFits(c, calls'[c], entry', excused', shown')
    <2>1. Redrawn(calls[c], calls'[c])
      BY StillWaitingRedraws DEF Arrive
    <2>2. c \in entry.brings => SureOf(c, calls[c], excused)
      BY <1>2 DEF AllCovered, CoverFits
    <2>3. Fits(c, calls'[c], entry', excused')
      BY <1>1, FitsNext
    <2>4. c \in entry'.missing => SureOf(c, calls'[c], excused')
      BY <1>1, <1>2, <2>1, <2>2, <2>3, RedrawnIsSure
    <2> QED
      BY <1>2, <2>4 DEF CoverFits
  <1> QED
    BY <1>1, <1>3, CoveredNext

LEMMA FailCovered == ASSUME Typing, Typing', AllCovered, Fail PROVE AllCovered'
  <1>1. RestFits /\ Steady /\ shown' = shown
    BY TypingIs DEF Fail, Steady
  <1>2. /\ entry'.flight = "none" /\ entry'.missing = entry.missing
        /\ excused' = excused \cup {c \in entry.missing : ~Ahead(c)}
    BY <1>1, FailedFits DEF Fail, RestFits
  <1>3. ASSUME NEW c \in Calls
        PROVE  CoverFits(c, calls'[c], entry', excused', shown')
    <2>1. Redrawn(calls[c], calls'[c])
      BY StillWaitingRedraws DEF Fail
    <2>2. c \in entry.missing => SureOf(c, calls[c], excused')
      BY <1>2 DEF SureOf, MissableOf, AheadOf, Ahead, Steps, StepsOf
    <2>3. Fits(c, calls'[c], entry', excused')
      BY <1>1, FitsNext
    <2>4. c \in entry'.missing => SureOf(c, calls'[c], excused')
      BY <1>1, <1>2, <2>1, <2>2, <2>3, RedrawnIsSure
    <2> QED
      BY <1>2, <2>4 DEF CoverFits
  <1> QED
    BY <1>1, <1>3, CoveredNext

LEMMA RequestCovered ==
    ASSUME Typing, AllCovered, Serve \/ Resend \/ Pass \/ AskAgain
    PROVE  AllCovered'
  <1>1. RestFits /\ entry \in Records /\ account \in 0 .. MaxSignIns
    BY TypingIs, AccountFits DEF RestFits
  <1>2. Steady /\ UNCHANGED <<shown, calls, excused>>
    BY DEF Serve, Resend, Pass, AskAgain, Steady
  <1>3. ASSUME NEW c \in Calls
        PROVE  CoverFits(c, calls[c], entry', excused, shown)
    <2>1. CASE Serve
      BY <1>1, <2>1, AnsweredFits DEF Serve, CoverFits
    <2>2. CASE Resend
      BY <1>1, <2>2, RetriedAsks, AskedCovered DEF Resend
    <2>3. CASE AskAgain
      BY <1>1, <2>3, FetchedAsks, AskedCovered DEF AskAgain
    <2>4. CASE Pass /\ entry' = NoEntry
      BY <2>4, NoEntryFits, PresentCovered
    <2>5. CASE Pass /\ entry' = [entry EXCEPT !.old = TRUE]
      <3>1. Marked(entry, entry') /\ entry'.invalid = entry.invalid
        BY <1>1, <2>5 DEF Marked, Records, Entries
      <3> QED
        BY <3>1 DEF Marked, CoverFits, AllCovered
    <2> QED
      BY <2>1, <2>2, <2>3, <2>4, <2>5 DEF Pass
  <1> QED
    BY <1>2, <1>3, CoveredNext

LEMMA AnewCovered == ASSUME Typing, AllCovered, Reload \/ Logout \/ RefreshFails PROVE AllCovered'
  <1>1. RestFits /\ account \in 0 .. MaxSignIns
    BY TypingIs, AccountFits
  <1>2. Steady
    BY DEF Reload, Logout, RefreshFails, ToLogin, Steady
  <1>3. CASE Reload \/ Logout
    <2>1. entry' = NoEntry \/ entry' = Mounted(NoEntry, account)
      BY <1>3 DEF Reload, Logout
    <2>2. entry'.missing = {} /\ entry'.brings = {}
      BY <1>1, <2>1, AnewFits
    <2>3. \A c \in Calls : CoverFits(c, calls'[c], entry', excused', shown')
      BY <2>2, PresentCovered
    <2> QED
      BY <1>2, <2>3, CoveredNext
  <1>4. CASE RefreshFails
    <2>1. UNCHANGED <<calls, entry, excused>> /\ ~shown'
      BY <1>4 DEF RefreshFails, ToLogin
    <2>2. \A c \in Calls : CoverFits(c, calls[c], entry, excused, shown')
      BY <2>1 DEF AllCovered, CoverFits
    <2> QED
      BY <1>2, <2>1, <2>2, CoveredNext
  <1> QED
    BY <1>3, <1>4

LEMMA CoveredStep == Typing /\ Covered /\ [Next]_vars => Covered'
  <1> SUFFICES ASSUME Typing, Covered, [Next]_vars PROVE Covered'
    OBVIOUS
  <1>1. Typing' /\ AllCovered
    BY TypingStep, TypingIs, CoveredIs
  <1>2. AllCovered'
    <2>1. CASE UNCHANGED vars
      <3>1. Steady /\ UNCHANGED <<calls, entry, excused, shown>>
        BY <2>1 DEF vars, Steady
      <3> QED
        BY <1>1, <3>1, CoveredNext DEF AllCovered
    <2>2. ASSUME NEW c \in Calls, Submit(c) \/ Refuse(c) \/ Lose(c) \/ Commit(c)
          PROVE  AllCovered'
      BY <1>1, <2>2, SentCovered, CommitCovered
    <2>3. ASSUME NEW c \in Calls, Respond(c) \/ Callback(c) \/ Settle(c)
          PROVE  AllCovered'
      BY <1>1, <2>3, RespondCovered, CallbackIs, StepCovered, SettleCovered
    <2>4. CASE Visit \/ Enable \/ Arrive \/ Fail
      BY <1>1, <2>4, VisitCovered, EnableCovered, ArriveCovered, FailCovered
    <2>5. CASE Serve \/ Resend \/ Pass \/ AskAgain
      BY <1>1, <2>5, RequestCovered
    <2>6. CASE Reload \/ Logout \/ RefreshFails \/ SignIn
      BY <1>1, <2>6, AnewCovered, SignInCovered
    <2> QED
      BY <2>1, <2>2, <2>3, <2>4, <2>5, <2>6 DEF Next
  <1>3. RestFits'
    BY <1>1, TypingIs, PTL
  <1> QED
    BY <1>2, <1>3, CoveredIs, PTL

(* What a page shows is never behind a call of its own browser for which    *)
(* the page does not say so: whatever the order of commits, reads, answers, *)
(* failures and page changes, and however many calls are made at once.      *)
THEOREM NothingShownBehind == Spec => []ShownNotBehind
  <1>1. Init => Covered
    <2> SUFFICES ASSUME Init PROVE Covered
      OBVIOUS
    <2>1. entry = NoEntry \/ entry = Mounted(NoEntry, 1)
      BY DEF Init
    <2>2. ~entry.held /\ entry.flight # "answered"
      BY <2>1, AnewFits, BoundAssumption
    <2> QED
      BY <2>2 DEF Covered
  <1>2. Covered => ShownNotBehind
    BY DEF Covered, ShownNotBehind, Loaded
  <1> QED
    BY <1>1, <1>2, InitTyped, TypingStep, CoveredStep, PTL DEF Spec

-----------------------------------------------------------------------------
(* The pages.                                                               *)
LEMMA PlacedNext ==
    ASSUME Steady, signedIn' /\ watched \in PagesOf[app][opened'].now => shown',
           \A c \in Calls : InPart(calls'[c], opened')
    PROVE  Placed'
  BY SteadyTables DEF Placed, InPart, Steady, here

(* The page stays, and so do the mutations that are mounted.                *)
LEMMA StayPlaced ==
    ASSUME Steady, Placed, UNCHANGED <<opened, signedIn>>, shown => shown',
           \A c \in Calls : calls'[c].mounted => calls[c].mounted /\ calls'[c].act = calls[c].act
    PROVE  Placed'
  <1>1. \A c \in Calls : InPart(calls'[c], opened')
    BY DEF Placed, InPart
  <1> QED
    BY <1>1, PlacedNext DEF Placed, here

(* A page opens.                                                            *)
LEMMA OpenPlaced ==
    ASSUME Typing, Placed, Steady, signedIn' = signedIn, NEW p \in DOMAIN PagesOf[app],
           NEW e \in Records, NEW ks \in [Calls -> CallRecords], Open(p, e, ks),
           \A c \in Calls : ks[c].mounted = calls[c].mounted /\ ks[c].act = calls[c].act
    PROVE  Placed'
  <1>1. /\ \A c \in Calls : /\ Redrawn(ks[c], calls'[c])
                            /\ calls'[c].mounted => PagesOf[app][opened'].part = here.part
        /\ \/ opened' = opened /\ shown' = shown
           \/ watched \in PagesOf[app][opened'].now => shown'
    BY TypingIs, OpenDoes
  <1>2. signedIn' /\ watched \in PagesOf[app][opened'].now => shown'
    BY <1>1 DEF Placed, here
  <1>3. ASSUME NEW c \in Calls
        PROVE  InPart(calls'[c], opened')
    BY <1>1 DEF Placed, InPart, Redrawn, here
  <1> QED
    BY <1>2, <1>3, PlacedNext

LEMMA VisitPlaced == ASSUME Typing, Placed, Visit PROVE Placed'
  <1>1. RestFits /\ AllFit /\ Steady /\ signedIn' = signedIn
    BY TypingIs DEF Visit, Steady
  <1>2. PICK p \in PagesOn[<<app, watched>>] : Open(p, entry, calls)
    BY DEF Visit
  <1>3. p \in DOMAIN PagesOf[app]
    BY <1>1, TableFacts DEF RestFits
  <1>4. entry \in Records /\ calls \in [Calls -> CallRecords]
    BY <1>1 DEF RestFits, AllFit, Fits, CallsAll
  <1> QED
    BY <1>1, <1>2, <1>3, <1>4, OpenPlaced

(* The callback of c is over, the page it opens opens.                      *)
LEMMA OverPlaced ==
    ASSUME Typing, Placed, Steady, signedIn' = signedIn, NEW c \in Calls, NEW e \in Records,
           calls[c].stage \in {"done", "callback"},
           Open(Goes(c), e, [calls EXCEPT ![c].stage = "settled"])
    PROVE  Placed'
  <1>1. RestFits /\ AllFit /\ Fits(c, calls[c], entry, excused)
    BY TypingIs DEF AllFit
  <1> DEFINE l == [calls[c] EXCEPT !.stage = "settled"]
             ks == [calls EXCEPT ![c] = l]
  <1>2. l \in CallRecords /\ l.act = calls[c].act /\ l.mounted = calls[c].mounted
    BY <1>1, StageFits DEF Fits, Staged
  <1>3. Open(Goes(c), e, ks)
    BY <1>1 DEF RestFits, CallsAll
  <1> HIDE DEF l
  <1>4. /\ ks \in [Calls -> CallRecords]
        /\ \A d \in Calls : ks[d].mounted = calls[d].mounted /\ ks[d].act = calls[d].act
    BY <1>1, <1>2 DEF RestFits, CallsAll, AllFit, Fits
  <1>5. Goes(c) \in DOMAIN PagesOf[app]
    BY <1>1, TableFacts DEF Goes, Fits, RestFits
  <1> HIDE DEF ks
  <1> QED
    BY <1>3, <1>4, <1>5, OpenPlaced

(* A call is made: its button is on the page.                               *)
LEMMA SubmitPlaced == ASSUME Typing, Placed, NEW c \in Calls, Submit(c) PROVE Placed'
  <1>1. RestFits /\ Steady /\ UNCHANGED <<opened, shown, signedIn>>
    BY TypingIs DEF Submit, Steady
  <1>2. PICK n \in Relevant :
            /\ Offered(n)
            /\ calls' = [calls EXCEPT ![c] = [act |-> n, closure |-> n, stage |-> "sent",
                                              next |-> 1, waiting |-> FALSE, mounted |-> TRUE]]
    BY DEF Submit
  <1>3. calls'[c].act = n /\ \A d \in Calls \ {c} : calls'[d] = calls[d]
    BY <1>1, <1>2 DEF RestFits, CallsAll
  <1>4. InPart(calls'[c], opened)
    BY <1>1, <1>2, <1>3 DEF Offered, InPart, RestFits
  <1>5. \A d \in Calls : InPart(calls'[d], opened')
    BY <1>1, <1>3, <1>4 DEF Placed
  <1> QED
    BY <1>1, <1>5, PlacedNext DEF Placed, here

LEMMA PlacedStep == Typing /\ Placed /\ [Next]_vars => Placed'
  <1> SUFFICES ASSUME Typing, Placed, [Next]_vars PROVE Placed'
    OBVIOUS
  <1>1. RestFits /\ AllFit /\ Steady
    BY TypingIs, SteadyNext
  <1>2. CASE \/ UNCHANGED vars
             \/ Enable \/ Serve \/ Resend \/ Pass \/ AskAgain
    <2>1. UNCHANGED <<opened, signedIn, calls>> /\ (shown => shown')
      BY <1>2 DEF vars, Enable, Serve, Resend, Pass, AskAgain
    <2> QED
      BY <1>1, <2>1, StayPlaced
  <1>3. CASE Arrive \/ Fail
    <2>1. UNCHANGED <<opened, shown, signedIn>> /\ calls' = StillWaiting
      BY <1>3 DEF Arrive, Fail
    <2>2. \A c \in Calls : calls'[c].mounted => calls[c].mounted /\ calls'[c].act = calls[c].act
      BY <2>1, StillWaitingRedraws DEF Redrawn
    <2> QED
      BY <1>1, <2>1, <2>2, StayPlaced
  <1>4. ASSUME NEW c \in Calls, Commit(c) \/ Refuse(c) \/ Lose(c)
        PROVE  Placed'
    <2>1. UNCHANGED <<opened, shown, signedIn>>
      BY <1>4 DEF Commit, Refuse, Lose
    <2>2. \A d \in Calls : calls'[d].mounted = calls[d].mounted /\ calls'[d].act = calls[d].act
      BY <1>1, <1>4 DEF Commit, Refuse, Lose, RestFits, CallsAll, AllFit, Fits, CallRecords
    <2> QED
      BY <1>1, <2>1, <2>2, StayPlaced
  <1>5. ASSUME NEW c \in Calls, Step(c), UNCHANGED signedIn
        PROVE  Placed'
    <2>1. UNCHANGED <<opened, shown, signedIn>>
      BY <1>5 DEF Step
    <2>2. \A d \in Calls : calls'[d].mounted = calls[d].mounted /\ calls'[d].act = calls[d].act
      BY <1>5, StepDoes DEF Redrawn
    <2> QED
      BY <1>1, <2>1, <2>2, StayPlaced
  <1>6. ASSUME NEW c \in Calls, Respond(c) \/ Callback(c)
        PROVE  Placed'
    <2>1. CASE Step(c)
      BY <1>5, <1>6, <2>1 DEF Respond, Callback
    <2>2. CASE Respond(c) /\ StepThrough(c)
      <3>1. PICK e \in Records : Open(Goes(c), e, [calls EXCEPT ![c].stage = "settled"])
        BY <1>1, <2>2, RefreshedDoes DEF StepThrough
      <3>2. calls[c].stage = "done" /\ signedIn' = signedIn
        BY <2>2 DEF Respond
      <3> QED
        BY <1>1, <3>1, <3>2, OverPlaced
    <2> QED
      BY <1>6, <2>1, <2>2, RespondIs, CallbackIs
  <1>7. ASSUME NEW c \in Calls, Settle(c)
        PROVE  Placed'
    BY <1>1, <1>7, OverPlaced DEF Settle, RestFits
  <1>8. CASE Reload
    <2>1. /\ opened' = "elsewhere" /\ shown' = (watched \in PagesOf[app]["elsewhere"].now)
          /\ \A c \in Calls : ~calls'[c].mounted
      BY <1>8, ReloadDoes DEF Reload
    <2> QED
      BY <1>1, <2>1, PlacedNext DEF InPart
  <1>9. CASE Logout \/ RefreshFails \/ SignIn
    <2>1. watched = "auth-me" /\ calls' = calls /\ (~signedIn' \/ shown')
      BY <1>1, <1>9 DEF Logout, RefreshFails, ToLogin, SignIn, RestFits, EndsAtMenu
    <2>2. \A c \in Calls : ~calls[c].mounted
      BY <1>1, <2>1, MenuIsQuiet DEF AllFit, Fits
    <2> QED
      BY <1>1, <2>1, <2>2, PlacedNext DEF InPart
  <1> QED
    BY <1>2, <1>3, <1>4, <1>6, <1>7, <1>8, <1>9, VisitPlaced, SubmitPlaced DEF Next

-----------------------------------------------------------------------------
(* What has been done is seen.                                              *)
UnseenOf(c, k, x) == k.mounted /\ k.stage # "done" /\ ~k.waiting /\ ~SureOf(c, k, x)

Awaited == \E d \in Calls : calls[d].waiting

AllSighted == \A c \in Calls : c \in entry.missing /\ UnseenOf(c, calls[c], excused) => Awaited

LEMMA SightedIs == RestFits => (Sighted <=> (Needed => AllSighted))
  <1> SUFFICES ASSUME RestFits PROVE Sighted <=> (Needed => AllSighted)
    OBVIOUS
  <1>1. \A c : Unseen(c) <=> UnseenOf(c, calls[c], excused)
    BY DEF Unseen, UnseenOf, Sure, SureOf, Ahead, AheadOf, Missable, MissableOf, Steps, StepsOf
  <1>2. entry.missing \subseteq Calls
    BY DEF RestFits, Records, Entries
  <1> QED
    BY <1>1, <1>2 DEF Sighted, AllSighted, Awaited

LEMMA SightedNext ==
    ASSUME Steady,
           \A c \in Calls : c \in entry'.missing /\ UnseenOf(c, calls'[c], excused')
                           => \E d \in Calls : calls'[d].waiting
    PROVE  AllSighted'
  BY SteadyTables DEF AllSighted, Awaited, UnseenOf, SureOf, AheadOf, MissableOf, StepsOf, Steady

(* A call that is redrawn, and waits as it did, is seen as it was.          *)
LEMMA RedrawnUnseen ==
    ASSUME RestFits, NEW c \in Calls, NEW k, NEW l, NEW x, NEW y, NEW f,
           Redrawn(k, l), l.waiting = k.waiting, x \subseteq y,
           Fits(c, l, f, y), c \in f.missing, UnseenOf(c, l, y)
    PROVE  UnseenOf(c, k, x)
  <1>1. ~SureOf(c, k, x)
    BY RedrawnIsSure DEF UnseenOf
  <1> QED
    BY <1>1 DEF UnseenOf, Redrawn

(* The calls are redrawn, and nothing more is missing.                      *)
LEMMA KeptSighted ==
    ASSUME Typing, Typing', Steady, AllSighted, entry'.missing \subseteq entry.missing,
           excused \subseteq excused',
           \A c \in Calls : Redrawn(calls[c], calls'[c]) /\ calls'[c].waiting = calls[c].waiting
    PROVE  AllSighted'
  <1>1. RestFits /\ \A c \in Calls : Fits(c, calls'[c], entry', excused')
    BY TypingIs, FitsNext
  <1>2. ASSUME NEW c \in Calls, c \in entry'.missing, UnseenOf(c, calls'[c], excused')
        PROVE  \E d \in Calls : calls'[d].waiting
    <2>1. UnseenOf(c, calls[c], excused)
      BY <1>1, <1>2, RedrawnUnseen
    <2>2. Awaited
      BY <1>2, <2>1 DEF AllSighted
    <2> QED
      BY <2>2 DEF Awaited
  <1> QED
    BY <1>2, SightedNext

(* One call takes a step of its own, and does not wait: it is seen, or was  *)
(* not; the others are as they were.                                        *)
LEMMA CallSighted ==
    ASSUME Typing, Typing', Steady, AllSighted, NEW c \in Calls, ~calls[c].waiting,
           entry'.missing \subseteq entry.missing \cup {c}, excused \subseteq excused',
           \A d \in Calls \ {c} : Redrawn(calls[d], calls'[d])
                                 /\ calls'[d].waiting = calls[d].waiting,
           c \in entry'.missing /\ UnseenOf(c, calls'[c], excused')
               => c \in entry.missing /\ UnseenOf(c, calls[c], excused)
    PROVE  AllSighted'
  <1>1. RestFits /\ \A d \in Calls : Fits(d, calls'[d], entry', excused')
    BY TypingIs, FitsNext
  <1>2. Awaited => \E d \in Calls : calls'[d].waiting
    BY DEF Awaited
  <1>3. ASSUME NEW d \in Calls, d \in entry'.missing, UnseenOf(d, calls'[d], excused')
        PROVE  Awaited
    <2>1. CASE d = c
      BY <1>3, <2>1 DEF AllSighted
    <2>2. CASE d # c
      <3>1. UnseenOf(d, calls[d], excused)
        BY <1>1, <1>3, <2>2, RedrawnUnseen
      <3> QED
        BY <1>3, <2>2, <3>1 DEF AllSighted
    <2> QED
      BY <2>1, <2>2
  <1> QED
    BY <1>2, <1>3, SightedNext

LEMMA VisitSighted == ASSUME Typing, Typing', AllSighted, Visit PROVE AllSighted'
  <1>1. RestFits /\ AllFit /\ Steady /\ excused' = excused
    BY TypingIs DEF Visit, Steady
  <1>2. PICK p \in PagesOn[<<app, watched>>] : Open(p, entry, calls)
    BY DEF Visit
  <1>3. p \in DOMAIN PagesOf[app]
    BY <1>1, TableFacts DEF RestFits
  <1>4. entry \in Records /\ calls \in [Calls -> CallRecords]
    BY <1>1 DEF RestFits, AllFit, Fits, CallsAll
  <1>5. /\ entry' = entry \/ entry' = Mounted(entry, account)
        /\ \A c \in Calls : Redrawn(calls[c], calls'[c]) /\ calls'[c].waiting = calls[c].waiting
    BY <1>1, <1>2, <1>3, <1>4, OpenDoes
  <1>6. entry'.missing = entry.missing
    BY <1>1, <1>4, <1>5, MountedAsks, AccountFits DEF Asked
  <1> QED
    BY <1>1, <1>5, <1>6, KeptSighted

(* The request, and time: the calls stay as they are.                       *)
LEMMA RequestSighted ==
    ASSUME Typing, Typing', AllSighted,
           UNCHANGED vars \/ Enable \/ Serve \/ Resend \/ Pass \/ AskAgain
    PROVE  AllSighted'
  <1>1. RestFits /\ AllFit /\ entry \in Records /\ account \in 0 .. MaxSignIns
    BY TypingIs, AccountFits DEF RestFits
  <1>2. Steady /\ UNCHANGED <<calls, excused>>
    BY DEF vars, Enable, Serve, Resend, Pass, AskAgain, Steady
  <1>3. entry'.missing \subseteq entry.missing
    <2>1. CASE UNCHANGED vars
      BY <2>1 DEF vars
    <2>2. CASE Enable
      BY <1>1, <2>2, MountedAsks DEF Enable, Asked
    <2>3. CASE Serve
      BY <1>1, <2>3, AnsweredFits DEF Serve
    <2>4. CASE Resend
      BY <1>1, <2>4, RetriedAsks DEF Resend, Asked
    <2>5. CASE AskAgain
      BY <1>1, <2>5, FetchedAsks DEF AskAgain, Asked
    <2>6. CASE Pass
      BY <1>1, <2>6, NoEntryFits DEF Pass, Records, Entries
    <2> QED
      BY <2>1, <2>2, <2>3, <2>4, <2>5, <2>6
  <1>4. \A c \in Calls : Redrawn(calls[c], calls'[c]) /\ calls'[c].waiting = calls[c].waiting
    BY <1>1, <1>2, SameRedrawn DEF AllFit, Fits
  <1> QED
    BY <1>2, <1>3, <1>4, KeptSighted

(* Nothing that the answer lacks now is unseen.                             *)
LEMMA SureSighted ==
    ASSUME Steady, \A c \in Calls : c \in entry'.missing => SureOf(c, calls'[c], excused')
    PROVE  AllSighted'
  BY SightedNext DEF UnseenOf

LEMMA ArriveSighted == ASSUME Typing, Typing', AllCovered, Arrive PROVE AllSighted'
  <1>1. RestFits /\ Steady /\ excused' = excused
    BY TypingIs DEF Arrive, Steady
  <1>2. entry.flight = "answered" /\ entry'.missing = entry.brings
    BY <1>1, ArrivedFits DEF Arrive, RestFits
  <1>3. ASSUME NEW c \in Calls, c \in entry'.missing
        PROVE  SureOf(c, calls'[c], excused')
    <2>1. Redrawn(calls[c], calls'[c])
      BY StillWaitingRedraws DEF Arrive
    <2>2. SureOf(c, calls[c], excused)
      BY <1>2, <1>3 DEF AllCovered, CoverFits
    <2>3. Fits(c, calls'[c], entry', excused')
      BY <1>1, FitsNext
    <2> QED
      BY <1>1, <1>3, <2>1, <2>2, <2>3, RedrawnIsSure
  <1> QED
    BY <1>1, <1>3, SureSighted

LEMMA FailSighted == ASSUME Typing, Typing', Fail PROVE AllSighted'
  <1>1. RestFits /\ Steady
    BY TypingIs DEF Fail, Steady
  <1>2. /\ entry'.missing = entry.missing
        /\ excused' = excused \cup {c \in entry.missing : ~Ahead(c)}
    BY <1>1, FailedFits DEF Fail, RestFits
  <1>3. ASSUME NEW c \in Calls, c \in entry'.missing
        PROVE  SureOf(c, calls'[c], excused')
    <2>1. Redrawn(calls[c], calls'[c])
      BY StillWaitingRedraws DEF Fail
    <2>2. SureOf(c, calls[c], excused')
      BY <1>2, <1>3 DEF SureOf, MissableOf, AheadOf, Ahead, Steps, StepsOf
    <2>3. Fits(c, calls'[c], entry', excused')
      BY <1>1, FitsNext
    <2> QED
      BY <1>1, <1>3, <2>1, <2>2, <2>3, RedrawnIsSure
  <1> QED
    BY <1>1, <1>3, SureSighted

(* The API answers, or the connection breaks.                               *)
LEMMA AnsweredSighted ==
    ASSUME Typing, Typing', AllSighted, NEW c \in Calls,
           Submit(c) \/ Commit(c) \/ Refuse(c) \/ Lose(c)
    PROVE  AllSighted'
  <1>1. RestFits /\ AllFit /\ Fits(c, calls[c], entry, excused)
    BY TypingIs DEF AllFit
  <1>2. /\ Steady /\ excused \subseteq excused' /\ ~calls[c].waiting
        /\ \A d \in Calls \ {c} : calls'[d] = calls[d]
    BY <1>1 DEF Submit, Commit, Refuse, Lose, Steady, RestFits, CallsAll, Fits
  <1>3. entry'.missing \subseteq entry.missing \cup {c}
    <2>1. entry' = entry \/ entry' = Overtaken(entry, c)
      BY DEF Submit, Commit, Refuse, Lose
    <2>2. entry \in Records
      BY <1>1 DEF RestFits
    <2>3. Overtaken(entry, c).missing \subseteq entry.missing \cup {c}
      <3>1. Overtaken(entry, c).missing = IF entry.held THEN entry.missing \cup {c}
                                          ELSE entry.missing
        BY <2>2, OvertakenFits
      <3> QED
        BY <3>1
    <2> QED
      BY <2>1, <2>3
  <1>4. ~(c \in entry'.missing /\ UnseenOf(c, calls'[c], excused'))
    <2>1. CASE Submit(c) \/ Refuse(c)
      BY <1>1, <2>1 DEF Submit, Refuse, Fits
    <2>2. CASE Lose(c) \/ calls[c].stage = "orphan"
      <3>1. c \in excused'
        BY <1>1, <1>2, <2>2 DEF Lose, Fits
      <3> QED
        BY <3>1 DEF UnseenOf, SureOf, MissableOf
    <2>3. CASE Commit(c) /\ calls[c].stage = "sent"
      <3>1. calls'[c].stage = "done"
        BY <1>1, <2>3 DEF Commit, RestFits, CallsAll, Fits, CallRecords
      <3> QED
        BY <3>1 DEF UnseenOf
    <2> QED
      BY <2>1, <2>2, <2>3 DEF Commit
  <1>5. \A d \in Calls \ {c} : Redrawn(calls[d], calls'[d]) /\ calls'[d].waiting = calls[d].waiting
    BY <1>1, <1>2, SameRedrawn DEF AllFit, Fits
  <1> QED
    BY <1>2, <1>3, <1>4, <1>5, CallSighted

(* What a button of the web client needs and a mounted mutation changes is  *)
(* on display, or refetched anyway.                                         *)
LEMMA NeededRefetches ==
    ASSUME Typing, Placed, Needed, NEW d \in Calls, d \in entry.missing, calls[d].mounted,
           <<watched, calls[d].act>> \notin Overlooked
    PROVE  Refetches
  <1>1. RestFits /\ Fits(d, calls[d], entry, excused)
    BY TypingIs DEF AllFit
  <1>2. calls[d].act \in Relevant /\ Changes(app, calls[d].act, watched)
    BY <1>1 DEF Fits
  <1>3. signedIn
    BY <1>1, <1>2, TableFacts DEF RestFits, EndsAtMenu
  <1>4. PICK p \in DOMAIN PagesOf[app] :
            OnPage(Acts[calls[d].act], app, p) /\ here.part = PagesOf[app][p].part
    BY DEF Placed, InPart, here
  <1> SUFFICES ASSUME watched \notin RefetchedAnyway PROVE shown
    BY DEF Refetches
  <1>5. watched \in here.now
    BY <1>1, <1>2, <1>4, NeedFacts DEF RestFits, here
  <1> QED
    BY <1>3, <1>5 DEF Placed

LEMMA StepSighted ==
    ASSUME Typing, Typing', Placed, Needed, AllSighted, Steady,
           NEW c \in Calls, StepIsDue(c), Step(c)
    PROVE  AllSighted'
  <1>1. RestFits /\ \A d \in Calls : Fits(d, calls'[d], entry', excused')
    BY TypingIs, FitsNext
  <1> DEFINE keys == Steps(c)[calls[c].next]
  <1>2. /\ calls'[c].act = calls[c].act /\ calls'[c].mounted = calls[c].mounted
        /\ calls'[c].waiting = (watched \in keys /\ Refetches)
        /\ \A d \in Calls \ {c} :
               /\ Redrawn(calls[d], calls'[d]) /\ calls'[d].mounted = calls[d].mounted
               /\ calls'[d].waiting = (calls[d].waiting /\ ~StopsWaiting(keys))
    BY StepDoes
  <1>3. entry' = Refreshed(keys) /\ Excuse(c, keys, Refreshed(keys))
    BY DEF Step
  <1>4. entry'.missing = entry.missing /\ excused \subseteq excused'
    BY <1>1, <1>3, RefreshedDoes, ExcuseIs
  <1>5. CASE watched \in keys
    <2>1. CASE Refetches
      BY <1>2, <1>5, <2>1, SightedNext
    <2>2. CASE ~Refetches
      <3>1. ASSUME NEW d \in Calls, d \in entry'.missing, UnseenOf(d, calls'[d], excused')
            PROVE  FALSE
        <4>1. calls'[d].act = calls[d].act /\ calls[d].mounted
          BY <1>2, <3>1 DEF UnseenOf, Redrawn
        <4>2. <<watched, calls[d].act>> \notin Overlooked
          BY <3>1, <4>1 DEF UnseenOf, SureOf, MissableOf
        <4> QED
          BY <1>4, <2>2, <3>1, <4>1, <4>2, NeededRefetches
      <3> QED
        BY <3>1, SightedNext
    <2> QED
      BY <2>1, <2>2
  <1>6. CASE watched \notin keys
    <2>1. ~calls[c].waiting /\ calls[c].stage \in {"done", "callback"}
      BY DEF StepIsDue
    <2>2. \A d \in Calls \ {c} :
              Redrawn(calls[d], calls'[d]) /\ calls'[d].waiting = calls[d].waiting
      <3>1. ~StopsWaiting(keys)
        BY <1>6 DEF StopsWaiting
      <3>2. \A d \in Calls : calls[d].waiting \in BOOLEAN
        BY TypingIs DEF AllFit, Fits, CallRecords
      <3> HIDE DEF keys
      <3> QED
        BY <1>2, <3>1, <3>2
    <2>3. ASSUME c \in entry'.missing, UnseenOf(c, calls'[c], excused')
          PROVE  c \in entry.missing /\ UnseenOf(c, calls[c], excused)
      <3>1. ~SureOf(c, calls[c], excused)
        BY <1>4, <1>6, <2>3, StepStaysSure DEF UnseenOf
      <3>2. calls[c].stage # "done"
        BY <1>1, <1>4, <2>3, <3>1, TypingIs, DoneIsSure DEF AllFit
      <3> QED
        BY <1>2, <1>4, <2>1, <2>3, <3>1, <3>2 DEF UnseenOf
    <2> QED
      BY <1>4, <2>1, <2>2, <2>3, CallSighted
  <1> QED
    BY <1>5, <1>6

(* A callback that has nothing more to ask of the answer ends.              *)
LEMMA OverSighted ==
    ASSUME Typing, Typing', Steady, AllSighted, NEW c \in Calls, NEW e \in Records,
           calls[c].stage \in {"done", "callback"}, ~calls[c].waiting, ~AheadOf(calls[c]),
           e.missing = entry.missing, excused \subseteq excused',
           Open(Goes(c), e, [calls EXCEPT ![c].stage = "settled"])
    PROVE  AllSighted'
  <1>1. RestFits /\ AllFit /\ Fits(c, calls[c], entry, excused)
    BY TypingIs DEF AllFit
  <1> DEFINE l == [calls[c] EXCEPT !.stage = "settled"]
             ks == [calls EXCEPT ![c] = l]
  <1>2. /\ l \in CallRecords /\ l.act = calls[c].act /\ l.mounted = calls[c].mounted
        /\ l.closure = calls[c].closure /\ l.stage = "settled" /\ l.waiting = calls[c].waiting
    BY <1>1, StageFits DEF Fits, Staged
  <1>3. Open(Goes(c), e, ks)
    BY <1>1 DEF RestFits, CallsAll
  <1> HIDE DEF l
  <1>4. /\ ks \in [Calls -> CallRecords]
        /\ \A d \in Calls : ks[d] = IF d = c THEN l ELSE calls[d]
    BY <1>1, <1>2 DEF RestFits, CallsAll, AllFit, Fits
  <1>5. Goes(c) \in DOMAIN PagesOf[app]
    BY <1>1, TableFacts DEF Goes, Fits, RestFits
  <1> HIDE DEF ks
  <1>6. /\ entry' = e \/ entry' = Mounted(e, account)
        /\ \A d \in Calls : Redrawn(ks[d], calls'[d]) /\ calls'[d].waiting = ks[d].waiting
    BY <1>1, <1>3, <1>4, <1>5, OpenDoes
  <1>7. entry'.missing = entry.missing
    BY <1>1, <1>6, MountedAsks, AccountFits DEF Asked
  <1>8. \A d \in Calls \ {c} : Redrawn(calls[d], calls'[d]) /\ calls'[d].waiting = calls[d].waiting
    BY <1>4, <1>6
  <1>9. ASSUME c \in entry'.missing, UnseenOf(c, calls'[c], excused')
        PROVE  UnseenOf(c, calls[c], excused)
    <2>1. /\ calls'[c].act = calls[c].act /\ calls'[c].closure = calls[c].closure
          /\ calls'[c].mounted => calls[c].mounted
      BY <1>2, <1>4, <1>6 DEF Redrawn
    <2>2. ~SureOf(c, calls[c], excused)
      BY <1>9, <2>1 DEF UnseenOf, SureOf, MissableOf
    <2>3. calls[c].stage # "done"
      BY <1>1, <1>7, <1>9, <2>2, DoneIsSure
    <2> QED
      BY <1>9, <2>1, <2>2, <2>3 DEF UnseenOf
  <1> QED
    BY <1>7, <1>8, <1>9, CallSighted

LEMMA RespondSighted ==
    ASSUME Typing, Typing', Placed, Needed, AllSighted, NEW c \in Calls, Respond(c)
    PROVE  AllSighted'
  <1>1. RestFits /\ Fits(c, calls[c], entry, excused) /\ Steady /\ calls[c].stage = "done"
    BY TypingIs, RespondIs DEF AllFit
  <1>2. CASE StepIsDue(c) /\ Step(c)
    BY <1>1, <1>2, StepSighted
  <1>3. CASE ~(Waits(c) /\ Steps(c) # <<>>) /\ StepThrough(c)
    <2>1. calls[c].closure \in DOMAIN Acts /\ ~calls[c].waiting
      BY <1>1 DEF Fits
    <2>2. Steps(c) = <<>>
      BY <1>1, <1>3, <2>1, CallbackFacts, TableFacts DEF Needed, Waits, RestFits
    <2>3. ~AheadOf(calls[c])
      BY <2>2 DEF AheadOf, StepsOf, Steps
    <2> DEFINE keys == RefreshesOf(Acts[calls[c].closure])
    <2>4. /\ Open(Goes(c), Refreshed(keys), [calls EXCEPT ![c].stage = "settled"])
          /\ Excuse(c, keys, Refreshed(keys))
      BY <1>3 DEF StepThrough
    <2> HIDE DEF keys
    <2>5. Refreshed(keys) \in Records /\ Refreshed(keys).missing = entry.missing
      BY <1>1, RefreshedDoes
    <2>6. excused \subseteq excused'
      BY <1>1, <2>4, ExcuseIs
    <2> QED
      BY <1>1, <2>1, <2>3, <2>4, <2>5, <2>6, OverSighted
  <1> QED
    BY <1>2, <1>3, RespondIs

LEMMA SightedStep == Typing /\ Covered /\ Placed /\ Sighted /\ [Next]_vars => Sighted'
  <1> SUFFICES ASSUME Typing, Covered, Placed, Sighted, [Next]_vars PROVE Sighted'
    OBVIOUS
  <1>1. Typing' /\ RestFits /\ AllCovered /\ Steady
    BY TypingStep, TypingIs, CoveredIs, SteadyNext
  <1>2. RestFits' /\ (Needed' <=> Needed)
    <2>1. RestFits'
      BY <1>1, TypingIs, PTL
    <2>2. Needed' <=> Needed
      BY <1>1, SteadyTables DEF Needed, Steady
    <2> QED
      BY <2>1, <2>2
  <1>3. ASSUME Needed
        PROVE  AllSighted'
    <2>1. AllSighted /\ watched # "auth-me"
      BY <1>1, <1>3, SightedIs, TableFacts DEF RestFits, Needed
    <2>2. CASE UNCHANGED vars \/ Enable \/ Serve \/ Resend \/ Pass \/ AskAgain
      BY <1>1, <2>1, <2>2, RequestSighted
    <2>3. CASE Visit \/ Arrive \/ Fail
      BY <1>1, <2>1, <2>3, VisitSighted, ArriveSighted, FailSighted
    <2>4. ASSUME NEW c \in Calls, Submit(c) \/ Commit(c) \/ Refuse(c) \/ Lose(c)
          PROVE  AllSighted'
      BY <1>1, <2>1, <2>4, AnsweredSighted
    <2>5. ASSUME NEW c \in Calls, Respond(c) \/ Callback(c)
          PROVE  AllSighted'
      BY <1>1, <1>3, <2>1, <2>5, RespondSighted, CallbackIs, StepSighted
    <2>6. ASSUME NEW c \in Calls, Settle(c)
          PROVE  AllSighted'
      <3>1. ~AheadOf(calls[c])
        BY <2>6, PastIsNotAhead DEF Settle
      <3> QED
        BY <1>1, <2>1, <2>6, <3>1, OverSighted DEF Settle, RestFits
    <2>7. CASE Reload
      BY <1>1, <2>7, ReloadDoes, SightedNext DEF UnseenOf
    <2>8. CASE Logout \/ RefreshFails \/ SignIn
      BY <1>1, <2>1, <2>8 DEF Logout, RefreshFails, ToLogin, SignIn, RestFits, EndsAtMenu
    <2> QED
      BY <2>2, <2>3, <2>4, <2>5, <2>6, <2>7, <2>8 DEF Next
  <1>4. Needed' => AllSighted'
    BY <1>2, <1>3
  <1> QED
    BY <1>2, <1>4, SightedIs, PTL

(* Nobody acts on an answer that does not show what he did on the same page *)
(* before: in the web client, while no call is under way, the answer a      *)
(* button needs shows every act of the page for which the page does not say *)
(* otherwise; whichever callback waits, and whichever request it waits for. *)
THEOREM ActsAreOnSight == Spec => ActedOnSight
  <1> DEFINE Inv == Typing /\ Covered /\ Placed /\ Sighted
  <1>1. Init => Inv
    <2> SUFFICES ASSUME Init PROVE Covered /\ Placed /\ Sighted
      BY InitTyped
    <2>1. PICK w \in Watchable :
              /\ app = w[1] /\ watched = w[2] /\ opened = "elsewhere"
              /\ shown = (w[2] \in PagesOf[w[1]]["elsewhere"].now)
              /\ entry = (IF shown THEN Mounted(NoEntry, 1) ELSE NoEntry)
              /\ calls = [c \in Calls |-> NoCall]
      BY DEF Init
    <2>2. ~entry.held /\ entry.flight # "answered" /\ entry.missing = {}
      BY <2>1, AnewFits, BoundAssumption
    <2>3. \A c \in Calls : ~calls[c].mounted
      BY <2>1 DEF NoCall
    <2> QED
      BY <2>1, <2>2, <2>3 DEF Covered, Placed, InPart, Sighted, here
  <1>2. Inv /\ [Next]_vars => Inv'
    BY TypingStep, CoveredStep, PlacedStep, SightedStep
  <1>3. Inv /\ Inv' /\ [Next]_vars =>
            [\A c \in Calls :
                /\ app = "web" /\ calls[c].stage = "idle" /\ calls'[c].stage = "sent"
                /\ watched \in Acts[calls'[c].act].needs
                /\ \A d \in Calls : ~Pending(d)
                => \A d \in entry.missing : ~calls[d].mounted \/ Missable(d)]_vars
    <2> SUFFICES ASSUME Inv, Inv', [Next]_vars, NEW c \in Calls, NEW d \in entry.missing,
                        app = "web", calls[c].stage = "idle", calls'[c].stage = "sent",
                        watched \in Acts[calls'[c].act].needs,
                        \A b \in Calls : ~Pending(b), calls[d].mounted
                 PROVE  Missable(d)
      OBVIOUS
    <2>1. RestFits /\ AllFit /\ d \in Calls
      BY TypingIs DEF RestFits, Records, Entries
    <2>2. Needed
      <3>1. Fits(c, calls'[c], entry', excused')
        BY SteadyNext, FitsNext
      <3> QED
        BY <3>1 DEF Fits, Needed
    <2>3. calls[d].stage \notin {"done", "callback"}
      BY <2>1 DEF Pending
    <2>4. \A b \in Calls : ~calls[b].waiting
      BY <2>1 DEF Pending, AllFit, Fits
    <2>5. ~Unseen(d)
      BY <2>2, <2>4 DEF Sighted
    <2> QED
      BY <2>1, <2>3, <2>4, <2>5 DEF Unseen, Sure, Ahead
  <1> HIDE DEF Inv
  <1> QED
    BY <1>1, <1>2, <1>3, PTL DEF Spec, ActedOnSight

=============================================================================
