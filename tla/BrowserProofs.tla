---------------------------- MODULE BrowserProofs ----------------------------
(***************************************************************************)
(* Theorems about what keeps a browser in step with the server, for any    *)
(* number of sessions, transactions, queries, requests, wallets, tabs and  *)
(* rows.  Each is about Spec of MCBrowser; every part is proved about on   *)
(* its own, since a step of another leaves it alone.                       *)
(***************************************************************************)
EXTENDS MCBrowser, SequenceTheorems, FiniteSetTheorems, TLAPS

LEMMA PartsRun ==
    [Next]_vars => /\ [AuthNext]_authVars /\ [TlNext]_tlVars /\ [ConnNext]_connVars
                   /\ [TableNext]_tableVars /\ [HealthNext]_healthVars
                   /\ [ViewsNext]_viewVars /\ [PrefNext]_prefVars
  BY DEF Next, vars, OnSessions, OnTimeline, OnNetwork, OnTable, OnHealth, OnViews, OnPrefs

-----------------------------------------------------------------------------
(* The timeline of a transaction *)

\* The loop of the row on show is the last; one that still runs for another
\* row was left while its poll awaited the answer.
LoopsKnown ==
    \A n \in 1..MaxShows : loops[n].at # "none" =>
        /\ loops[n].hash \in Hashes
        /\ IF n = shows THEN loops[n].hash = selected ELSE loops[n].hash \in strays

\* Polls are counted against the limit, and those for the row on show among
\* them: all, as long as no other loop runs.
AttemptsCounted ==
    /\ attempts > MAX_POLL_ATTEMPTS => terminal
    /\ polled <= attempts
    /\ strays = {} => polled = attempts \/ (polled = MAX_POLL_ATTEMPTS /\ terminal)

TInv == TlTypeOK /\ LoopsKnown /\ AttemptsCounted /\ FinalIsItsOwn /\ TimeoutWasPolled

LEMMA TInvInit == TlInit => TInv
  <1> SUFFICES ASSUME TlInit PROVE TInv
    OBVIOUS
  <1>0. {terminal, ticking} \subseteq BOOLEAN
    BY DEF TlInit
  <1>1. TlTypeOK
    BY <1>0, TimelineAssumption DEF TlInit, TlTypeOK, NoLoop, Final
  <1>2. LoopsKnown
    BY DEF TlInit, LoopsKnown, NoLoop
  <1>3. AttemptsCounted /\ FinalIsItsOwn /\ TimeoutWasPolled
    BY TimelineAssumption
       DEF TlInit, AttemptsCounted, FinalIsItsOwn, TimeoutWasPolled, Final
  <1> QED
    BY <1>1, <1>2, <1>3 DEF TInv

LEMMA TlTrack ==
    ASSUME TInv, NEW h \in Hashes, track(h)
    PROVE  TInv'
  <1> USE TimelineAssumption
  <1>0. /\ TlTypeOK /\ LoopsKnown
        /\ h # selected /\ shows < MaxShows
        /\ selected' = h /\ shows' = shows + 1
        /\ terminal' = FALSE /\ attempts' = 1 /\ status' = "pending"
        /\ verdict' = NoHash /\ polled' = 1 /\ ledger' = ledger
        /\ ticking' = (shows = 0)
    BY DEF TInv, track, resetAttempts
  <1>1. strays' = IF shows > 0 /\ loops[shows].at = "fetch" THEN strays \union {selected} ELSE strays
    BY DEF track
  <1>2. loops' = [n \in 1..MaxShows |->
                    IF n = shows + 1 THEN [hash |-> h, at |-> "fetch"]
                    ELSE IF n = shows THEN clearTimeout(n) ELSE loops[n]]
    BY DEF track
  <1>3. shows \in Nat /\ strays \subseteq Hashes /\ selected \in Hashes \union {NoHash}
    BY <1>0 DEF TlTypeOK
  <1>4. \A n \in 1..MaxShows : /\ loops[n] \in [hash : Hashes \union {NoHash}, at : {"none", "fetch", "timer"}]
                               /\ loops[n].at \in {"none", "fetch", "timer"}
    BY <1>0 DEF TlTypeOK
  <1>5. NoLoop \in [hash : Hashes \union {NoHash}, at : {"none", "fetch", "timer"}] /\ NoLoop.at = "none"
    BY DEF NoLoop
  <1>6. [hash |-> h, at |-> "fetch"] \in [hash : Hashes \union {NoHash}, at : {"none", "fetch", "timer"}]
    OBVIOUS
  <1>7. loops' \in [1..MaxShows -> [hash : Hashes \union {NoHash}, at : {"none", "fetch", "timer"}]]
    BY <1>2, <1>4, <1>5, <1>6 DEF clearTimeout
  <1>8. strays' \subseteq Hashes
    <2>1. CASE shows > 0 /\ loops[shows].at = "fetch"
      <3>1. shows \in 1..MaxShows
        BY <1>0, <1>3, <2>1
      <3>2. selected \in Hashes
        BY <1>0, <2>1, <3>1 DEF LoopsKnown
      <3> QED BY <1>1, <1>3, <2>1, <3>2
    <2> QED BY <1>1, <1>3, <2>1
  <1>9. TlTypeOK'
    <2>1. {terminal, ticking}' \subseteq BOOLEAN
      BY <1>0
    <2>2. ledger \in [Hashes -> {"open"} \union Final]
      BY <1>0 DEF TlTypeOK
    <2> QED BY <1>0, <1>3, <1>7, <1>8, <2>1, <2>2 DEF TlTypeOK
  <1>10. ASSUME NEW n \in 1..MaxShows, loops'[n].at # "none"
         PROVE  /\ loops'[n].hash \in Hashes
                /\ IF n = shows + 1 THEN loops'[n].hash = h ELSE loops'[n].hash \in strays'
    <2>1. CASE n = shows + 1
      BY <1>2, <2>1
    <2>2. CASE n = shows
      <3>1. loops'[n] = clearTimeout(n) /\ n # shows + 1
        BY <1>2, <1>3, <2>2
      <3>2. loops[n].at = "fetch" /\ loops'[n] = loops[n]
        BY <1>4, <1>5, <1>10, <3>1 DEF clearTimeout
      <3>3. loops[n].hash = selected /\ selected \in Hashes
        BY <1>0, <2>2, <3>2 DEF LoopsKnown
      <3>4. shows > 0
        BY <2>2
      <3> QED BY <1>1, <2>2, <3>1, <3>2, <3>3, <3>4
    <2>3. CASE n # shows /\ n # shows + 1
      <3>1. loops'[n] = loops[n]
        BY <1>2, <2>3
      <3>2. loops[n].hash \in Hashes /\ loops[n].hash \in strays
        BY <1>0, <1>10, <2>3, <3>1 DEF LoopsKnown
      <3> QED BY <1>1, <2>3, <3>1, <3>2
    <2> QED BY <2>1, <2>2, <2>3
  <1>11. LoopsKnown'
    BY <1>0, <1>10 DEF LoopsKnown
  <1>12. AttemptsCounted' /\ FinalIsItsOwn' /\ TimeoutWasPolled'
    BY <1>0 DEF AttemptsCounted, FinalIsItsOwn, TimeoutWasPolled, Final
  <1> QED
    BY <1>9, <1>11, <1>12 DEF TInv

\* A loop's step changes that loop alone, and never its hash.
LEMMA TlLoop ==
    ASSUME TInv, NEW n \in 1..MaxShows, LoopStep(n)
    PROVE  TInv'
  <1> USE TimelineAssumption
  <1> DEFINE Loop == [hash : Hashes \union {NoHash}, at : {"none", "fetch", "timer"}]
  <1>0. /\ TlTypeOK /\ LoopsKnown /\ AttemptsCounted /\ FinalIsItsOwn /\ TimeoutWasPolled
        /\ loops \in [1..MaxShows -> Loop]
        /\ ledger' = ledger /\ selected' = selected /\ shows' = shows /\ ticking' = ticking
        /\ strays' = strays
    BY DEF TInv, TlTypeOK, LoopStep, finalAnswer, pendingAnswer, poll
  <1>1. loops[n].at \in {"fetch", "timer"}
    BY DEF LoopStep, finalAnswer, pendingAnswer, poll
  <1>2. loops[n].hash \in Hashes /\ (loops[n].hash = selected \/ loops[n].hash \in strays)
    BY <1>0, <1>1 DEF LoopsKnown
  <1>3. NoLoop \in Loop /\ NoLoop.at = "none" /\ loops[n] \in Loop
    BY <1>0 DEF NoLoop
  <1>4. ASSUME NEW l \in Loop, l.at = "none" \/ l.hash = loops[n].hash,
               loops' = [loops EXCEPT ![n] = l]
        PROVE  loops' \in [1..MaxShows -> Loop] /\ LoopsKnown'
    <2>1. loops' \in [1..MaxShows -> Loop]
      BY <1>0, <1>4
    <2>2. \A m \in 1..MaxShows : loops'[m] = IF m = n THEN l ELSE loops[m]
      BY <1>0, <1>4
    <2>3. \A m \in 1..MaxShows : loops'[m].at # "none"
             => loops[m].at # "none" /\ loops'[m].hash = loops[m].hash
      BY <1>1, <1>4, <2>2
    <2> QED BY <1>0, <2>1, <2>3 DEF LoopsKnown
  <1>5. CASE finalAnswer(n)
    <2>1. /\ status' = ledger[loops[n].hash] /\ verdict' = loops[n].hash /\ terminal' = TRUE
          /\ loops' = [loops EXCEPT ![n] = NoLoop] /\ attempts' = attempts /\ polled' = polled
          /\ ledger[loops[n].hash] \in Final
      BY <1>5 DEF finalAnswer
    <2>2. loops' \in [1..MaxShows -> Loop] /\ LoopsKnown'
      BY <1>3, <1>4, <2>1
    <2>3. TlTypeOK'
      BY <1>0, <1>2, <2>1, <2>2 DEF TlTypeOK
    <2>4. AttemptsCounted' /\ FinalIsItsOwn' /\ TimeoutWasPolled'
      BY <1>0, <1>2, <2>1
         DEF AttemptsCounted, FinalIsItsOwn, TimeoutWasPolled, Final, TlTypeOK
    <2> QED BY <2>2, <2>3, <2>4 DEF TInv
  <1>6. CASE pendingAnswer(n)
    <2>1. /\ loops' = [loops EXCEPT ![n] = rescheduled(n)]
          /\ UNCHANGED <<terminal, attempts, status, verdict, polled>>
      BY <1>6 DEF pendingAnswer
    <2>2. rescheduled(n) \in Loop /\ rescheduled(n).hash = loops[n].hash
      BY <1>3 DEF rescheduled
    <2>3. loops' \in [1..MaxShows -> Loop] /\ LoopsKnown'
      BY <1>4, <2>1, <2>2
    <2>4. TlTypeOK'
      BY <1>0, <2>1, <2>3 DEF TlTypeOK
    <2> QED BY <1>0, <2>1, <2>3, <2>4
            DEF TInv, AttemptsCounted, FinalIsItsOwn, TimeoutWasPolled
  <1>7. CASE poll(n)
    <2>0. verdict' = verdict /\ attempts \in Nat /\ polled \in Nat /\ attempts <= MAX_POLL_ATTEMPTS + 1
      BY <1>0, <1>7 DEF poll, TlTypeOK
    <2>1. CASE terminal
      <3>1. /\ loops' = [loops EXCEPT ![n] = NoLoop]
            /\ UNCHANGED <<terminal, attempts, status, polled>>
        BY <1>7, <2>1 DEF poll
      <3>2. loops' \in [1..MaxShows -> Loop] /\ LoopsKnown'
        BY <1>3, <1>4, <3>1
      <3>3. TlTypeOK'
        BY <1>0, <2>0, <3>1, <3>2 DEF TlTypeOK
      <3> QED BY <1>0, <2>0, <3>1, <3>2, <3>3
              DEF TInv, AttemptsCounted, FinalIsItsOwn, TimeoutWasPolled
    <2>2. CASE ~terminal /\ attempts + 1 > MAX_POLL_ATTEMPTS
      <3>1. /\ loops' = [loops EXCEPT ![n] = NoLoop]
            /\ terminal' = TRUE /\ status' = "timeout" /\ attempts' = attempts + 1 /\ polled' = polled
        BY <1>7, <2>2 DEF poll
      <3>2. loops' \in [1..MaxShows -> Loop] /\ LoopsKnown'
        BY <1>3, <1>4, <3>1
      <3>3. attempts = MAX_POLL_ATTEMPTS
        BY <1>0, <2>0, <2>2 DEF AttemptsCounted
      <3>4. TlTypeOK'
        BY <1>0, <2>0, <3>1, <3>2, <3>3 DEF TlTypeOK
      <3>5. AttemptsCounted' /\ FinalIsItsOwn' /\ TimeoutWasPolled'
        BY <1>0, <2>0, <2>2, <3>1, <3>3
           DEF AttemptsCounted, FinalIsItsOwn, TimeoutWasPolled, Final
      <3> QED BY <3>2, <3>4, <3>5 DEF TInv
    <2>3. CASE ~terminal /\ ~(attempts + 1 > MAX_POLL_ATTEMPTS)
      <3>1. /\ loops' = [loops EXCEPT ![n].at = "fetch"]
            /\ terminal' = terminal /\ attempts' = attempts + 1
            /\ status' = IF attempts + 1 = 2 THEN "confirming" ELSE status
            /\ polled' = IF loops[n].hash = selected THEN polled + 1 ELSE polled
        BY <1>7, <2>3 DEF poll
      <3>2. [loops[n] EXCEPT !.at = "fetch"] \in Loop
            /\ [loops[n] EXCEPT !.at = "fetch"].hash = loops[n].hash
        BY <1>3
      <3>3. loops' \in [1..MaxShows -> Loop] /\ LoopsKnown'
        BY <1>4, <3>1, <3>2
      <3>4. polled <= attempts /\ (strays = {} => polled = attempts /\ loops[n].hash = selected)
        BY <1>0, <1>2, <2>3 DEF AttemptsCounted
      <3>5. TlTypeOK'
        BY <1>0, <2>0, <2>3, <3>1, <3>3, <3>4 DEF TlTypeOK
      <3>6. AttemptsCounted'
        BY <1>0, <2>0, <2>3, <3>1, <3>4 DEF AttemptsCounted
      <3>7. FinalIsItsOwn'
        BY <1>0, <2>0, <3>1 DEF FinalIsItsOwn, Final
      <3>8. TimeoutWasPolled'
        BY <1>0, <2>0, <2>3, <3>1, <3>4 DEF TimeoutWasPolled
      <3> QED BY <3>3, <3>5, <3>6, <3>7, <3>8 DEF TInv
    <2> QED BY <2>1, <2>2, <2>3
  <1> QED
    BY <1>5, <1>6, <1>7 DEF LoopStep

LEMMA TInvStep == TInv /\ [TlNext]_tlVars => TInv'
  <1> SUFFICES ASSUME TInv, [TlNext]_tlVars PROVE TInv'
    OBVIOUS
  <1> USE TimelineAssumption
  <1>1. CASE UNCHANGED tlVars
    BY <1>1 DEF tlVars, TInv, TlTypeOK, LoopsKnown, AttemptsCounted, FinalIsItsOwn, TimeoutWasPolled
  <1>2. ASSUME NEW h \in Hashes, decide(h) PROVE TInv'
    <2>1. /\ ledger[h] = "open" /\ TlTypeOK /\ FinalIsItsOwn
          /\ UNCHANGED <<selected, shows, loops, terminal, attempts, status, ticking,
                         verdict, polled, strays>>
      BY <1>2 DEF TInv, decide
    <2>2. PICK r \in Final : ledger' = [ledger EXCEPT ![h] = r]
      BY <1>2 DEF decide
    <2>3. ledger \in [Hashes -> {"open"} \union Final]
      BY <2>1 DEF TlTypeOK
    <2>4. ledger' \in [Hashes -> {"open"} \union Final]
      BY <2>2, <2>3
    <2>5. \A g : g # h => ledger'[g] = ledger[g]
      BY <2>2, <2>3
    <2>6. TlTypeOK'
      BY <2>1, <2>4 DEF TlTypeOK
    <2>7. FinalIsItsOwn'
      <3>1. "open" \notin Final
        BY DEF Final
      <3> QED BY <2>1, <2>5, <3>1 DEF FinalIsItsOwn
    <2> QED BY <2>1, <2>6, <2>7 DEF TInv, LoopsKnown, AttemptsCounted, TimeoutWasPolled
  <1>3. CASE dismiss
    <2>1. /\ selected' = NoHash /\ shows' = 0 /\ loops' = [n \in 1..MaxShows |-> NoLoop]
          /\ terminal' = FALSE /\ attempts' = 0 /\ status' = "pending" /\ ticking' = FALSE
          /\ verdict' = NoHash /\ polled' = 0 /\ strays' = {} /\ ledger' = ledger
      BY <1>3 DEF dismiss
    <2>2. TlTypeOK'
      <3>1. {terminal, ticking}' \subseteq BOOLEAN
        BY <2>1
      <3>2. ledger \in [Hashes -> {"open"} \union Final]
        BY DEF TInv, TlTypeOK
      <3> QED BY <2>1, <3>1, <3>2 DEF TlTypeOK, NoLoop
    <2>3. LoopsKnown'
      BY <2>1 DEF LoopsKnown, NoLoop
    <2> QED BY <2>1, <2>2, <2>3
            DEF TInv, AttemptsCounted, FinalIsItsOwn, TimeoutWasPolled, Final
  <1> QED
    BY <1>1, <1>2, <1>3, TlTrack, TlLoop DEF TlNext

-----------------------------------------------------------------------------
(* The polls and the banner *)

NInv == ConnTypeOK /\ RestoredIsUpdating /\ LabelExplained

\* The banner after its effect has run.
LEMMA BannerKept ==
    ASSUME ConnTypeOK, RestoredIsUpdating, bannerEffect, online' \in BOOLEAN,
           isRetrying' \in BOOLEAN, owed' \subseteq owed,
           ~online /\ online' /\ ~isRetrying' => owed' = {}
    PROVE  /\ banner' \in {"hidden", "offline", "retrying", "online_success"}
           /\ banner' = "offline" <=> ~online'
           /\ banner' = "online_success" => owed' = {}
  <1>1. /\ banner \in {"hidden", "offline", "retrying", "online_success"}
        /\ banner = "offline" <=> ~online
    BY DEF ConnTypeOK
  <1> QED
    BY <1>1 DEF bannerEffect, RestoredIsUpdating

LEMMA NInvInit == ConnInit => NInv
  <1> SUFFICES ASSUME ConnInit PROVE NInv
    OBVIOUS
  <1>1. {online, hidden, manualPause, refetching, isRetrying, labelled, pollFailed} \subseteq BOOLEAN
    BY DEF ConnInit
  <1>2. ConnTypeOK
    BY <1>1, ConnAssumption DEF ConnInit, ConnTypeOK, OldAge
  <1> QED
    BY <1>2 DEF ConnInit, NInv, RestoredIsUpdating, LabelExplained

LEMMA NInvStep == NInv /\ [ConnNext]_connVars => NInv'
  <1> SUFFICES ASSUME NInv, [ConnNext]_connVars PROVE NInv'
    OBVIOUS
  <1> DEFINE Bools == {online, hidden, manualPause, refetching, isRetrying, labelled, pollFailed}
  <1> USE ConnAssumption
  <1>0. /\ ConnTypeOK /\ RestoredIsUpdating /\ LabelExplained
        /\ Bools \subseteq BOOLEAN /\ asking \subseteq LiveQueries /\ failing \subseteq LiveQueries
        /\ owed \subseteq LiveQueries
        /\ dataAge \in Nat /\ labelAge \in Nat /\ dataAge <= OldAge /\ labelAge <= OldAge
        /\ OldAge \in Nat
    BY DEF NInv, ConnTypeOK, OldAge
  <1>1. CASE UNCHANGED connVars
    BY <1>1 DEF connVars, NInv, ConnTypeOK, RestoredIsUpdating, LabelExplained
  <1>2. CASE pollTick \/ forceRefresh \/ \E q \in LiveQueries : startFetch(q)
    <2>1. PICK q \in LiveQueries :
             /\ UNCHANGED <<online, hidden, manualPause, failing, dataAge, labelAge, labelled, pollFailed>>
             /\ ask({q}) /\ cacheEvent(failing) /\ bannerEffect
             /\ refetching' \in {refetching, TRUE}
      BY <1>2 DEF pollTick, forceRefresh, startFetch, doRefetch
    <2>2. /\ asking' \subseteq LiveQueries /\ owed' \subseteq owed /\ isRetrying' = (failing # {})
      BY <1>0, <2>1 DEF ask, cacheEvent
    <2>3. Bools' \subseteq BOOLEAN
      BY <1>0, <2>1, <2>2
    <2>4. /\ banner' \in {"hidden", "offline", "retrying", "online_success"}
          /\ banner' = "offline" <=> ~online'
          /\ banner' = "online_success" => owed' = {}
      BY <1>0, <2>1, <2>2, <2>3, BannerKept
    <2>5. ConnTypeOK'
      BY <1>0, <2>1, <2>2, <2>3, <2>4 DEF ConnTypeOK
    <2> QED BY <1>0, <2>1, <2>4, <2>5 DEF NInv, RestoredIsUpdating, LabelExplained
  <1>3. CASE pauseOrResume \/ visibilityChange
    <2>1. /\ UNCHANGED <<online, asking, failing, refetching, isRetrying, banner,
                         dataAge, labelAge, labelled, pollFailed, owed>>
          /\ manualPause' \in BOOLEAN /\ hidden' \in BOOLEAN
      BY <1>0, <1>3 DEF pauseOrResume, visibilityChange
    <2>2. Bools' \subseteq BOOLEAN
      BY <1>0, <2>1
    <2>3. ConnTypeOK'
      BY <1>0, <2>1, <2>2 DEF ConnTypeOK
    <2> QED BY <1>0, <2>1, <2>3 DEF NInv, RestoredIsUpdating, LabelExplained
  <1>4. CASE handleOffline
    <2>1. /\ online' = FALSE /\ owed' = LiveQueries /\ banner' = "offline"
          /\ UNCHANGED <<hidden, manualPause, asking, failing, refetching, isRetrying,
                         dataAge, labelAge, labelled, pollFailed>>
      BY <1>4 DEF handleOffline, bannerEffect
    <2>2. Bools' \subseteq BOOLEAN
      BY <1>0, <2>1
    <2>3. ConnTypeOK'
      BY <1>0, <2>1, <2>2 DEF ConnTypeOK
    <2> QED BY <1>0, <2>1, <2>3 DEF NInv, RestoredIsUpdating, LabelExplained
  <1>5. ASSUME NEW told \in BOOLEAN, handleOnline(told) PROVE NInv'
    <2> DEFINE pages == (IF told THEN {} ELSE reconnected)
                        \union (IF ~manualPause /\ ~hidden /\ ~refetching THEN {Polled} ELSE {})
    <2>1. /\ ~online /\ online' = TRUE /\ (told => failing # {})
          /\ refetching' = (refetching \/ (~manualPause /\ ~hidden /\ ~refetching))
          /\ ask(pages) /\ cacheEvent(failing) /\ bannerEffect
          /\ UNCHANGED <<hidden, manualPause, failing, dataAge, labelAge, labelled, pollFailed>>
      BY <1>5 DEF handleOnline
    <2>2. pages \subseteq LiveQueries /\ (~told => pages = LiveQueries)
      BY DEF reconnected
    <2> HIDE DEF pages
    <2>3. /\ asking' \subseteq LiveQueries /\ owed' = owed \ pages /\ isRetrying' = (failing # {})
      BY <1>0, <2>1, <2>2 DEF ask, cacheEvent
    <2>4. owed' \subseteq owed /\ (~isRetrying' => owed' = {})
      BY <1>0, <2>1, <2>2, <2>3
    <2>5. Bools' \subseteq BOOLEAN
      BY <1>0, <2>1, <2>3
    <2>6. /\ banner' \in {"hidden", "offline", "retrying", "online_success"}
          /\ banner' = "offline" <=> ~online'
          /\ banner' = "online_success" => owed' = {}
      BY <1>0, <2>1, <2>4, <2>5, BannerKept
    <2>7. ConnTypeOK'
      BY <1>0, <2>1, <2>3, <2>4, <2>5, <2>6 DEF ConnTypeOK
    <2> QED BY <1>0, <2>1, <2>6, <2>7 DEF NInv, RestoredIsUpdating, LabelExplained
  <1>6. ASSUME NEW q \in LiveQueries, NEW ok \in BOOLEAN, settleFetch(q, ok) PROVE NInv'
    <2>1. /\ asking' = asking \ {q}
          /\ failing' = IF ok THEN failing \ {q} ELSE failing \union {q}
          /\ dataAge' = IF ok /\ q = Polled THEN 0 ELSE dataAge
          /\ UNCHANGED <<online, hidden, manualPause, owed>>
          /\ cacheEvent(failing') /\ bannerEffect
      BY <1>6 DEF settleFetch
    <2>2. \/ /\ refetching' = FALSE /\ labelAge' = 0 /\ labelled' = TRUE /\ pollFailed' = ~ok
             /\ q = Polled
          \/ UNCHANGED <<refetching, labelAge, labelled, pollFailed>>
      BY <1>6 DEF settleFetch, ofPoll, refetchDone, stamped
    <2>3. failing' \subseteq LiveQueries /\ isRetrying' = (failing' # {})
      BY <1>0, <2>1 DEF cacheEvent
    <2>4. Bools' \subseteq BOOLEAN
      BY <1>0, <2>1, <2>2, <2>3
    <2>5. /\ banner' \in {"hidden", "offline", "retrying", "online_success"}
          /\ banner' = "offline" <=> ~online'
          /\ banner' = "online_success" => owed' = {}
      BY <1>0, <2>1, <2>4, BannerKept
    <2>6. dataAge' \in 0..OldAge /\ labelAge' \in 0..OldAge
      BY <1>0, <2>1, <2>2
    <2>7. ConnTypeOK'
      BY <1>0, <2>1, <2>3, <2>4, <2>5, <2>6 DEF ConnTypeOK, OldAge
    <2>8. LabelExplained'
      <3>1. CASE ok /\ q = Polled
        BY <1>0, <2>1, <2>6, <3>1 DEF LabelExplained
      <3>2. CASE ~(ok /\ q = Polled)
        BY <1>0, <2>1, <2>2, <3>2 DEF LabelExplained
      <3> QED BY <3>1, <3>2
    <2> QED BY <2>5, <2>7, <2>8 DEF NInv, RestoredIsUpdating
  <1>7. CASE connTick
    <2>1. /\ dataAge' = older(dataAge) /\ labelAge' = older(labelAge)
          /\ UNCHANGED <<online, hidden, manualPause, asking, failing, refetching, isRetrying,
                         banner, labelled, pollFailed, owed>>
      BY <1>7 DEF connTick
    <2>2. /\ dataAge' \in 0..OldAge /\ labelAge' \in 0..OldAge
          /\ labelAge' < dataAge' => labelAge < dataAge
      <3>1. \A n, a, b \in Nat : a <= n /\ b <= n =>
               /\ (IF a < n THEN a + 1 ELSE a) \in 0..n
               /\ (IF b < n THEN b + 1 ELSE b) < (IF a < n THEN a + 1 ELSE a) => b < a
        OBVIOUS
      <3> HIDE DEF OldAge
      <3> QED BY <1>0, <2>1, <3>1 DEF older
    <2>3. Bools' \subseteq BOOLEAN
      BY <1>0, <2>1
    <2>4. ConnTypeOK'
      BY <1>0, <2>1, <2>2, <2>3 DEF ConnTypeOK, OldAge
    <2> QED BY <1>0, <2>1, <2>2, <2>4 DEF NInv, RestoredIsUpdating, LabelExplained
  <1>8. CASE countdownOver
    <2>1. /\ isRetrying' = FALSE /\ bannerEffect
          /\ UNCHANGED <<online, hidden, manualPause, asking, failing, refetching, dataAge, labelAge,
                         labelled, pollFailed, owed>>
      BY <1>8 DEF countdownOver
    <2>2. Bools' \subseteq BOOLEAN
      BY <1>0, <2>1
    <2>3. /\ banner' \in {"hidden", "offline", "retrying", "online_success"}
          /\ banner' = "offline" <=> ~online'
          /\ banner' = "online_success" => owed' = {}
      BY <1>0, <2>1, <2>2, BannerKept
    <2>4. ConnTypeOK'
      BY <1>0, <2>1, <2>2, <2>3 DEF ConnTypeOK
    <2> QED BY <1>0, <2>1, <2>3, <2>4 DEF NInv, RestoredIsUpdating, LabelExplained
  <1>9. CASE hideSuccess
    <2>1. /\ banner = "online_success" /\ banner' = "hidden"
          /\ UNCHANGED <<online, hidden, manualPause, asking, failing, refetching, isRetrying,
                         dataAge, labelAge, labelled, pollFailed, owed>>
      BY <1>9 DEF hideSuccess
    <2>2. ConnTypeOK'
      BY <1>0, <2>1 DEF ConnTypeOK
    <2> QED BY <1>0, <2>1, <2>2 DEF NInv, RestoredIsUpdating, LabelExplained
  <1> QED
    BY <1>1, <1>2, <1>3, <1>4, <1>5, <1>6, <1>7, <1>8, <1>9 DEF ConnNext

-----------------------------------------------------------------------------
(* Sequences *)

\* The places of two sequences in a row.
LEMMA JoinedPlaces ==
    ASSUME NEW S, NEW a \in Seq(S), NEW c \in Seq(S), NEW n \in Nat, Len(a) = n,
           NEW m \in Nat, Len(c) = m, NEW new, new = a \o c
    PROVE  /\ new \in Seq(S) /\ Len(new) = n + m
           /\ \A i \in Nat : 1 <= i /\ i <= n => new[i] = a[i]
           /\ \A i \in Nat : n < i /\ i <= n + m => new[i] = c[i - n]
  <1>1. /\ new \in Seq(S) /\ Len(new) = n + m
        /\ \A i \in 1..(n + m) : new[i] = IF i <= n THEN a[i] ELSE c[i - n]
    BY ConcatProperties
  <1>2. \A i \in Nat : /\ 1 <= i /\ i <= n => i \in 1..(n + m) /\ i <= n
                      /\ n < i /\ i <= n + m => i \in 1..(n + m) /\ ~(i <= n)
    OBVIOUS
  <1> QED
    BY <1>1, <1>2

\* The places of a sequence with one element less.
LEMMA RemovedPlaces ==
    ASSUME NEW S, NEW s \in Seq(S), NEW k \in 1..Len(s), NEW new, new = RemoveAt(s, k)
    PROVE  /\ new \in Seq(S) /\ Len(new) = Len(s) - 1
           /\ \A i \in 1..Len(new) : new[i] = IF i < k THEN s[i] ELSE s[i + 1]
  <1> DEFINE a == SubSeq(s, 1, k - 1)
             c == SubSeq(s, k + 1, Len(s))
  <1>1. /\ a \in Seq(S) /\ Len(a) = k - 1
        /\ \A i \in 1..(k - 1) : a[i] = s[i]
    OBVIOUS
  <1>2. /\ c \in Seq(S) /\ Len(c) = Len(s) - k
        /\ \A i \in 1..(Len(s) - k) : c[i] = s[k + i]
    OBVIOUS
  <1>3. new = a \o c
    BY DEF RemoveAt
  <1> HIDE DEF a, c
  <1>4. /\ new \in Seq(S) /\ Len(new) = Len(s) - 1
        /\ \A i \in Nat : 1 <= i /\ i <= k - 1 => new[i] = a[i]
        /\ \A i \in Nat : k - 1 < i /\ i <= Len(s) - 1 => new[i] = c[i - (k - 1)]
    <2>1. /\ Len(a) \in Nat /\ Len(c) \in Nat /\ a \in Seq(S) /\ c \in Seq(S)
          /\ Len(a) = Len(a) /\ Len(c) = Len(c) /\ new = a \o c
      BY <1>1, <1>2, <1>3
    <2>2. /\ new \in Seq(S) /\ Len(new) = Len(a) + Len(c)
          /\ \A i \in Nat : 1 <= i /\ i <= Len(a) => new[i] = a[i]
          /\ \A i \in Nat : Len(a) < i /\ i <= Len(a) + Len(c) => new[i] = c[i - Len(a)]
      BY ONLY <2>1, JoinedPlaces
    <2>3. Len(a) = k - 1 /\ Len(a) + Len(c) = Len(s) - 1
      BY <1>1, <1>2
    <2> QED BY <2>2, <2>3
  <1>5. ASSUME NEW i \in 1..Len(new) PROVE new[i] = IF i < k THEN s[i] ELSE s[i + 1]
    <2>1. CASE i < k
      <3>1. i \in 1..(k - 1) /\ i \in Nat /\ 1 <= i /\ i <= k - 1
        BY <2>1
      <3>2. new[i] = a[i] /\ a[i] = s[i]
        BY <3>1, <1>1, <1>4
      <3> QED BY <3>2, <2>1
    <2>2. CASE i >= k
      <3> DEFINE j == i - (k - 1)
      <3>0. Len(s) \in Nat /\ Len(new) = Len(s) - 1
        BY <1>4
      <3>1. /\ j \in 1..(Len(s) - k) /\ k + j = i + 1
            /\ i \in Nat /\ k - 1 < i /\ i <= Len(s) - 1
        BY <3>0, <2>2
      <3>2. new[i] = c[j]
        BY <1>4, <3>1
      <3> HIDE DEF j
      <3>3. c[j] = s[i + 1]
        BY <1>2, <3>1
      <3> QED BY <2>2, <3>2, <3>3
    <2> QED BY <2>1, <2>2
  <1> QED
    BY <1>4, <1>5

\* What is left of a sequence was there.
LEMMA RemovedFrom ==
    ASSUME NEW S, NEW s \in Seq(S), NEW k \in 1..Len(s), NEW new, new = RemoveAt(s, k)
    PROVE  \A i \in 1..Len(new) : \E j \in 1..Len(s) : new[i] = s[j]
  <1>1. /\ Len(new) = Len(s) - 1 /\ Len(s) \in Nat
        /\ \A i \in 1..Len(new) : new[i] = IF i < k THEN s[i] ELSE s[i + 1]
    BY RemovedPlaces
  <1> SUFFICES ASSUME NEW i \in 1..Len(new) PROVE \E j \in 1..Len(s) : new[i] = s[j]
    OBVIOUS
  <1>2. i \in 1..Len(s) /\ i + 1 \in 1..Len(s)
    BY <1>1
  <1> QED
    BY <1>1, <1>2

-----------------------------------------------------------------------------
(* The server's health *)

\* What a request has found up was up when it was looked at.
FoundTells(r) ==
    /\ r.stage = "databases" => ~r.down
    /\ r.stage = "prisma" => /\ r.found \subseteq {"primary", "replica"}
                             /\ {"primary", "replica"} \subseteq r.found => ~r.down
    /\ r.stage = "answered" /\ r.found = Checks => ~r.down

\* Only the last request has not been given up, and no request that was sent
\* before the one on show.
OnlyLastAwaited ==
    /\ behind <= Len(requests)
    /\ \A i \in 1..Len(requests) : i < Len(requests) \/ i <= behind => requests[i].aborted

HInv ==
    /\ HealthTypeOK /\ GreenWasFound /\ requests \in Seq(Request)
    /\ \A i \in 1..Len(requests) : FoundTells(requests[i])
    /\ OnlyLastAwaited

LEMMA HInvInit == HealthInit => HInv
  <1> SUFFICES ASSUME HealthInit PROVE HInv
    OBVIOUS
  <1>0. amiss \in BOOLEAN
    BY DEF HealthInit
  <1>1. requests \in Seq(Request) /\ Len(requests) = 0
    BY DEF HealthInit
  <1>2. /\ reachable \subseteq Stores /\ failures \in 0..deadLetterThreshold
        /\ behind \in 0..MaxRequests /\ clicks \in 0..MaxClicks /\ Len(requests) <= MaxRequests
    BY <1>1, HealthAssumption DEF HealthInit
  <1>3. light \in {"healthy", "degraded", "unhealthy"}
        /\ \A i \in 1..Len(requests) : requests[i] \in Request
    BY <1>1 DEF HealthInit
  <1>4. HealthTypeOK
    BY <1>0, <1>1, <1>2, <1>3 DEF HealthTypeOK
  <1> QED
    BY <1>1, <1>4 DEF HealthInit, HInv, GreenWasFound, OnlyLastAwaited

\* A request gets on.
LEMMA HealthGoesOn ==
    ASSUME HInv, NEW i \in 1..Len(requests), getDatabaseHealth(i) \/ answer(i)
    PROVE  HInv'
  <1>0. /\ requests \in Seq(Request) /\ Len(requests) \in Nat /\ requests[i] \in Request
        /\ FoundTells(requests[i]) /\ HealthTypeOK
        /\ UNCHANGED <<reachable, failures, light, behind, amiss, clicks>>
    BY DEF HInv, getDatabaseHealth, answer
  <1>1. PICK r \in Request : /\ requests' = [requests EXCEPT ![i] = r]
                             /\ FoundTells(r) /\ r.aborted = requests[i].aborted
    <2>1. CASE getDatabaseHealth(i)
      <3> DEFINE r == [requests[i] EXCEPT !.stage = "prisma", !.found = reachable \ {"prisma"},
                                          !.down = ~ {"primary", "replica"} \subseteq reachable]
      <3>1. requests' = [requests EXCEPT ![i] = r]
        BY <2>1 DEF getDatabaseHealth
      <3>2. reachable \subseteq Stores
        BY <1>0 DEF HealthTypeOK
      <3>3. (~ {"primary", "replica"} \subseteq reachable) \in BOOLEAN
            /\ reachable \ {"prisma"} \in SUBSET Checks
        BY <3>2 DEF Checks
      <3>4. /\ r \in Request /\ r.stage = "prisma" /\ r.found = reachable \ {"prisma"}
            /\ r.down = ~ {"primary", "replica"} \subseteq reachable
            /\ r.aborted = requests[i].aborted
        BY <1>0, <3>3 DEF Request
      <3> HIDE DEF r
      <3>5. r.found \subseteq {"primary", "replica"}
            /\ ({"primary", "replica"} \subseteq r.found => ~r.down)
        BY <3>2, <3>4 DEF Stores
      <3>6. FoundTells(r)
        BY <3>4, <3>5 DEF FoundTells
      <3> QED BY <3>1, <3>4, <3>6
    <2>2. CASE answer(i)
      <3> DEFINE down == requests[i].down \/ "prisma" \notin reachable
                                          \/ failures = deadLetterThreshold
                 found == requests[i].found \union getPrismaHealth \union getJobHealthStatus
                 r == [requests[i] EXCEPT !.stage = "answered", !.found = found, !.down = down]
      <3>1. requests' = [requests EXCEPT ![i] = r]
        BY <2>2 DEF answer
      <3>2. requests[i].stage = "prisma" /\ requests[i].down \in BOOLEAN
            /\ requests[i].found \subseteq Checks /\ failures \in Nat /\ reachable \subseteq Stores
        BY <1>0, <2>2, HealthAssumption DEF answer, Request, HealthTypeOK
      <3>3. found \subseteq Checks /\ down \in BOOLEAN
        BY <3>2 DEF getPrismaHealth, getJobHealthStatus, Checks, Stores
      <3>4. ASSUME found = Checks PROVE ~down
        <4>1. {"primary", "replica", "prisma", "jobs"} \subseteq found
          BY <3>4 DEF Checks, Stores
        <4>2. "primary" \in requests[i].found /\ "replica" \in requests[i].found
          BY <4>1 DEF getPrismaHealth, getJobHealthStatus
        <4>3. ~requests[i].down /\ requests[i].found \subseteq {"primary", "replica"}
          BY <1>0, <3>2, <4>2 DEF FoundTells
        <4>4. "prisma" \in reachable
          BY <4>1, <4>3 DEF getPrismaHealth, getJobHealthStatus
        <4>5. ~hasRecurringFailures
          BY <4>1, <4>3 DEF getPrismaHealth, getJobHealthStatus
        <4>6. failures # deadLetterThreshold
          BY <3>2, <4>5, HealthAssumption DEF hasRecurringFailures
        <4> QED BY <4>3, <4>4, <4>6
      <3> HIDE DEF found, down
      <3>5. /\ r \in Request /\ r.stage = "answered" /\ r.found = found /\ r.down = down
            /\ r.aborted = requests[i].aborted
        BY <1>0, <3>3 DEF Request
      <3> HIDE DEF r
      <3>6. FoundTells(r)
        BY <3>4, <3>5 DEF FoundTells
      <3> QED BY <3>1, <3>5, <3>6
    <2> QED BY <2>1, <2>2
  <1>2. /\ requests' \in Seq(Request) /\ Len(requests') = Len(requests)
        /\ \A j \in 1..Len(requests) : requests'[j] = IF j = i THEN r ELSE requests[j]
    BY <1>0, <1>1
  <1>3. \A j \in 1..Len(requests') : requests'[j] \in Request
    BY <1>2
  <1>4. HealthTypeOK'
    BY <1>0, <1>2, <1>3 DEF HealthTypeOK
  <1>5. \A j \in 1..Len(requests') : FoundTells(requests'[j])
    BY <1>1, <1>2 DEF HInv
  <1>6. OnlyLastAwaited'
    BY <1>0, <1>1, <1>2 DEF HInv, OnlyLastAwaited
  <1> QED
    BY <1>0, <1>2, <1>4, <1>5, <1>6 DEF HInv, GreenWasFound, FoundTells

\* A request is sent, and those before it are given up.
LEMMA HealthAsks ==
    ASSUME HInv, NEW who \in {"tick", "click"}, fetchHealth(who),
           UNCHANGED <<reachable, failures, light, behind, amiss>>, clicks' \in 0..MaxClicks
    PROVE  HInv'
  <1> DEFINE new == [of |-> who, stage |-> "databases", found |-> {}, down |-> FALSE, aborted |-> FALSE]
  <1>0. /\ requests \in Seq(Request) /\ Len(requests) \in Nat
        /\ \A i \in 1..Len(requests) : requests[i] \in Request
        /\ Len(requests) < MaxRequests /\ requests' = Append(abortPrevious, new)
        /\ behind \in Nat /\ behind <= Len(requests)
    BY HealthAssumption DEF HInv, fetchHealth, HealthTypeOK, OnlyLastAwaited
  <1>1. new \in Request /\ FoundTells(new)
    BY DEF Request, FoundTells
  <1>2. \A i \in 1..Len(requests) :
           LET r == [requests[i] EXCEPT !.aborted = TRUE]
           IN r \in Request /\ r.aborted /\ FoundTells(r)
    BY <1>0 DEF HInv, Request, FoundTells
  <1>3. /\ abortPrevious \in Seq(Request) /\ Len(abortPrevious) = Len(requests)
        /\ \A i \in 1..Len(requests) : /\ abortPrevious[i].aborted /\ FoundTells(abortPrevious[i])
                                       /\ abortPrevious[i] \in Request
    <2> DEFINE given(i) == [requests[i] EXCEPT !.aborted = TRUE]
    <2>1. \A i \in 1..Len(requests) : /\ given(i) \in Request
                                       /\ given(i).aborted /\ FoundTells(given(i))
      BY <1>2
    <2>2. abortPrevious = [i \in 1..Len(requests) |-> given(i)]
      BY DEF abortPrevious
    <2> HIDE DEF given
    <2>3. abortPrevious \in Seq(Request) /\ Len(abortPrevious) = Len(requests)
      BY <1>0, <2>1, <2>2
    <2> QED BY <2>1, <2>2, <2>3
  <1> HIDE DEF new
  <1>4. /\ requests' \in Seq(Request) /\ Len(requests') = Len(requests) + 1
        /\ \A i \in 1..Len(requests') :
              requests'[i] = IF i <= Len(requests) THEN abortPrevious[i] ELSE new
    BY <1>0, <1>1, <1>3
  <1>5. \A i \in 1..Len(requests') : requests'[i] \in Request /\ FoundTells(requests'[i])
    BY <1>0, <1>1, <1>3, <1>4
  <1>6. OnlyLastAwaited'
    BY <1>0, <1>3, <1>4 DEF OnlyLastAwaited
  <1>7. Len(requests') <= MaxRequests
    BY <1>0, <1>4, HealthAssumption
  <1>8. HealthTypeOK'
    BY <1>5, <1>7 DEF HInv, HealthTypeOK
  <1> QED
    BY <1>4, <1>5, <1>6, <1>8 DEF HInv, GreenWasFound, FoundTells

\* A request ends.
LEMMA HealthDrops ==
    ASSUME HInv, NEW i \in 1..Len(requests), drop(i), UNCHANGED <<reachable, failures, clicks>>,
           light' \in {"healthy", "degraded", "unhealthy"}, amiss' = FALSE,
           \/ ~requests[i].aborted /\ behind' = i - 1
           \/ requests[i].aborted /\ behind' = IF i <= behind THEN behind - 1 ELSE behind
    PROVE  HInv'
  <1>0. /\ requests \in Seq(Request) /\ Len(requests) \in Nat
        /\ requests' = RemoveAt(requests, i) /\ Len(requests) <= MaxRequests
        /\ behind \in Nat /\ behind <= Len(requests)
        /\ \A j \in 1..Len(requests) : j < Len(requests) \/ j <= behind => requests[j].aborted
    BY HealthAssumption DEF HInv, drop, HealthTypeOK, OnlyLastAwaited
  <1>1. /\ requests' \in Seq(Request) /\ Len(requests') = Len(requests) - 1
        /\ \A j \in 1..Len(requests') :
              requests'[j] = IF j < i THEN requests[j] ELSE requests[j + 1]
    BY <1>0, RemovedPlaces
  <1>2. \A j \in 1..Len(requests') : \E m \in 1..Len(requests) : requests'[j] = requests[m]
    BY <1>0, RemovedFrom
  <1>3. \A j \in 1..Len(requests') : requests'[j] \in Request /\ FoundTells(requests'[j])
    BY <1>0, <1>2 DEF HInv
  <1>4. behind' \in Nat /\ behind' <= Len(requests') /\ Len(requests') <= MaxRequests
    BY <1>0, <1>1, HealthAssumption
  <1>5. ASSUME NEW j \in 1..Len(requests'), j < Len(requests') \/ j <= behind'
        PROVE  requests'[j].aborted
    <2>0. j \in Nat /\ 1 <= j /\ j <= Len(requests) - 1 /\ i \in Nat /\ i <= Len(requests)
      BY <1>0, <1>1
    <2>1. CASE j < i
      <3>1. j \in 1..Len(requests) /\ j < Len(requests) /\ requests'[j] = requests[j]
        BY <1>0, <1>1, <2>0, <2>1
      <3> QED BY <1>0, <3>1
    <2>2. CASE ~(j < i)
      <3>1. requests[i].aborted
        <4>1. CASE ~requests[i].aborted
          <5>1. i = Len(requests)
            BY <1>0, <4>1
          <5> QED BY <2>0, <2>2, <5>1
        <4> QED BY <4>1
      <3>2. j + 1 \in 1..Len(requests) /\ requests'[j] = requests[j + 1]
        BY <1>0, <1>1, <2>0, <2>2
      <3>3. j + 1 < Len(requests) \/ j + 1 <= behind
        <4>1. behind' = IF i <= behind THEN behind - 1 ELSE behind
          BY <3>1
        <4> QED BY <1>0, <1>1, <1>5, <2>0, <2>2, <4>1
      <3> QED BY <1>0, <3>2, <3>3
    <2> QED BY <2>1, <2>2
  <1>6. OnlyLastAwaited'
    BY <1>4, <1>5 DEF OnlyLastAwaited
  <1>7. HealthTypeOK'
    <2>1. amiss' \in BOOLEAN
      OBVIOUS
    <2>2. behind' \in 0..MaxRequests
      BY <1>0, <1>1, <1>4, HealthAssumption
    <2> QED BY <1>3, <1>4, <2>1, <2>2 DEF HInv, HealthTypeOK
  <1> QED
    BY <1>1, <1>3, <1>6, <1>7 DEF HInv, GreenWasFound, FoundTells

\* The light says healthy only if all that was looked at was up.
LEMMA HealthSettles ==
    ASSUME HInv, NEW i \in 1..Len(requests), settleHealth(i) \/ timedOut(i)
    PROVE  /\ ~requests[i].aborted /\ drop(i) /\ behind' = i - 1
           /\ light' \in {"healthy", "degraded", "unhealthy"} /\ amiss' = FALSE
           /\ UNCHANGED <<reachable, failures, clicks>>
  <1>1. requests[i] \in Request /\ FoundTells(requests[i])
    BY DEF HInv
  <1>2. CASE settleHealth(i)
    <2>1. /\ requests[i].stage = "answered" /\ ~requests[i].aborted /\ drop(i)
          /\ light' = stateOf(requests[i].found) /\ behind' = i - 1
          /\ amiss' = (stateOf(requests[i].found) = "healthy" /\ requests[i].down)
          /\ UNCHANGED <<reachable, failures, clicks>>
      BY <1>2 DEF settleHealth, setStatus
    <2>2. stateOf(requests[i].found) = "healthy" => requests[i].found = Checks
      BY DEF stateOf, allHealthy
    <2>3. stateOf(requests[i].found) \in {"healthy", "degraded", "unhealthy"}
      BY DEF stateOf
    <2> QED BY <1>1, <2>1, <2>2, <2>3 DEF FoundTells
  <1>3. CASE timedOut(i)
    BY <1>3 DEF timedOut, unreachable, setStatus
  <1> QED
    BY <1>2, <1>3

LEMMA HInvStep == HInv /\ [HealthNext]_healthVars => HInv'
  <1> SUFFICES ASSUME HInv, [HealthNext]_healthVars PROVE HInv'
    OBVIOUS
  <1> USE HealthAssumption
  <1>1. CASE UNCHANGED healthVars
    BY <1>1 DEF healthVars, HInv, HealthTypeOK, GreenWasFound, FoundTells, OnlyLastAwaited
  <1>2. CASE recordDeadLetter \/ \E s \in Stores : storeChanges(s)
    <2>1. /\ failures' \in 0..deadLetterThreshold /\ reachable' \subseteq Stores
          /\ UNCHANGED <<requests, light, behind, amiss, clicks>>
      BY <1>2 DEF recordDeadLetter, storeChanges, HInv, HealthTypeOK
    <2> QED BY <2>1 DEF HInv, HealthTypeOK, GreenWasFound, FoundTells, OnlyLastAwaited
  <1>3. CASE tick
    BY <1>3, HealthAsks DEF tick, HInv, HealthTypeOK
  <1>4. CASE click
    <2>1. clicks' \in 0..MaxClicks
      BY <1>4 DEF click, HInv, HealthTypeOK
    <2> QED BY <1>4, <2>1, HealthAsks DEF click
  <1>5. ASSUME NEW i \in 1..Len(requests), settleHealth(i) \/ timedOut(i) PROVE HInv'
    BY <1>5, HealthSettles, HealthDrops
  <1>6. ASSUME NEW i \in 1..Len(requests), abortedEnds(i) PROVE HInv'
    <2>1. /\ requests[i].aborted /\ drop(i)
          /\ behind' = IF i <= behind THEN behind - 1 ELSE behind
          /\ UNCHANGED <<reachable, failures, light, amiss, clicks>>
      BY <1>6 DEF abortedEnds
    <2>2. light' \in {"healthy", "degraded", "unhealthy"} /\ amiss' = FALSE
      BY <2>1 DEF HInv, HealthTypeOK, GreenWasFound
    <2> QED BY <2>1, <2>2, HealthDrops
  <1> QED
    BY <1>1, <1>2, <1>3, <1>4, <1>5, <1>6, HealthGoesOn DEF HealthNext

LEMMA LightStep ==
    HInv /\ [HealthNext]_healthVars =>
        [light' # light =>
            \E i \in (behind + 1)..Len(requests) : requests' = RemoveAt(requests, i)]_healthVars
  <1> SUFFICES ASSUME HInv, HealthNext, light' # light
               PROVE  \E i \in (behind + 1)..Len(requests) : requests' = RemoveAt(requests, i)
    OBVIOUS
  <1>1. PICK i \in 1..Len(requests) : settleHealth(i) \/ timedOut(i)
    BY DEF HealthNext, recordDeadLetter, storeChanges, tick, click, getDatabaseHealth, answer,
           abortedEnds
  <1>2. ~requests[i].aborted /\ requests' = RemoveAt(requests, i)
    BY <1>1, HealthSettles DEF drop
  <1>3. behind \in Nat /\ ~(i <= behind)
    BY <1>2, HealthAssumption DEF HInv, OnlyLastAwaited, HealthTypeOK
  <1>4. i \in (behind + 1)..Len(requests)
    BY <1>3
  <1> QED
    BY <1>2, <1>4

-----------------------------------------------------------------------------
(* The pages of a wallet *)

Load == [of : Owners, mounted : BOOLEAN]
Poll == [saw : Networks \cup {"none"}, active : BOOLEAN]

VTypes ==
    /\ owner \in Owners \cup {NoOwner} /\ holdings \in Owners \cup {NoOwner}
    /\ urls \in Seq(Statuses) /\ urls # << >> /\ loads \in Seq(Load) /\ polls \in Seq(Poll)
    /\ loadError \in BOOLEAN /\ isLoading \in BOOLEAN
    /\ extNetwork \in Networks /\ walletNetwork \in Networks \cup {"none"}
    /\ turns \in 0..MaxTurns /\ viewFaults \in 0..MaxViewFaults

\* A load that has not been cleaned up is one for the wallet that is connected,
\* and a poll of the network that is active has a wallet.
MountedIsOwners == \A i \in 1..Len(loads) : loads[i].mounted => loads[i].of = owner
ActiveHasWallet == \A i \in 1..Len(polls) : polls[i].active => owner # NoOwner

VInv == VTypes /\ MountedIsOwners /\ ActiveHasWallet /\ HoldingsAreOwned /\ NoWalletNoNetwork

LEMMA VInvTypes == VInv => ViewsTypeOK
  <1> SUFFICES ASSUME VInv PROVE ViewsTypeOK
    OBVIOUS
  <1>1. /\ ToSet(urls) \subseteq Statuses /\ ToSet(loads) \subseteq Load
        /\ ToSet(polls) \subseteq Poll
    BY DEF VInv, VTypes, ToSet
  <1>2. {loadError, isLoading} \subseteq BOOLEAN /\ {owner, holdings} \subseteq Owners \cup {NoOwner}
    BY DEF VInv, VTypes
  <1> QED
    BY <1>1, <1>2 DEF VInv, VTypes, ViewsTypeOK, Load, Poll

LEMMA VInvInit == ViewsInit => VInv
  <1> SUFFICES ASSUME ViewsInit PROVE VInv
    OBVIOUS
  <1>1. /\ urls \in Seq(Statuses) /\ urls # << >> /\ loads \in Seq(Load) /\ polls \in Seq(Poll)
        /\ Len(loads) = 0 /\ Len(polls) = 0
    BY DEF ViewsInit, Statuses
  <1>2. loadError \in BOOLEAN /\ isLoading \in BOOLEAN
    BY DEF ViewsInit
  <1>3. turns \in 0..MaxTurns /\ viewFaults \in 0..MaxViewFaults
    BY ViewsAssumption DEF ViewsInit
  <1> QED
    BY <1>1, <1>2, <1>3
       DEF ViewsInit, VInv, VTypes, MountedIsOwners, ActiveHasWallet, HoldingsAreOwned,
           NoWalletNoNetwork

\* The effect of the holdings leaves one load that counts, the new wallet's.
LEMMA LoadsFollow ==
    ASSUME VInv, NEW w \in Owners \cup {NoOwner}, loadHoldings(w)
    PROVE  /\ loads' \in Seq(Load) /\ isLoading' \in BOOLEAN
           /\ \A i \in 1..Len(loads') : loads'[i].mounted => loads'[i].of = w
           /\ w # NoOwner => isLoading'
           /\ w = NoOwner => isLoading' = isLoading
  <1> DEFINE given(i) == [loads[i] EXCEPT !.mounted = FALSE]
  <1>0. loads \in Seq(Load) /\ Len(loads) \in Nat /\ isLoading \in BOOLEAN
    BY DEF VInv, VTypes
  <1>1. \A i \in 1..Len(loads) : given(i) \in Load /\ ~given(i).mounted
    <2> SUFFICES ASSUME NEW i \in 1..Len(loads) PROVE given(i) \in Load /\ ~given(i).mounted
      OBVIOUS
    <2>1. loads[i] \in Load
      BY <1>0
    <2> QED BY <2>1 DEF Load
  <1>2. unmounted = [i \in 1..Len(loads) |-> given(i)]
    BY <1>0 DEF unmounted
  <1> HIDE DEF given
  <1>3. unmounted \in Seq(Load) /\ Len(unmounted) = Len(loads)
        /\ \A i \in 1..Len(loads) : ~unmounted[i].mounted
    BY <1>0, <1>1, <1>2
  <1>4. isLoading' = (isLoading \/ w # NoOwner)
    BY DEF loadHoldings
  <1>5. CASE w = NoOwner
    <2>1. loads' = unmounted
      BY <1>5 DEF loadHoldings
    <2> QED BY <1>0, <1>3, <1>4, <1>5, <2>1
  <1>6. CASE w # NoOwner
    <2> DEFINE new == [of |-> w, mounted |-> TRUE]
    <2>1. loads' = Append(unmounted, new)
      BY <1>6 DEF loadHoldings
    <2>2. new \in Load /\ new.of = w
      BY <1>6 DEF Load
    <2> HIDE DEF new
    <2>3. /\ loads' \in Seq(Load) /\ Len(loads') = Len(loads) + 1
          /\ \A i \in 1..Len(loads') : loads'[i] = IF i <= Len(loads) THEN unmounted[i] ELSE new
      BY <1>0, <1>3, <2>1, <2>2
    <2>4. \A i \in 1..Len(loads') : loads'[i].mounted => loads'[i].of = w
      BY <1>0, <1>3, <2>2, <2>3
    <2> QED BY <1>0, <1>4, <1>6, <2>3, <2>4
  <1> QED
    BY <1>5, <1>6

LEMMA PollsFollow ==
    ASSUME VInv, NEW w \in Owners \cup {NoOwner}, watchNetwork(w)
    PROVE  /\ polls' \in Seq(Poll) /\ walletNetwork' \in Networks \cup {"none"}
           /\ \A i \in 1..Len(polls') : polls'[i].active => w # NoOwner
           /\ w = NoOwner => walletNetwork' = "none"
           /\ w # NoOwner => walletNetwork' = walletNetwork
  <1> DEFINE given(i) == [polls[i] EXCEPT !.active = FALSE]
  <1>0. polls \in Seq(Poll) /\ Len(polls) \in Nat /\ walletNetwork \in Networks \cup {"none"}
    BY DEF VInv, VTypes
  <1>1. \A i \in 1..Len(polls) : given(i) \in Poll /\ ~given(i).active
    <2> SUFFICES ASSUME NEW i \in 1..Len(polls) PROVE given(i) \in Poll /\ ~given(i).active
      OBVIOUS
    <2>1. polls[i] \in Poll
      BY <1>0
    <2> QED BY <2>1 DEF Poll
  <1>2. stopped = [i \in 1..Len(polls) |-> given(i)]
    BY <1>0 DEF stopped
  <1> HIDE DEF given
  <1>3. stopped \in Seq(Poll) /\ Len(stopped) = Len(polls)
        /\ \A i \in 1..Len(polls) : ~stopped[i].active
    BY <1>0, <1>1, <1>2
  <1>4. CASE w = NoOwner
    <2>1. polls' = stopped /\ walletNetwork' = "none"
      BY <1>4 DEF watchNetwork
    <2> QED BY <1>0, <1>3, <1>4, <2>1
  <1>5. CASE w # NoOwner
    <2>1. polls' = newNetworkPoll(stopped) /\ walletNetwork' = walletNetwork
      BY <1>5 DEF watchNetwork
    <2>2. polls' \in Seq(Poll)
      BY <1>3, <2>1 DEF newNetworkPoll, Poll
    <2> QED BY <1>0, <1>5, <2>1, <2>2
  <1> QED
    BY <1>4, <1>5

LEMMA VInvStep == VInv /\ [ViewsNext]_viewVars => VInv'
  <1> SUFFICES ASSUME VInv, [ViewsNext]_viewVars PROVE VInv'
    OBVIOUS
  <1> USE ViewsAssumption
  <1> USE DEF VInv, VTypes
  <1>0. /\ MountedIsOwners /\ ActiveHasWallet /\ HoldingsAreOwned /\ NoWalletNoNetwork
        /\ DOMAIN loads = 1..Len(loads) /\ DOMAIN polls = 1..Len(polls)
        /\ Len(loads) \in Nat /\ Len(polls) \in Nat /\ Len(urls) \in Nat
    OBVIOUS
  <1>1. CASE UNCHANGED viewVars
    BY <1>1 DEF viewVars, MountedIsOwners, ActiveHasWallet, HoldingsAreOwned, NoWalletNoNetwork
  <1>2. ASSUME NEW w \in Owners \cup {NoOwner}, ownerChanges(w) PROVE VInv'
    <2>1. /\ owner' = w /\ loadHoldings(w) /\ watchNetwork(w)
          /\ UNCHANGED <<urls, holdings, loadError, extNetwork, viewFaults>>
          /\ turns' \in 0..MaxTurns
      BY <1>2 DEF ownerChanges, Turn
    <2>2. /\ loads' \in Seq(Load) /\ isLoading' \in BOOLEAN
          /\ \A i \in 1..Len(loads') : loads'[i].mounted => loads'[i].of = w
          /\ w # NoOwner => isLoading'
      BY <2>1, LoadsFollow
    <2>3. /\ polls' \in Seq(Poll) /\ walletNetwork' \in Networks \cup {"none"}
          /\ \A i \in 1..Len(polls') : polls'[i].active => w # NoOwner
          /\ w = NoOwner => walletNetwork' = "none"
      BY <2>1, PollsFollow
    <2>4. VTypes'
      BY <2>1, <2>2, <2>3
    <2> QED BY <2>1, <2>2, <2>3, <2>4
            DEF MountedIsOwners, ActiveHasWallet, HoldingsAreOwned, NoWalletNoNetwork
  <1>3. ASSUME NEW i \in DOMAIN loads, NEW ok \in BOOLEAN, getPortfolioHoldings(i, ok) PROVE VInv'
    <2>0. i \in 1..Len(loads) /\ loads \in Seq(Load) /\ loads[i] \in Load /\ loads[i].of \in Owners
      <3>1. i \in 1..Len(loads) /\ loads \in Seq(Load) /\ loads[i] \in Load
        BY <1>0
      <3> QED BY <3>1 DEF Load
    <2>1. /\ loads' = RemoveAt(loads, i) /\ viewFaults' \in 0..MaxViewFaults
          /\ UNCHANGED <<owner, urls, turns, extNetwork, polls, walletNetwork>>
      BY <1>3 DEF getPortfolioHoldings, networkVars, ViewFault
    <2>2. loads' \in Seq(Load)
      BY <2>0, <2>1, RemovedPlaces
    <2>3. \A j \in 1..Len(loads') : \E m \in 1..Len(loads) : loads'[j] = loads[m]
      BY ONLY <2>0, <2>1, RemovedFrom
    <2>4. MountedIsOwners'
      BY <1>0, <2>1, <2>3 DEF MountedIsOwners
    <2>5. CASE loads[i].mounted
      <3>1. /\ holdings' = IF ok THEN loads[i].of ELSE holdings
            /\ loadError' = ~ok /\ isLoading' = FALSE
        BY <1>3, <2>5 DEF getPortfolioHoldings, loadingEnds
      <3>2. loads[i].of = owner
        BY <1>0, <2>0, <2>5 DEF MountedIsOwners
      <3>3. loadError' \in BOOLEAN /\ isLoading' \in BOOLEAN /\ holdings' \in Owners \cup {NoOwner}
        BY <2>0, <3>1
      <3>4. VTypes'
        BY <2>1, <2>2, <3>3
      <3>5. HoldingsAreOwned'
        BY <2>1, <3>1, <3>2 DEF HoldingsAreOwned
      <3> QED BY <1>0, <2>1, <2>4, <3>4, <3>5 DEF ActiveHasWallet, NoWalletNoNetwork
    <2>6. CASE ~loads[i].mounted
      <3>1. UNCHANGED <<holdings, loadError, isLoading>>
        BY <1>3, <2>6 DEF getPortfolioHoldings
      <3>2. VTypes'
        BY <2>1, <2>2, <3>1
      <3> QED BY <1>0, <2>1, <2>4, <3>1, <3>2
              DEF ActiveHasWallet, NoWalletNoNetwork, HoldingsAreOwned
    <2> QED BY <2>5, <2>6
  <1>4. ASSUME NEW next \in Seq(Statuses), next # << >>, shown(next) PROVE VInv'
    <2>1. /\ urls' = next /\ turns' \in 0..MaxTurns
          /\ UNCHANGED <<owner, holdings, loadError, viewFaults, extNetwork, polls, walletNetwork>>
          /\ UNCHANGED <<loads, isLoading>> \/ loadHoldings(owner)
      BY <1>4 DEF shown, Turn, networkVars
    <2>2. /\ loads' \in Seq(Load) /\ isLoading' \in BOOLEAN
          /\ \A i \in 1..Len(loads') : loads'[i].mounted => loads'[i].of = owner
          /\ owner # NoOwner /\ ~isLoading' => ~isLoading
      <3>1. CASE UNCHANGED <<loads, isLoading>>
        BY <1>0, <3>1 DEF MountedIsOwners
      <3>2. CASE loadHoldings(owner)
        BY <3>2, LoadsFollow
      <3> QED BY <2>1, <3>1, <3>2
    <2>3. VTypes'
      BY <1>4, <2>1, <2>2
    <2> QED BY <1>0, <2>1, <2>2, <2>3
            DEF MountedIsOwners, ActiveHasWallet, HoldingsAreOwned, NoWalletNoNetwork
  <1>5. CASE (\E st \in Statuses : setFilters(st)) \/ resetFilters
    <2>1. PICK st \in Statuses : shown(Append(urls, st))
      BY <1>5 DEF setFilters, resetFilters, Statuses
    <2>2. Append(urls, st) \in Seq(Statuses) /\ Append(urls, st) # << >>
      OBVIOUS
    <2> QED BY <1>4, <2>1, <2>2
  <1>6. CASE goBack
    <2>1. Front(urls) \in Seq(Statuses) /\ Len(Front(urls)) = Len(urls) - 1
      BY <1>0, <1>6 DEF goBack, Front
    <2>2. Front(urls) # << >>
      BY <1>0, <1>6, <2>1 DEF goBack
    <2> QED BY <1>4, <1>6, <2>1, <2>2 DEF goBack
  <1>7. CASE networkTimer
    <2>1. /\ owner # NoOwner /\ polls' = newNetworkPoll(polls)
          /\ UNCHANGED <<owner, extNetwork, walletNetwork, turns, viewFaults, urls, loads,
                         holdings, loadError, isLoading>>
      BY <1>7 DEF networkTimer, holdingVars
    <2>2. polls' \in Seq(Poll)
      BY <2>1 DEF newNetworkPoll, Poll
    <2>3. VTypes'
      BY <2>1, <2>2
    <2> QED BY <1>0, <2>1, <2>3
            DEF MountedIsOwners, ActiveHasWallet, HoldingsAreOwned, NoWalletNoNetwork
  <1>8. ASSUME NEW i \in DOMAIN polls, getNetworkDetails(i) PROVE VInv'
    <2>0. i \in 1..Len(polls) /\ polls[i] \in Poll
      BY <1>0
    <2> DEFINE new == [polls[i] EXCEPT !.saw = extNetwork]
    <2>1. /\ polls' = [polls EXCEPT ![i] = new]
          /\ UNCHANGED <<owner, extNetwork, walletNetwork, turns, viewFaults, urls, loads,
                         holdings, loadError, isLoading>>
      BY <1>8 DEF getNetworkDetails, holdingVars
    <2>2. new \in Poll /\ new.active = polls[i].active
      BY <2>0 DEF Poll
    <2> HIDE DEF new
    <2>3. /\ polls' \in Seq(Poll) /\ Len(polls') = Len(polls)
          /\ \A j \in 1..Len(polls) : polls'[j] = IF j = i THEN new ELSE polls[j]
      BY <2>0, <2>1, <2>2
    <2>4. ActiveHasWallet'
      BY <1>0, <2>0, <2>1, <2>2, <2>3 DEF ActiveHasWallet
    <2>5. VTypes'
      BY <2>1, <2>3
    <2> QED BY <1>0, <2>1, <2>4, <2>5 DEF MountedIsOwners, HoldingsAreOwned, NoWalletNoNetwork
  <1>9. ASSUME NEW i \in DOMAIN polls, NEW ok \in BOOLEAN, networkAnswered(i, ok) PROVE VInv'
    <2>0. i \in 1..Len(polls) /\ polls \in Seq(Poll) /\ polls[i] \in Poll
      BY <1>0
    <2>1. /\ polls' = RemoveAt(polls, i) /\ walletNetwork' = answeredNetwork(i, ok)
          /\ viewFaults' \in 0..MaxViewFaults
          /\ UNCHANGED <<owner, extNetwork, turns, urls, loads, holdings, loadError, isLoading>>
      BY <1>9 DEF networkAnswered, holdingVars, ViewFault
    <2>2. polls' \in Seq(Poll)
      BY <2>0, <2>1, RemovedPlaces
    <2>3. \A j \in 1..Len(polls') : \E m \in 1..Len(polls) : polls'[j] = polls[m]
      BY ONLY <2>0, <2>1, RemovedFrom
    <2>4. ActiveHasWallet'
      BY <1>0, <2>1, <2>3 DEF ActiveHasWallet
    <2>5. walletNetwork' \in Networks \cup {"none"} /\ NoWalletNoNetwork'
      BY <1>0, <2>0, <2>1 DEF answeredNetwork, Poll, ActiveHasWallet, NoWalletNoNetwork
    <2>6. VTypes'
      BY <2>1, <2>2, <2>5
    <2> QED BY <1>0, <2>1, <2>4, <2>5, <2>6 DEF MountedIsOwners, HoldingsAreOwned
  <1>10. ASSUME NEW n \in Networks, switchNetwork(n) PROVE VInv'
    <2>1. /\ extNetwork' = n /\ turns' \in 0..MaxTurns
          /\ UNCHANGED <<owner, polls, walletNetwork, viewFaults, urls, loads, holdings,
                         loadError, isLoading>>
      BY <1>10 DEF switchNetwork, holdingVars, Turn
    <2>2. VTypes'
      BY <2>1
    <2> QED BY <1>0, <2>1, <2>2
            DEF MountedIsOwners, ActiveHasWallet, HoldingsAreOwned, NoWalletNoNetwork
  <1> QED
    BY <1>1, <1>2, <1>3, <1>5, <1>6, <1>7, <1>8, <1>9, <1>10 DEF ViewsNext

LEMMA NetworkStep ==
    VInv /\ [ViewsNext]_viewVars =>
        [owner # NoOwner /\ owner' # NoOwner /\ walletNetwork # "none"
            => walletNetwork' # "none"]_viewVars
  <1> SUFFICES ASSUME VInv, ViewsNext, owner' # NoOwner, walletNetwork # "none"
               PROVE  walletNetwork' # "none"
    OBVIOUS
  <1>1. ASSUME NEW w \in Owners \cup {NoOwner}, ownerChanges(w) PROVE walletNetwork' # "none"
    BY <1>1, PollsFollow DEF ownerChanges
  <1>2. ASSUME NEW i \in DOMAIN polls, NEW ok \in BOOLEAN, networkAnswered(i, ok)
        PROVE  walletNetwork' # "none"
    BY <1>2 DEF networkAnswered, answeredNetwork
  <1> QED
    BY <1>1, <1>2
       DEF ViewsNext, getPortfolioHoldings, setFilters, resetFilters, goBack, shown, networkVars,
           networkTimer, getNetworkDetails, switchNetwork

-----------------------------------------------------------------------------
(* The preferences *)

Choice == [scope : Scopes, field : PrefFields]

PInv ==
    /\ PrefTypeOK /\ choices \in Seq(Choice) /\ Crowd(scope) \subseteq crowded
    /\ PreferencesStayApart /\ TabShowsStored

LEMMA PInvInit == PrefInit => PInv
  <1> SUFFICES ASSUME PrefInit PROVE PInv
    OBVIOUS
  <1>1. /\ scope \in [PrefTabs -> Scopes] /\ storage = << >> /\ choices = << >>
        /\ prefs = [t \in PrefTabs |-> DEFAULT_PREFERENCES] /\ crowded = Crowd(scope) /\ full = {}
    BY DEF PrefInit
  <1>2. DOMAIN storage = {} /\ choices \in Seq(Choice) /\ Len(choices) = 0
    BY <1>1
  <1>3. DEFAULT_PREFERENCES \in [PrefFields -> Values] /\ \A f \in PrefFields : DEFAULT_PREFERENCES[f] = 0
    BY PrefAssumption DEF DEFAULT_PREFERENCES, Values
  <1> HIDE DEF DEFAULT_PREFERENCES
  <1>4. crowded \subseteq Scopes
    BY <1>1 DEF Crowd
  <1>5. PrefTypeOK
    BY <1>1, <1>2, <1>3, <1>4, PrefAssumption DEF PrefTypeOK
  <1>6. PreferencesStayApart
    BY <1>1, <1>2, <1>3 DEF PreferencesStayApart, ChosenFor
  <1>7. TabShowsStored
    BY <1>1, <1>2 DEF TabShowsStored, InStorage
  <1> QED
    BY <1>1, <1>2, <1>5, <1>6, <1>7 DEF PInv

\* A tab writes all its preferences, under the key of its wallet.
LEMMA PrefsWritten ==
    ASSUME PInv, NEW t \in PrefTabs, NEW ok \in BOOLEAN,
           NEW next \in [PrefFields -> Values], prefs' = [prefs EXCEPT ![t] = next],
           savePreferences(next, scope[t], ok), UNCHANGED <<scope, crowded>>,
           choices' \in Seq(Choice), Len(choices') <= MaxPrefWrites,
           \A k \in Scopes, f \in PrefFields : ChosenFor(k, f) \subseteq ChosenFor(k, f)',
           \A f \in PrefFields : next[f] \in ChosenFor(scope[t], f)'
    PROVE  PInv'
  <1>0. /\ scope \in [PrefTabs -> Scopes] /\ prefs \in [PrefTabs -> [PrefFields -> Values]]
        /\ DOMAIN storage \subseteq Scopes
        /\ \A k \in DOMAIN storage : storage[k] \in [PrefFields -> Values]
        /\ crowded \cup full \subseteq Scopes /\ scope[t] \in Scopes
        /\ PreferencesStayApart /\ TabShowsStored /\ Crowd(scope) \subseteq crowded
    BY DEF PInv, PrefTypeOK
  <1>1. \A u \in PrefTabs : prefs'[u] = IF u = t THEN next ELSE prefs[u]
    BY <1>0
  <1>2. \/ /\ ok /\ full' = full
           /\ storage' = [j \in DOMAIN storage \cup {scope[t]} |->
                             IF j = scope[t] THEN next ELSE storage[j]]
        \/ ~ok /\ full' = full \cup {scope[t]} /\ storage' = storage
    BY DEF savePreferences, getStorageKey
  <1>3. /\ DOMAIN storage' \subseteq Scopes /\ DOMAIN storage \subseteq DOMAIN storage'
        /\ \A k \in DOMAIN storage' :
              \/ k = scope[t] /\ storage'[k] = next
              \/ k \in DOMAIN storage /\ storage'[k] = storage[k]
        /\ full' \subseteq Scopes
    BY <1>0, <1>2
  <1>4. PrefTypeOK'
    <2>1. prefs' \in [PrefTabs -> [PrefFields -> Values]]
      BY <1>0
    <2>2. \A k \in DOMAIN storage' : storage'[k] \in [PrefFields -> Values]
      BY <1>0, <1>3
    <2> QED BY <1>0, <1>3, <2>1, <2>2 DEF PrefTypeOK, Values
  <1>5. PreferencesStayApart'
    <2>1. ASSUME NEW f \in PrefFields, NEW k \in DOMAIN storage'
          PROVE  storage'[k][f] \in ChosenFor(k, f)'
      BY <1>0, <1>3 DEF PreferencesStayApart
    <2>2. ASSUME NEW f \in PrefFields, NEW u \in PrefTabs
          PROVE  prefs'[u][f] \in ChosenFor(scope[u], f)'
      <3>1. scope[u] \in Scopes /\ scope'[u] = scope[u]
        BY <1>0
      <3>2. CASE u = t
        BY <1>1, <3>1, <3>2
      <3>3. CASE u # t
        <4>1. prefs'[u][f] \in ChosenFor(scope[u], f)
          BY <1>0, <1>1, <3>3 DEF PreferencesStayApart
        <4>2. ChosenFor(scope[u], f) \subseteq ChosenFor(scope[u], f)'
          BY <3>1 DEF ChosenFor
        <4> QED BY <4>1, <4>2
      <3> QED BY <3>2, <3>3
    <2> QED BY <2>1, <2>2 DEF PreferencesStayApart
  <1>6. TabShowsStored'
    <2> SUFFICES ASSUME NEW u \in PrefTabs, scope[u] \notin crowded \cup full'
                 PROVE  prefs'[u] = IF scope[u] \in DOMAIN storage' THEN storage'[scope[u]]
                                    ELSE DEFAULT_PREFERENCES
      BY DEF TabShowsStored, InStorage, DEFAULT_PREFERENCES
    <2>1. scope[u] \notin full
      BY <1>2
    <2>2. CASE scope[u] = scope[t]
      <3>1. u = t
        BY <1>0, <2>2 DEF Crowd
      <3>2. ok
        BY <1>2, <2>2
      <3> QED BY <1>1, <1>2, <3>1, <3>2
    <2>3. CASE scope[u] # scope[t]
      <3>1. prefs'[u] = prefs[u]
        BY <1>1, <2>3
      <3>2. prefs[u] = IF scope[u] \in DOMAIN storage THEN storage[scope[u]] ELSE DEFAULT_PREFERENCES
        BY <1>0, <2>1 DEF TabShowsStored, InStorage
      <3>3. scope[u] \in DOMAIN storage' <=> scope[u] \in DOMAIN storage
        BY <1>2, <2>3
      <3>4. scope[u] \in DOMAIN storage => storage'[scope[u]] = storage[scope[u]]
        BY <1>3, <2>3, <3>3
      <3> QED BY <3>1, <3>2, <3>3, <3>4
    <2> QED BY <2>2, <2>3
  <1> QED
    BY <1>0, <1>4, <1>5, <1>6 DEF PInv, Crowd

LEMMA PInvStep == PInv /\ [PrefNext]_prefVars => PInv'
  <1> SUFFICES ASSUME PInv, [PrefNext]_prefVars PROVE PInv'
    OBVIOUS
  <1>0. /\ scope \in [PrefTabs -> Scopes] /\ prefs \in [PrefTabs -> [PrefFields -> Values]]
        /\ choices \in Seq(Choice) /\ Len(choices) \in Nat /\ Len(choices) <= MaxPrefWrites
        /\ MaxPrefWrites \in Nat
    BY PrefAssumption DEF PInv, PrefTypeOK
  <1>1. CASE UNCHANGED prefVars
    BY <1>1 DEF prefVars, PInv, PrefTypeOK, PreferencesStayApart, TabShowsStored, ChosenFor,
                InStorage, Crowd
  <1>2. ASSUME NEW t \in PrefTabs, NEW f \in PrefFields, NEW ok \in BOOLEAN, setPreferences(t, f, ok)
        PROVE  PInv'
    <2> DEFINE n == Len(choices) + 1
               next == [prefs[t] EXCEPT ![f] = n]
               new == [scope |-> scope[t], field |-> f]
    <2>1. /\ n <= MaxPrefWrites /\ prefs' = [prefs EXCEPT ![t] = next]
          /\ savePreferences(next, scope[t], ok) /\ choices' = Append(choices, new)
          /\ UNCHANGED <<scope, crowded>>
      BY <1>2 DEF setPreferences
    <2>2. new \in Choice /\ scope[t] \in Scopes
      BY <1>0 DEF Choice
    <2>3. n \in Values
      BY <1>0, <2>1 DEF Values
    <2>4. next \in [PrefFields -> Values]
          /\ \A g \in PrefFields : next[g] = IF g = f THEN n ELSE prefs[t][g]
      BY <1>0, <2>3
    <2> HIDE DEF new
    <2>5. /\ choices' \in Seq(Choice) /\ DOMAIN choices = 1..Len(choices)
          /\ DOMAIN choices' = 1..n /\ Len(choices') = n /\ choices'[n] = new
          /\ \A i \in 1..Len(choices) : choices'[i] = choices[i]
      BY <1>0, <2>1, <2>2
    <2> HIDE DEF next
    <2>6. \A i \in DOMAIN choices : i \in DOMAIN choices' /\ choices'[i] = choices[i]
      BY <1>0, <2>5
    <2>7. \A k \in Scopes, g \in PrefFields : ChosenFor(k, g) \subseteq ChosenFor(k, g)'
      BY <2>6 DEF ChosenFor
    <2>8. n \in ChosenFor(scope[t], f)'
      <3>1. n \in DOMAIN choices'
        BY <1>0, <2>5
      <3> QED BY <2>1, <2>5, <3>1 DEF ChosenFor, new
    <2>9. \A g \in PrefFields : next[g] \in ChosenFor(scope[t], g)'
      <3>1. \A g \in PrefFields : prefs[t][g] \in ChosenFor(scope[t], g)
        BY DEF PInv, PreferencesStayApart
      <3>2. \A g \in PrefFields : ChosenFor(scope[t], g) \subseteq ChosenFor(scope[t], g)'
        BY <2>1, <2>6 DEF ChosenFor
      <3> QED BY <2>4, <2>8, <3>1, <3>2
    <2>10. /\ next \in [PrefFields -> Values] /\ prefs' = [prefs EXCEPT ![t] = next]
           /\ savePreferences(next, scope[t], ok) /\ UNCHANGED <<scope, crowded>>
           /\ choices' \in Seq(Choice) /\ Len(choices') <= MaxPrefWrites
      BY <2>1, <2>4, <2>5
    <2> QED BY ONLY PInv, t \in PrefTabs, ok \in BOOLEAN, <2>7, <2>9, <2>10, PrefsWritten
  <1>3. ASSUME NEW t \in PrefTabs, NEW ok \in BOOLEAN, resetToDefaults(t, ok) PROVE PInv'
    <2>1. DEFAULT_PREFERENCES \in [PrefFields -> Values]
          /\ \A f \in PrefFields : DEFAULT_PREFERENCES[f] = 0
      BY PrefAssumption DEF DEFAULT_PREFERENCES, Values
    <2>2. /\ prefs' = [prefs EXCEPT ![t] = DEFAULT_PREFERENCES]
          /\ savePreferences(DEFAULT_PREFERENCES, scope[t], ok)
          /\ UNCHANGED <<scope, choices, crowded>>
      BY <1>3 DEF resetToDefaults
    <2>3. /\ \A k \in Scopes, f \in PrefFields : ChosenFor(k, f) \subseteq ChosenFor(k, f)'
          /\ \A f \in PrefFields : DEFAULT_PREFERENCES[f] \in ChosenFor(scope[t], f)'
      BY <2>1, <2>2 DEF ChosenFor
    <2> QED BY <1>0, <2>1, <2>2, <2>3, PrefsWritten
  <1>4. ASSUME NEW t \in PrefTabs, NEW k \in Scopes, prefWalletChanges(t, k) PROVE PInv'
    <2> DEFINE next == IF k \in DOMAIN storage THEN storage[k] ELSE DEFAULT_PREFERENCES
    <2>1. /\ scope' = [scope EXCEPT ![t] = k] /\ prefs' = [prefs EXCEPT ![t] = next]
          /\ crowded' = crowded \cup Crowd(scope') /\ UNCHANGED <<storage, choices, full>>
      BY <1>4 DEF prefWalletChanges, reloaded, loadPreferences, getStorageKey
    <2>2. DEFAULT_PREFERENCES \in [PrefFields -> Values]
          /\ \A f \in PrefFields : DEFAULT_PREFERENCES[f] = 0
      BY PrefAssumption DEF DEFAULT_PREFERENCES, Values
    <2>3. next \in [PrefFields -> Values] /\ \A f \in PrefFields : next[f] \in ChosenFor(k, f)
      BY <2>2 DEF PInv, PrefTypeOK, PreferencesStayApart, ChosenFor
    <2> HIDE DEF DEFAULT_PREFERENCES
    <2>4. \A u \in PrefTabs : /\ scope'[u] = IF u = t THEN k ELSE scope[u]
                              /\ prefs'[u] = IF u = t THEN next ELSE prefs[u]
      BY <1>0, <2>1
    <2>5. PrefTypeOK'
      <3>1. scope' \in [PrefTabs -> Scopes] /\ prefs' \in [PrefTabs -> [PrefFields -> Values]]
        BY <1>0, <2>1, <2>3
      <3>2. crowded' \subseteq Scopes
        BY <2>1 DEF PInv, PrefTypeOK, Crowd
      <3> QED BY <2>1, <3>1, <3>2 DEF PInv, PrefTypeOK, Values
    <2>6. PreferencesStayApart'
      <3>1. \A j \in Scopes, f \in PrefFields : ChosenFor(j, f)' = ChosenFor(j, f)
        BY <2>1 DEF ChosenFor
      <3>2. ASSUME NEW u \in PrefTabs, NEW f \in PrefFields
            PROVE  prefs'[u][f] \in ChosenFor(scope'[u], f)
        BY <2>3, <2>4 DEF PInv, PreferencesStayApart
      <3>3. \A u \in PrefTabs, f \in PrefFields : prefs'[u][f] \in ChosenFor(scope[u], f)'
        BY <2>1, <3>2 DEF ChosenFor
      <3> QED BY <2>1, <3>3 DEF PInv, PreferencesStayApart, ChosenFor
    <2>7. TabShowsStored'
      <3> SUFFICES ASSUME NEW u \in PrefTabs, scope'[u] \notin crowded' \cup full'
                   PROVE  prefs'[u] = InStorage(scope[u])'
        BY DEF TabShowsStored
      <3>1. prefs'[u] = IF scope'[u] \in DOMAIN storage THEN storage[scope'[u]] ELSE DEFAULT_PREFERENCES
        <4>1. CASE u = t
          BY <2>4, <4>1
        <4>2. CASE u # t
          <5>1. scope'[u] = scope[u] /\ prefs'[u] = prefs[u] /\ scope[u] \notin crowded \cup full
            BY <2>1, <2>4, <4>2
          <5>2. prefs[u] = InStorage(scope[u])
            BY <5>1 DEF PInv, TabShowsStored
          <5> QED BY <5>1, <5>2 DEF InStorage
        <4> QED BY <4>1, <4>2
      <3> QED BY <2>1, <3>1 DEF InStorage, DEFAULT_PREFERENCES
    <2> QED BY <2>1, <2>5, <2>6, <2>7 DEF PInv, Crowd
  <1> QED
    BY <1>1, <1>2, <1>3, <1>4 DEF PrefNext

-----------------------------------------------------------------------------
(* The filters of the table *)

Text == {"", "some", "bad"}

BoxTypes(f) ==
    /\ params.filter[f] \in Text /\ seen.filter[f] \in Text /\ typed[f] \in Text
    /\ armed[f] \in BOOLEAN /\ intended[f] \in Text

\* How a box whose choice is not lost may stand.  Either it shows the choice,
\* and the URL has it, will have it when the timer fires, or is about to be
\* rendered; or it was reset beside the box, and still shows what was there.
Kept(f) ==
    \/ /\ typed[f] = intended[f]
       /\ params.filter[f] \in {seen.filter[f], intended[f]}
       /\ ~armed[f] /\ params = seen => parsed(params.filter[f]) = intended[f]
    \/ /\ intended[f] = "" /\ parsed(seen.filter[f]) # "" /\ typed[f] # ""
       /\ IF armed[f] THEN params.filter[f] \in {"", seen.filter[f]}
                      ELSE parsed(params.filter[f]) = ""

BoxOK(f) ==
    /\ armed[f] => typed[f] # parsed(seen.filter[f])
    /\ f \in raced \/ intended[f] = "bad" \/ Kept(f)

TypesOK ==
    /\ intended["types"] # "bad"
    /\ "types" \in raced \/ params.filter["types"] = intended["types"]

FInv ==
    /\ TableTypeOK /\ typed["search"] # "bad" /\ TypesOK
    /\ \A f \in Boxes : BoxOK(f)

\* What a step makes of a box: another field or the page is written,
LEMMA BoxOther ==
    ASSUME NEW f, BoxTypes(f), BoxOK(f), params = seen => params.filter[f] = seen.filter[f],
           params'.filter[f] = seen.filter[f],
           seen' = seen, typed'[f] = typed[f], armed'[f] = armed[f], intended'[f] = intended[f],
           f \in raced' <=> \/ f \in raced
                            \/ /\ ~armed[f] /\ parsed(params'.filter[f]) # intended[f]
                               /\ typed[f] # intended[f] \/ params' = seen
    PROVE  BoxOK(f)'
  BY DEF BoxTypes, BoxOK, Kept, Text, parsed

\* its timer fires,
LEMMA BoxFires ==
    ASSUME NEW f, BoxTypes(f), BoxOK(f), params = seen => params.filter[f] = seen.filter[f],
           params' = seen => params'.filter[f] = seen.filter[f],
           armed[f], ~armed'[f], params'.filter[f] = typed[f],
           seen' = seen, typed'[f] = typed[f], intended'[f] = intended[f],
           f \in raced' <=> f \in raced
    PROVE  BoxOK(f)'
  BY DEF BoxTypes, BoxOK, Kept, Text, parsed

\* it is typed into,
LEMMA BoxTyped ==
    ASSUME NEW f, BoxTypes(f), NEW text \in Text, params = seen => params.filter[f] = seen.filter[f],
           UNCHANGED <<params, seen>>, typed'[f] = text, intended'[f] = text,
           armed'[f] = (text # parsed(seen.filter[f])),
           f \in raced' <=> params.filter[f] # seen.filter[f]
    PROVE  BoxOK(f)'
  BY DEF BoxTypes, BoxOK, Kept, Text, parsed

\* it is reset,
LEMMA BoxReset ==
    ASSUME NEW f, BoxTypes(f), BoxOK(f),
           params' = seen => params'.filter[f] = seen.filter[f],
           params'.filter[f] = "", intended'[f] = "",
           seen' = seen, typed'[f] = typed[f], armed'[f] = armed[f],
           f \in raced' <=> typed[f] # "" /\ parsed(seen.filter[f]) = ""
    PROVE  BoxOK(f)'
  BY DEF BoxTypes, BoxOK, Kept, Text, parsed

\* it is cleared with all the others,
LEMMA BoxCleared ==
    ASSUME NEW f, BoxTypes(f), params' # seen, params'.filter[f] = "", intended'[f] = "",
           seen' = seen, typed'[f] = "", armed'[f] = ("" # parsed(seen.filter[f]))
    PROVE  BoxOK(f)'
  BY DEF BoxTypes, BoxOK, Kept, Text, parsed

\* the URL is rendered.
LEMMA BoxRendered ==
    ASSUME NEW f, BoxTypes(f), BoxOK(f), params # seen,
           seen' = params, params' = params, intended'[f] = intended[f],
           f \in raced' <=> f \in raced,
           typed'[f] = IF parsed(params.filter[f]) # parsed(seen.filter[f])
                       THEN parsed(params.filter[f]) ELSE typed[f],
           armed'[f] = (typed'[f] # parsed(params.filter[f]))
    PROVE  BoxOK(f)'
  BY DEF BoxTypes, BoxOK, Kept, Text, parsed

Url == [filter : [Fields -> Text], page : Nat \ {0}]

\* The state of the table, taken apart.
LEMMA TableParts ==
    ASSUME FInv
    PROVE  /\ params \in Url /\ seen \in Url
           /\ params.filter \in [Fields -> Text] /\ seen.filter \in [Fields -> Text]
           /\ seen.page \in Nat \ {0}
           /\ typed \in [Boxes -> Text] /\ armed \in [Boxes -> BOOLEAN]
           /\ intended \in [Fields -> Text] /\ raced \subseteq Fields
           /\ edits \in 0..MaxEdits /\ MaxEdits \in Nat
           /\ \A f \in Boxes : f \in Fields /\ BoxTypes(f) /\ BoxOK(f)
           /\ "types" \in Fields /\ "types" \notin Boxes /\ "search" \in Boxes /\ "amount" \in Boxes
           /\ Fields \ Boxes = {"types"}
           /\ \A f \in Boxes : f # "types"
  <1>1. /\ params \in Url /\ seen \in Url /\ typed \in [Boxes -> Text] /\ armed \in [Boxes -> BOOLEAN]
        /\ intended \in [Fields -> Text] /\ raced \subseteq Fields /\ edits \in 0..MaxEdits
    BY DEF FInv, TableTypeOK, Url, Text
  <1>2. /\ params.filter \in [Fields -> Text] /\ seen.filter \in [Fields -> Text]
        /\ seen.page \in Nat \ {0}
    BY <1>1 DEF Url
  <1>3. /\ "types" \in Fields /\ "types" \notin Boxes /\ "search" \in Boxes /\ "amount" \in Boxes
        /\ Fields \ Boxes = {"types"} /\ (\A f \in Boxes : f # "types") /\ \A f \in Boxes : f \in Fields
    BY DEF Fields, Boxes
  <1>4. \A f \in Boxes : BoxTypes(f) /\ BoxOK(f)
    BY <1>1, <1>2, <1>3 DEF FInv, BoxTypes
  <1>5. MaxEdits \in Nat
    BY TableAssumption
  <1> QED
    BY <1>1, <1>2, <1>3, <1>4, <1>5

\* A step keeps the types when what it writes has them.
LEMMA TableTyped ==
    ASSUME params' \in Url, seen' \in Url, typed' \in [Boxes -> Text], armed' \in [Boxes -> BOOLEAN],
           intended' \in [Fields -> Text], raced' \subseteq Fields, edits' \in 0..MaxEdits,
           loaded' \subseteq TableRows, mode' \in {"paginated", "infinite"},
           visible' \in Nat, locked' \in BOOLEAN
    PROVE  TableTypeOK'
  BY DEF TableTypeOK, Url, Text

LEMMA FInvInit == TableInit => FInv
  <1> SUFFICES ASSUME TableInit PROVE FInv
    OBVIOUS
  <1>1. NoFilter \in [Fields -> Text] /\ \A f \in Fields : NoFilter[f] = ""
    BY DEF NoFilter, Text
  <1> HIDE DEF NoFilter
  <1>2. /\ params = [filter |-> NoFilter, page |-> 1] /\ seen = params /\ raced = {}
        /\ typed = [f \in Boxes |-> ""] /\ armed = [f \in Boxes |-> FALSE] /\ intended = NoFilter
        /\ loaded = {} /\ mode = "paginated" /\ visible = BatchSize /\ locked = FALSE /\ edits = 0
    BY DEF TableInit
  <1>3. params \in Url /\ seen \in Url /\ params.filter = NoFilter /\ seen.filter = NoFilter
    <2>1. 1 \in Nat \ {0}
      OBVIOUS
    <2>2. [filter |-> NoFilter, page |-> 1] \in Url
      BY <1>1, <2>1 DEF Url
    <2> QED BY <1>2, <2>2
  <1>4. typed \in [Boxes -> Text] /\ armed \in [Boxes -> BOOLEAN] /\ intended \in [Fields -> Text]
    BY <1>1, <1>2 DEF Text
  <1>5. locked \in BOOLEAN /\ visible \in Nat /\ edits \in 0..MaxEdits
    <2>1. locked \in BOOLEAN
      BY <1>2
    <2>2. BatchSize \in Nat /\ MaxEdits \in Nat
      BY TableAssumption
    <2>3. visible \in Nat
      BY <1>2, <2>2
    <2>4. edits = 0 /\ 0 \in 0..MaxEdits
      <3>1. edits = 0
        BY <1>2
      <3>2. 0 \in 0..MaxEdits
        BY <2>2
      <3> QED BY <3>1, <3>2
    <2> QED BY <2>1, <2>3, <2>4
  <1>6. TableTypeOK
    <2>1. {params, seen} \subseteq Url /\ loaded \subseteq TableRows /\ raced \subseteq Fields
          /\ mode \in {"paginated", "infinite"}
      BY <1>2, <1>3
    <2> QED BY <1>4, <1>5, <2>1 DEF TableTypeOK, Url, Text
  <1>7. /\ "types" \in Fields /\ "search" \in Boxes /\ \A f \in Boxes : f \in Fields
    BY DEF Fields, Boxes
  <1>8. \A f \in Boxes : BoxOK(f)
    <2> SUFFICES ASSUME NEW f \in Boxes PROVE BoxOK(f)
      OBVIOUS
    <2>1. /\ params.filter[f] = "" /\ seen.filter[f] = "" /\ typed[f] = "" /\ intended[f] = ""
          /\ ~armed[f]
      BY <1>1, <1>2, <1>3, <1>7
    <2> QED BY <2>1 DEF BoxOK, Kept, parsed
  <1>9. typed["search"] # "bad" /\ TypesOK
    BY <1>1, <1>2, <1>3, <1>7 DEF TypesOK
  <1> QED
    BY <1>6, <1>8, <1>9 DEF FInv

\* What fields a write over the URL as rendered loses.
LEMMA LostFields ==
    ASSUME FInv, NEW F
    PROVE  /\ lost(F) \subseteq Fields
           /\ \A f \in Boxes : f \in lost(F) <=>
                 /\ f \notin F /\ ~armed[f] /\ parsed(params'.filter[f]) # intended[f]
                 /\ typed[f] # intended[f] \/ params' = seen
           /\ "types" \in lost(F) <=>
                 "types" \notin F /\ params.filter["types"] # seen.filter["types"]
  <1>1. /\ "types" \in Fields /\ "types" \notin Boxes /\ \A f \in Boxes : f \in Fields
    BY TableParts
  <1> QED
    BY <1>1 DEF lost

\* A write of the fields F over the URL as it was rendered.
Overwrites(F) ==
    /\ params' \in Url /\ seen' = seen
    /\ \A f \in Fields \ F : params'.filter[f] = seen.filter[f]
    /\ \A f \in Boxes \ F : typed'[f] = typed[f] /\ armed'[f] = armed[f]
    /\ \A f \in Fields \ F : /\ intended'[f] = intended[f]
                             /\ f \in raced' <=> f \in raced \/ f \in lost(F)

LEMMA OtherFields ==
    ASSUME FInv, NEW F \in SUBSET Fields, Overwrites(F)
    PROVE  /\ \A f \in Boxes \ F : BoxOK(f)'
           /\ "types" \notin F => TypesOK'
  <1>0. /\ "types" \in Fields /\ \A f \in Boxes : f \in Fields /\ BoxTypes(f) /\ BoxOK(f)
    BY TableParts
  <1>1. ASSUME NEW f \in Boxes \ F PROVE BoxOK(f)'
    <2>1. f \in lost(F) <=> /\ ~armed[f] /\ parsed(params'.filter[f]) # intended[f]
                            /\ typed[f] # intended[f] \/ params' = seen
      BY LostFields
    <2>2. /\ params'.filter[f] = seen.filter[f] /\ typed'[f] = typed[f] /\ armed'[f] = armed[f]
          /\ intended'[f] = intended[f] /\ (f \in raced' <=> f \in raced \/ f \in lost(F))
          /\ BoxTypes(f) /\ BoxOK(f) /\ seen' = seen
      BY <1>0 DEF Overwrites
    <2> QED BY <2>1, <2>2, BoxOther
  <1>2. ASSUME "types" \notin F PROVE TypesOK'
    <2>1. "types" \in lost(F) <=> params.filter["types"] # seen.filter["types"]
      BY <1>2, LostFields
    <2>2. /\ params'.filter["types"] = seen.filter["types"] /\ intended'["types"] = intended["types"]
          /\ "types" \in raced' <=> "types" \in raced \/ "types" \in lost(F)
      BY <1>0, <1>2 DEF Overwrites
    <2> QED BY <1>2, <2>1, <2>2 DEF FInv, TypesOK
  <1> QED
    BY <1>1, <1>2

LEMMA LesserOfTwo ==
    ASSUME NEW a \in Nat, NEW b \in Nat
    PROVE  Min({a, b}) \in Nat
  <1> DEFINE least == IF a <= b THEN a ELSE b
  <1>1. least \in {a, b} /\ \A y \in {a, b} : least <= y
    OBVIOUS
  <1>2. PICK x : x = Min({a, b})
    OBVIOUS
  <1>3. \E z \in {a, b} : \A y \in {a, b} : z <= y
    BY <1>1
  <1>4. Min({a, b}) \in {a, b}
    BY <1>3 DEF Min
  <1> QED
    BY <1>4

LEMMA RestTyped ==
    ASSUME FInv
    PROVE  /\ loaded \subseteq TableRows /\ mode \in {"paginated", "infinite"}
           /\ visible \in Nat /\ locked \in BOOLEAN
  BY DEF FInv, TableTypeOK

\* An edit is counted.
LEMMA Edited == ASSUME FInv, edit PROVE edits' \in 0..MaxEdits
  <1>1. edits \in 0..MaxEdits /\ MaxEdits \in Nat /\ edits < MaxEdits /\ edits' = edits + 1
    BY TableParts DEF edit
  <1> QED
    BY <1>1

LEMMA TimerFires == ASSUME FInv, NEW f \in Boxes, fire(f) PROVE FInv'
  <1>0. /\ params \in Url /\ seen \in Url /\ seen.filter \in [Fields -> Text]
        /\ typed \in [Boxes -> Text] /\ armed \in [Boxes -> BOOLEAN] /\ raced \subseteq Fields
        /\ f \in Fields /\ f # "types" /\ BoxTypes(f) /\ BoxOK(f)
    BY TableParts
  <1>1. /\ armed[f] /\ armed' = [armed EXCEPT ![f] = FALSE]
        /\ params' = [filter |-> [seen.filter EXCEPT ![f] = typed[f]], page |-> 1]
        /\ raced' = raced \cup lost({f})
        /\ UNCHANGED <<seen, typed, loaded, mode, visible, locked, edits, intended>>
    BY DEF fire, disarmed, updateParams
  <1>2. params' \in Url /\ params'.filter = [seen.filter EXCEPT ![f] = typed[f]]
    <2>1. [seen.filter EXCEPT ![f] = typed[f]] \in [Fields -> Text]
      BY <1>0
    <2>2. 1 \in Nat \ {0}
      OBVIOUS
    <2> QED BY <1>1, <2>1, <2>2 DEF Url
  <1>3. params'.filter[f] = typed[f] /\ \A g \in Fields \ {f} : params'.filter[g] = seen.filter[g]
    BY <1>0, <1>2
  <1>4. ~armed'[f] /\ armed' \in [Boxes -> BOOLEAN] /\ \A g \in Boxes \ {f} : armed'[g] = armed[g]
    BY <1>0, <1>1
  <1>5. lost({f}) \subseteq Fields /\ f \notin lost({f})
    BY LostFields
  <1>6. TableTypeOK'
    BY <1>0, <1>1, <1>2, <1>4, <1>5 DEF FInv, TableTypeOK, Url, Text
  <1>7. BoxOK(f)'
    <2>1. f \in raced' <=> f \in raced
      BY <1>1, <1>5
    <2> QED BY <1>0, <1>1, <1>3, <1>4, <2>1, BoxFires
  <1>8. TypesOK' /\ \A g \in Boxes \ {f} : BoxOK(g)'
    <2>1. {f} \in SUBSET Fields /\ "types" \notin {f}
      BY <1>0
    <2>2. Overwrites({f})
      BY <1>1, <1>2, <1>3, <1>4 DEF Overwrites
    <2> QED BY <2>1, <2>2, OtherFields
  <1> QED
    BY <1>1, <1>6, <1>7, <1>8 DEF FInv

LEMMA TextTyped == ASSUME FInv, NEW f \in Boxes, NEW text \in Texts(f), type(f, text) PROVE FInv'
  <1>0. /\ params \in Url /\ seen \in Url /\ intended \in [Fields -> Text]
        /\ typed \in [Boxes -> Text] /\ armed \in [Boxes -> BOOLEAN] /\ raced \subseteq Fields
        /\ f \in Fields /\ f # "types" /\ BoxTypes(f) /\ "types" \in Fields /\ "search" \in Boxes
        /\ \A g \in Boxes : BoxOK(g) /\ g \in Fields
    BY TableParts
  <1>1. /\ typed' = [typed EXCEPT ![f] = text]
        /\ armed' = [armed EXCEPT ![f] = (text # parsed(seen.filter[f]))]
        /\ intended' = [intended EXCEPT ![f] = text]
        /\ raced' = IF params.filter[f] # seen.filter[f] THEN raced \cup {f} ELSE raced \ {f}
        /\ UNCHANGED <<params, seen, loaded, mode, visible, locked>> /\ edit
    BY DEF type, debounce
  <1>2. text \in Text /\ (f = "search" => text # "bad")
    BY DEF Texts, Text
  <1>3. (text # parsed(seen.filter[f])) \in BOOLEAN
    OBVIOUS
  <1>4. /\ typed' \in [Boxes -> Text] /\ typed'[f] = text
        /\ \A g \in Boxes \ {f} : typed'[g] = typed[g]
    BY <1>0, <1>1, <1>2
  <1>5. /\ intended' \in [Fields -> Text] /\ intended'[f] = text
        /\ \A g \in Fields \ {f} : intended'[g] = intended[g]
    BY <1>0, <1>1, <1>2
  <1>6. /\ armed' \in [Boxes -> BOOLEAN] /\ armed'[f] = (text # parsed(seen.filter[f]))
        /\ \A g \in Boxes \ {f} : armed'[g] = armed[g]
    BY <1>0, <1>1, <1>3
  <1>7. /\ raced' \subseteq Fields /\ (f \in raced' <=> params.filter[f] # seen.filter[f])
        /\ \A g \in Fields \ {f} : g \in raced' <=> g \in raced
    BY <1>0, <1>1
  <1>8. TableTypeOK'
    <2>1. edits' \in 0..MaxEdits
      BY <1>1, Edited
    <2>2. /\ loaded' \subseteq TableRows /\ mode' \in {"paginated", "infinite"}
          /\ visible' \in Nat /\ locked' \in BOOLEAN /\ params' \in Url /\ seen' \in Url
      BY <1>0, <1>1, RestTyped
    <2> QED BY <1>4, <1>5, <1>6, <1>7, <2>1, <2>2, TableTyped
  <1>9. BoxOK(f)'
    BY <1>0, <1>1, <1>2, <1>4, <1>5, <1>6, <1>7, BoxTyped
  <1>10. ASSUME NEW g \in Boxes \ {f} PROVE BoxOK(g)'
    <2>1. /\ typed'[g] = typed[g] /\ armed'[g] = armed[g] /\ intended'[g] = intended[g]
          /\ (g \in raced' <=> g \in raced) /\ BoxOK(g)
      BY <1>0, <1>4, <1>5, <1>6, <1>7
    <2> QED BY <1>1, <2>1 DEF BoxOK, Kept
  <1>11. TypesOK' /\ typed'["search"] # "bad"
    BY <1>0, <1>1, <1>2, <1>4, <1>5, <1>7 DEF FInv, TypesOK
  <1> QED
    BY <1>8, <1>9, <1>10, <1>11 DEF FInv

LEMMA TypesToggled == ASSUME FInv, toggle PROVE FInv'
  <1> DEFINE value == IF seen.filter["types"] = "" THEN "some" ELSE ""
             filter == [seen.filter EXCEPT !["types"] = value]
  <1>0. /\ seen \in Url /\ seen.filter \in [Fields -> Text] /\ intended \in [Fields -> Text]
        /\ typed \in [Boxes -> Text] /\ armed \in [Boxes -> BOOLEAN] /\ raced \subseteq Fields
        /\ "types" \in Fields /\ (\A f \in Boxes : f # "types") /\ "search" \in Boxes
    BY TableParts
  <1>1. /\ edit /\ params' = [filter |-> filter, page |-> 1]
        /\ intended' = [intended EXCEPT !["types"] = value]
        /\ raced' = (raced \ {"types"}) \cup lost({"types"})
        /\ UNCHANGED <<seen, typed, armed, loaded, mode, visible, locked>>
    BY DEF toggle, updateParams
  <1>2. value \in Text /\ value # "bad"
    BY DEF Text
  <1>3. /\ filter \in [Fields -> Text] /\ filter["types"] = value
        /\ \A f \in Fields \ {"types"} : filter[f] = seen.filter[f]
    BY <1>0, <1>2
  <1>4. /\ intended' \in [Fields -> Text] /\ intended'["types"] = value
        /\ \A f \in Fields \ {"types"} : intended'[f] = intended[f]
    BY <1>0, <1>1, <1>2
  <1> HIDE DEF value, filter
  <1>5. params' \in Url /\ params'.filter = filter
    <2>1. 1 \in Nat \ {0}
      OBVIOUS
    <2> QED BY <1>1, <1>3, <2>1 DEF Url
  <1>6. lost({"types"}) \subseteq Fields /\ "types" \notin lost({"types"})
    BY LostFields
  <1>7. raced' \subseteq Fields
    BY <1>0, <1>1, <1>6
  <1>8. TableTypeOK'
    <2>1. edits' \in 0..MaxEdits
      BY <1>1, Edited
    <2>2. /\ loaded' \subseteq TableRows /\ mode' \in {"paginated", "infinite"}
          /\ visible' \in Nat /\ locked' \in BOOLEAN /\ seen' \in Url
          /\ typed' \in [Boxes -> Text] /\ armed' \in [Boxes -> BOOLEAN]
      BY <1>0, <1>1, RestTyped
    <2> QED BY <1>4, <1>5, <1>7, <2>1, <2>2, TableTyped
  <1>9. \A f \in Boxes : BoxOK(f)'
    <2>1. Overwrites({"types"})
      BY <1>1, <1>3, <1>4, <1>5 DEF Overwrites
    <2>2. {"types"} \in SUBSET Fields /\ \A f \in Boxes : f \in Boxes \ {"types"}
      BY <1>0
    <2> QED BY <2>1, <2>2, OtherFields
  <1>10. TypesOK'
    BY <1>2, <1>3, <1>4, <1>5 DEF TypesOK
  <1> QED
    BY <1>1, <1>8, <1>9, <1>10 DEF FInv

LEMMA BoxIsReset == ASSUME FInv, NEW f \in Boxes, handleResetField(f) PROVE FInv'
  <1> DEFINE filter == [seen.filter EXCEPT ![f] = ""]
  <1>0. /\ seen \in Url /\ seen.filter \in [Fields -> Text] /\ intended \in [Fields -> Text]
        /\ typed \in [Boxes -> Text] /\ armed \in [Boxes -> BOOLEAN] /\ raced \subseteq Fields
        /\ f \in Fields /\ f # "types" /\ BoxTypes(f) /\ BoxOK(f)
    BY TableParts
  <1>1. /\ edit /\ params' = [filter |-> filter, page |-> 1]
        /\ intended' = [intended EXCEPT ![f] = ""]
        /\ raced' = (raced \ {f}) \cup lost({f})
                    \cup {g \in {f} : typed[g] # "" /\ parsed(seen.filter[g]) = ""}
        /\ UNCHANGED <<seen, typed, armed, loaded, mode, visible, locked>>
    BY DEF handleResetField, updateParams, Unwritten
  <1>2. "" \in Text
    BY DEF Text
  <1>3. /\ filter \in [Fields -> Text] /\ filter[f] = ""
        /\ \A g \in Fields \ {f} : filter[g] = seen.filter[g]
    BY <1>0, <1>2
  <1>4. /\ intended' \in [Fields -> Text] /\ intended'[f] = ""
        /\ \A g \in Fields \ {f} : intended'[g] = intended[g]
    BY <1>0, <1>1, <1>2
  <1> HIDE DEF filter
  <1>5. params' \in Url /\ params'.filter = filter
    <2>1. 1 \in Nat \ {0}
      OBVIOUS
    <2> QED BY <1>1, <1>3, <2>1 DEF Url
  <1>6. lost({f}) \subseteq Fields /\ f \notin lost({f})
    BY LostFields
  <1>7. /\ raced' \subseteq Fields
        /\ f \in raced' <=> typed[f] # "" /\ parsed(seen.filter[f]) = ""
        /\ \A g \in Fields \ {f} : g \in raced' <=> g \in raced \/ g \in lost({f})
    BY <1>0, <1>1, <1>6
  <1>8. TableTypeOK'
    <2>1. edits' \in 0..MaxEdits
      BY <1>1, Edited
    <2>2. /\ loaded' \subseteq TableRows /\ mode' \in {"paginated", "infinite"}
          /\ visible' \in Nat /\ locked' \in BOOLEAN /\ seen' \in Url
          /\ typed' \in [Boxes -> Text] /\ armed' \in [Boxes -> BOOLEAN]
      BY <1>0, <1>1, RestTyped
    <2> QED BY <1>4, <1>5, <1>7, <2>1, <2>2, TableTyped
  <1>9. BoxOK(f)'
    <2>1. params'.filter[f] = "" /\ seen' = seen /\ typed'[f] = typed[f] /\ armed'[f] = armed[f]
      BY <1>1, <1>3, <1>5
    <2> QED BY <1>0, <1>4, <1>7, <2>1, BoxReset
  <1>10. TypesOK' /\ \A g \in Boxes \ {f} : BoxOK(g)'
    <2>1. {f} \in SUBSET Fields /\ "types" \notin {f}
      BY <1>0
    <2>2. Overwrites({f})
      BY <1>1, <1>3, <1>4, <1>5, <1>7 DEF Overwrites
    <2> QED BY <2>1, <2>2, OtherFields
  <1> QED
    BY <1>1, <1>8, <1>9, <1>10 DEF FInv

LEMMA AllCleared == ASSUME FInv, handleClearAll PROVE FInv'
  <1>0. /\ params \in Url /\ seen \in Url /\ seen.filter \in [Fields -> Text]
        /\ "types" \in Fields /\ "search" \in Boxes
        /\ \A f \in Boxes : f \in Fields /\ BoxTypes(f)
    BY TableParts
  <1>1. /\ edit /\ typed' = [f \in Boxes |-> ""]
        /\ armed' = [f \in Boxes |-> "" # parsed(seen.filter[f])]
        /\ params' = [filter |-> NoFilter, page |-> 1] /\ intended' = NoFilter /\ raced' = {}
        /\ UNCHANGED <<seen, loaded, mode, visible, locked>>
    BY DEF handleClearAll, updateParams, debounce
  <1>2. PICK f \in Fields : parsed(seen.filter[f]) # ""
    BY DEF handleClearAll
  <1>3. NoFilter \in [Fields -> Text] /\ \A g \in Fields : NoFilter[g] = ""
    BY DEF NoFilter, Text
  <1> HIDE DEF NoFilter
  <1>4. params' \in Url /\ params'.filter = NoFilter
    <2>1. 1 \in Nat \ {0}
      OBVIOUS
    <2> QED BY <1>1, <1>3, <2>1 DEF Url
  <1>5. typed' \in [Boxes -> Text] /\ \A g \in Boxes : typed'[g] = ""
    BY <1>1 DEF Text
  <1>6. armed' \in [Boxes -> BOOLEAN] /\ \A g \in Boxes : armed'[g] = ("" # parsed(seen.filter[g]))
    <2>1. \A g \in Boxes : ("" # parsed(seen.filter[g])) \in BOOLEAN
      OBVIOUS
    <2> QED BY <1>1, <2>1
  <1>7. params' # seen
    <2>1. params'.filter[f] = "" /\ parsed("") = ""
      BY <1>3, <1>4 DEF parsed
    <2> QED BY <1>2, <2>1
  <1>8. TableTypeOK'
    <2>1. edits' \in 0..MaxEdits
      BY <1>1, Edited
    <2>2. /\ loaded' \subseteq TableRows /\ mode' \in {"paginated", "infinite"}
          /\ visible' \in Nat /\ locked' \in BOOLEAN /\ seen' \in Url
          /\ intended' \in [Fields -> Text] /\ raced' \subseteq Fields
      BY <1>0, <1>1, <1>3, RestTyped
    <2> QED BY <1>4, <1>5, <1>6, <2>1, <2>2, TableTyped
  <1>9. ASSUME NEW g \in Boxes PROVE BoxOK(g)'
    <2>1. /\ params'.filter[g] = "" /\ intended'[g] = "" /\ seen' = seen /\ typed'[g] = ""
          /\ armed'[g] = ("" # parsed(seen.filter[g])) /\ BoxTypes(g)
      BY <1>0, <1>1, <1>3, <1>4, <1>5, <1>6
    <2> QED BY <1>7, <2>1, BoxCleared
  <1>10. TypesOK' /\ typed'["search"] # "bad"
    BY <1>0, <1>1, <1>3, <1>4, <1>5 DEF TypesOK
  <1> QED
    BY <1>8, <1>9, <1>10 DEF FInv

LEMMA UrlCleared == ASSUME FInv, clearAll PROVE FInv'
  <1>0. /\ params \in Url /\ seen \in Url /\ seen.filter \in [Fields -> Text]
        /\ typed \in [Boxes -> Text] /\ armed \in [Boxes -> BOOLEAN]
        /\ "types" \in Fields /\ "search" \in Boxes
        /\ \A f \in Boxes : f \in Fields /\ BoxTypes(f) /\ BoxOK(f)
    BY TableParts
  <1>1. /\ edit /\ params' = [filter |-> NoFilter, page |-> 1] /\ intended' = NoFilter
        /\ raced' = {f \in Boxes : typed[f] # "" /\ parsed(seen.filter[f]) = ""}
        /\ UNCHANGED <<seen, typed, armed, loaded, mode, visible, locked>>
    BY DEF clearAll, updateParams, Unwritten
  <1>2. NoFilter \in [Fields -> Text] /\ \A g \in Fields : NoFilter[g] = ""
    BY DEF NoFilter, Text
  <1> HIDE DEF NoFilter
  <1>3. params' \in Url /\ params'.filter = NoFilter
    <2>1. 1 \in Nat \ {0}
      OBVIOUS
    <2> QED BY <1>1, <1>2, <2>1 DEF Url
  <1>4. /\ raced' \subseteq Fields
        /\ \A g \in Boxes : g \in raced' <=> typed[g] # "" /\ parsed(seen.filter[g]) = ""
    BY <1>0, <1>1
  <1>5. TableTypeOK'
    <2>1. edits' \in 0..MaxEdits
      BY <1>1, Edited
    <2>2. /\ loaded' \subseteq TableRows /\ mode' \in {"paginated", "infinite"}
          /\ visible' \in Nat /\ locked' \in BOOLEAN /\ seen' \in Url
          /\ typed' \in [Boxes -> Text] /\ armed' \in [Boxes -> BOOLEAN]
          /\ intended' \in [Fields -> Text]
      BY <1>0, <1>1, <1>2, RestTyped
    <2> QED BY <1>3, <1>4, <2>1, <2>2, TableTyped
  <1>6. ASSUME NEW g \in Boxes PROVE BoxOK(g)'
    <2>1. /\ params'.filter[g] = "" /\ intended'[g] = "" /\ BoxTypes(g) /\ BoxOK(g)
          /\ seen' = seen /\ typed'[g] = typed[g] /\ armed'[g] = armed[g]
      BY <1>0, <1>1, <1>2, <1>3
    <2>2. params' = seen => params'.filter[g] = seen.filter[g]
      OBVIOUS
    <2> QED BY <1>4, <2>1, <2>2, BoxReset
  <1>7. TypesOK' /\ typed'["search"] # "bad"
    BY <1>0, <1>1, <1>2, <1>3 DEF FInv, TypesOK
  <1> QED
    BY <1>5, <1>6, <1>7 DEF FInv

LEMMA PageTurned == ASSUME FInv, NEW p \in Nat \ {0}, setPage(p) PROVE FInv'
  <1>0. /\ seen \in Url /\ seen.filter \in [Fields -> Text] /\ intended \in [Fields -> Text]
        /\ typed \in [Boxes -> Text] /\ armed \in [Boxes -> BOOLEAN] /\ raced \subseteq Fields
    BY TableParts
  <1>1. /\ edit /\ params' = [filter |-> seen.filter, page |-> p] /\ raced' = raced \cup lost({})
        /\ UNCHANGED <<seen, typed, armed, loaded, mode, visible, locked, intended>>
    BY DEF setPage, updateParams
  <1>2. params' \in Url /\ params'.filter = seen.filter
    BY <1>0, <1>1 DEF Url
  <1>3. lost({}) \subseteq Fields
    BY LostFields
  <1>4. TableTypeOK'
    <2>1. edits' \in 0..MaxEdits
      BY <1>1, Edited
    <2>2. /\ loaded' \subseteq TableRows /\ mode' \in {"paginated", "infinite"}
          /\ visible' \in Nat /\ locked' \in BOOLEAN /\ seen' \in Url
          /\ typed' \in [Boxes -> Text] /\ armed' \in [Boxes -> BOOLEAN]
          /\ intended' \in [Fields -> Text] /\ raced' \subseteq Fields
      BY <1>0, <1>1, <1>3, RestTyped
    <2> QED BY <1>2, <2>1, <2>2, TableTyped
  <1>5. Overwrites({})
    BY <1>1, <1>2 DEF Overwrites
  <1>6. {} \in SUBSET Fields /\ "types" \notin {}
    OBVIOUS
  <1>7. TypesOK' /\ \A f \in Boxes \ {} : BoxOK(f)'
    BY <1>5, <1>6, OtherFields
  <1> QED
    BY <1>1, <1>4, <1>7 DEF FInv

LEMMA UrlRendered == ASSUME FInv, renderUrl PROVE FInv'
  <1> DEFINE text(f) == IF parsed(params.filter[f]) # parsed(seen.filter[f])
                        THEN parsed(params.filter[f]) ELSE typed[f]
  <1>0. /\ params \in Url /\ seen \in Url /\ params.filter \in [Fields -> Text]
        /\ typed \in [Boxes -> Text] /\ intended \in [Fields -> Text] /\ raced \subseteq Fields
        /\ edits \in 0..MaxEdits /\ "search" \in Boxes
        /\ \A f \in Boxes : f \in Fields /\ BoxTypes(f) /\ BoxOK(f)
    BY TableParts
  <1>1. /\ params # seen /\ seen' = params /\ typed' = [f \in Boxes |-> text(f)]
        /\ armed' = [f \in Boxes |-> typed'[f] # parsed(params.filter[f])]
        /\ visible' = BatchSize /\ UNCHANGED <<params, loaded, mode, locked, edits, intended, raced>>
    BY DEF renderUrl, rearmed, debounce
  <1>2. \A x \in Text : parsed(x) \in Text /\ parsed(x) # "bad"
    BY DEF parsed, Text
  <1>3. \A f \in Boxes : text(f) \in Text /\ (typed[f] # "bad" => text(f) # "bad")
    BY <1>0, <1>2
  <1>4. typed' \in [Boxes -> Text] /\ \A f \in Boxes : typed'[f] = text(f)
    BY <1>1, <1>3
  <1>5. /\ armed' \in [Boxes -> BOOLEAN]
        /\ \A f \in Boxes : armed'[f] = (typed'[f] # parsed(params.filter[f]))
    <2>1. \A f \in Boxes : (typed'[f] # parsed(params.filter[f])) \in BOOLEAN
      OBVIOUS
    <2> QED BY <1>1, <2>1
  <1>6. TableTypeOK'
    <2>1. BatchSize \in Nat
      BY TableAssumption
    <2>2. /\ loaded' \subseteq TableRows /\ mode' \in {"paginated", "infinite"}
          /\ locked' \in BOOLEAN /\ seen' \in Url /\ params' \in Url /\ visible' \in Nat
          /\ intended' \in [Fields -> Text] /\ raced' \subseteq Fields /\ edits' \in 0..MaxEdits
      BY <1>0, <1>1, <2>1, RestTyped
    <2> QED BY <1>4, <1>5, <2>2, TableTyped
  <1>7. ASSUME NEW f \in Boxes PROVE BoxOK(f)'
    <2>1. /\ seen' = params /\ params' = params /\ intended'[f] = intended[f]
          /\ (f \in raced' <=> f \in raced) /\ typed'[f] = text(f)
          /\ armed'[f] = (typed'[f] # parsed(params.filter[f])) /\ BoxTypes(f) /\ BoxOK(f)
      BY <1>0, <1>1, <1>4, <1>5
    <2> QED BY <1>1, <2>1, BoxRendered
  <1>8. TypesOK'
    BY <1>1 DEF FInv, TypesOK
  <1>9. typed'["search"] # "bad"
    BY <1>0, <1>3, <1>4 DEF FInv
  <1> QED
    BY <1>6, <1>7, <1>8, <1>9 DEF FInv

\* The rows that match are counted, and so are the pages.
LEMMA RowsCounted ==
    ASSUME FInv
    PROVE  Cardinality(filteredRows) \in Nat /\ totalPages \in Nat
  <1>1. filteredRows \subseteq TableRows /\ IsFiniteSet(TableRows)
    BY TableAssumption, RestTyped DEF filteredRows
  <1>2. Cardinality(filteredRows) \in Nat
    BY <1>1, FS_Subset, FS_CardinalityType
  <1>3. PageSize \in Nat /\ PageSize > 0
    BY TableAssumption
  <1> DEFINE n == Cardinality(filteredRows)
             pages == (n + PageSize - 1) \div PageSize
  <1>4. n \in Nat
    BY <1>2
  <1> HIDE DEF n
  <1>5. pages \in Int
    BY <1>3, <1>4
  <1> HIDE DEF pages
  <1>6. \E x \in {1, pages} : \A y \in {1, pages} : x >= y
    <2>1. (IF 1 >= pages THEN 1 ELSE pages) \in {1, pages}
          /\ \A y \in {1, pages} : (IF 1 >= pages THEN 1 ELSE pages) >= y
      BY <1>5
    <2> QED BY <2>1
  <1>7. Max({1, pages}) \in {1, pages} /\ \A y \in {1, pages} : Max({1, pages}) >= y
    BY <1>6 DEF Max
  <1>8. Max({1, pages}) \in Nat
    BY <1>5, <1>7
  <1> QED
    BY <1>2, <1>8 DEF totalPages, pages, n

LEMMA RestOfPage ==
    ASSUME FInv, UNCHANGED <<params, seen, typed, armed, edits, intended, raced>>,
           loaded' \subseteq TableRows, mode' \in {"paginated", "infinite"},
           visible' \in Nat, locked' \in BOOLEAN
    PROVE  FInv'
  <1>1. TableTypeOK'
    BY TableParts, TableTyped
  <1>2. TypesOK' /\ typed'["search"] # "bad"
    BY DEF FInv, TypesOK
  <1>3. \A f \in Boxes : BoxOK(f)'
    BY DEF FInv, BoxOK, Kept
  <1> QED
    BY <1>1, <1>2, <1>3 DEF FInv

LEMMA FInvStep == FInv /\ [TableNext]_tableVars => FInv'
  <1> SUFFICES ASSUME FInv, [TableNext]_tableVars PROVE FInv'
    OBVIOUS
  <1>0. /\ loaded \subseteq TableRows /\ mode \in {"paginated", "infinite"}
        /\ visible \in Nat /\ locked \in BOOLEAN
    BY RestTyped
  <1>1. CASE UNCHANGED tableVars
    BY <1>0, <1>1, RestOfPage DEF tableVars
  <1>2. ASSUME NEW f \in Boxes, fire(f) \/ handleResetField(f) \/ \E text \in Texts(f) : type(f, text)
        PROVE  FInv'
    BY <1>2, TimerFires, BoxIsReset, TextTyped
  <1>3. CASE toggle \/ handleClearAll \/ clearAll \/ renderUrl
    BY <1>3, TypesToggled, AllCleared, UrlCleared, UrlRendered
  <1>4. ASSUME NEW p \in 1..totalPages, setPage(p) PROVE FInv'
    <2>1. p \in Nat \ {0}
      BY RowsCounted
    <2> QED BY <1>4, <2>1, PageTurned
  <1>5. CASE handleViewModeChange
    <2>1. BatchSize \in Nat
      BY TableAssumption
    <2>2. /\ mode' \in {"paginated", "infinite"} /\ visible' \in Nat
          /\ UNCHANGED <<params, seen, typed, armed, loaded, locked, edits, intended, raced>>
      BY <1>0, <1>5, <2>1 DEF handleViewModeChange
    <2> QED BY <1>0, <2>2, RestOfPage
  <1>6. CASE handleLoadMore
    <2> DEFINE n == Cardinality(filteredRows)
    <2>1. /\ locked' = TRUE /\ visible' = Min({visible + BatchSize, n})
          /\ UNCHANGED <<params, seen, typed, armed, loaded, mode, edits, intended, raced>>
      BY <1>6 DEF handleLoadMore
    <2>2. n \in Nat
      BY RowsCounted
    <2> HIDE DEF n
    <2>3. BatchSize \in Nat
      BY TableAssumption
    <2>4. visible + BatchSize \in Nat
      BY <1>0, <2>3
    <2>5. visible' \in Nat
      BY <2>1, <2>2, <2>4, LesserOfTwo
    <2>6. locked' \in BOOLEAN
      BY <2>1
    <2> QED BY <1>0, <2>1, <2>5, <2>6, RestOfPage
  <1>7. CASE unlock
    <2>1. /\ locked' = FALSE
          /\ UNCHANGED <<params, seen, typed, armed, loaded, mode, visible, edits, intended, raced>>
      BY <1>7 DEF unlock
    <2>2. locked' \in BOOLEAN
      BY <2>1
    <2> QED BY <1>0, <2>1, <2>2, RestOfPage
  <1>8. ASSUME NEW n \in {0} \cup TableRows, load(1..n) PROVE FInv'
    <2>1. /\ loaded' = 1..n
          /\ UNCHANGED <<params, seen, typed, armed, mode, visible, locked, edits, intended, raced>>
      BY <1>8 DEF load
    <2>2. 1..n \subseteq TableRows
      <3> DEFINE c == Cardinality(TableRows)
      <3>1. c \in Nat /\ TableRows = 1..c
        BY TableAssumption, FS_CardinalityType
      <3> HIDE DEF c
      <3> QED BY <3>1
    <2> QED BY <1>0, <2>1, <2>2, RestOfPage
  <1> QED
    BY <1>1, <1>2, <1>3, <1>4, <1>5, <1>6, <1>7, <1>8 DEF TableNext

LEMMA ChoicesKept == FInv => ChoiceIsKept
  <1> SUFFICES ASSUME FInv, seen = params, \A f \in Boxes : ~armed[f], NEW f \in Fields
               PROVE  \/ f \in raced \/ intended[f] = "bad"
                      \/ /\ parsed(seen.filter[f]) = intended[f]
                         /\ f \in Boxes => typed[f] = intended[f]
    BY DEF ChoiceIsKept, Quiet
  <1>0. Fields \ Boxes = {"types"} /\ intended \in [Fields -> Text]
    BY TableParts
  <1>1. CASE f \in Boxes
    <2>1. BoxTypes(f) /\ BoxOK(f)
      BY <1>1, TableParts
    <2> QED BY <1>1, <2>1 DEF BoxTypes, BoxOK, Kept, parsed, Text
  <1>2. CASE f = "types"
    BY <1>0, <1>2 DEF FInv, TypesOK, parsed, Text
  <1> QED
    BY <1>0, <1>1, <1>2

\* A timer writes another page only with a filter, over what is not rendered,
\* or an amount that does not parse.
LEMMA PageStep ==
    FInv /\ [TableNext]_tableVars =>
        [params'.page # params.page =>
           edits' # edits \/ params'.filter # params.filter \/ params # seen \/ typed["amount"] = "bad"]_tableVars
  <1> SUFFICES ASSUME FInv, TableNext, params'.page # params.page, edits' = edits,
                      params'.filter = params.filter, params = seen, typed["amount"] # "bad"
               PROVE  FALSE
    BY DEF tableVars
  <1>0. edits \in Nat /\ edits + 1 # edits
    BY TableParts
  <1>1. ~edit
    BY <1>0 DEF edit
  <1>2. PICK f \in Boxes : fire(f)
    BY <1>1 DEF TableNext, type, toggle, handleResetField, handleClearAll, clearAll, setPage, renderUrl,
                load, handleViewModeChange, handleLoadMore, unlock
  <1>3. /\ armed[f] /\ params' = [filter |-> [seen.filter EXCEPT ![f] = typed[f]], page |-> 1]
    BY <1>2 DEF fire, updateParams
  <1>4. /\ f \in Fields /\ seen.filter \in [Fields -> Text] /\ BoxOK(f) /\ BoxTypes(f)
    BY TableParts
  <1>5. params'.filter[f] = typed[f]
    BY <1>3, <1>4
  <1>6. typed[f] = seen.filter[f] /\ typed[f] # parsed(seen.filter[f])
    BY <1>3, <1>4, <1>5 DEF BoxOK
  <1>7. typed[f] = "bad"
    BY <1>6 DEF parsed
  <1>8. f = "search" \/ f = "amount"
    BY DEF Boxes
  <1> QED
    BY <1>7, <1>8 DEF FInv

-----------------------------------------------------------------------------
(* The refresh sessions *)

LEMMA KeysDiffer ==
    /\ \A t, u : TokenKey(t) = TokenKey(u) => t = u
    /\ \A f, g : FamilyKey(f) = FamilyKey(g) => f = g
    /\ \A t, f : TokenKey(t) # FamilyKey(f)
  <1>1. \A t, u : TokenKey(t) = TokenKey(u) => t = u
    BY DEF TokenKey
  <1>2. \A f, g : FamilyKey(f) = FamilyKey(g) => f = g
    BY DEF FamilyKey
  <1>3. \A t, f : TokenKey(t) # FamilyKey(f)
    BY DEF TokenKey, FamilyKey
  <1> QED
    BY <1>1, <1>2, <1>3

Once(s) == \A i, j \in 1..Len(s) : s[i] = s[j] => i = j

\* Key b expires after key a.
Outlives(s, b, a) == \A i \in 1..Len(s) : s[i] = a => \E j \in 1..Len(s) : i < j /\ s[j] = b

LEMMA KeyDeleted ==
    ASSUME NEW S, NEW s \in Seq(S), Once(s), NEW k, NEW new, new = Del(s, k)
    PROVE  /\ new \in Seq(S) /\ Once(new)
           /\ \A i \in 1..Len(new) : new[i] # k
           /\ \A a, b : b # k /\ Outlives(s, b, a) => Outlives(new, b, a)
  <1>1. CASE ~ \E i \in 1..Len(s) : s[i] = k
    <2>1. new = s
      BY <1>1 DEF Del, RemoveFirst
    <2> QED BY <1>1, <2>1
  <1>2. ASSUME NEW p \in 1..Len(s), s[p] = k
        PROVE  /\ new \in Seq(S) /\ Once(new)
               /\ \A i \in 1..Len(new) : new[i] # k
               /\ \A a, b : b # k /\ Outlives(s, b, a) => Outlives(new, b, a)
    <2>1. {i \in 1..Len(s) : s[i] = k} = {p}
      BY <1>2 DEF Once
    <2>2. Min({p}) = p
      BY DEF Min
    <2>3. SelectInSeq(s, LAMBDA v : v = k) = Min({i \in 1..Len(s) : s[i] = k})
      BY <2>1 DEF SelectInSeq
    <2>4. new = RemoveAt(s, p)
      BY <1>2, <2>1, <2>2, <2>3 DEF Del, RemoveFirst
    <2>5. /\ new \in Seq(S) /\ Len(new) = Len(s) - 1 /\ Len(s) \in Nat
          /\ \A i \in 1..Len(new) : new[i] = IF i < p THEN s[i] ELSE s[i + 1]
      BY <2>4, RemovedPlaces
    <2>6. \A i \in 1..Len(new) : i \in 1..Len(s) /\ i + 1 \in 1..Len(s) /\ i < i + 1
      BY <2>5
    <2>7. Once(new)
      <3> SUFFICES ASSUME NEW i \in 1..Len(new), NEW j \in 1..Len(new), new[i] = new[j] PROVE i = j
        BY DEF Once
      <3>1. (IF i < p THEN i ELSE i + 1) = (IF j < p THEN j ELSE j + 1)
        BY <2>5, <2>6 DEF Once
      <3> QED BY <3>1
    <2>8. \A i \in 1..Len(new) : new[i] # k
      <3> SUFFICES ASSUME NEW i \in 1..Len(new), new[i] = k PROVE FALSE
        OBVIOUS
      <3>1. (IF i < p THEN i ELSE i + 1) = p
        BY <1>2, <2>5, <2>6 DEF Once
      <3> QED BY <3>1
    <2>9. ASSUME NEW a, NEW b, b # k, Outlives(s, b, a) PROVE Outlives(new, b, a)
      <3> SUFFICES ASSUME NEW i \in 1..Len(new), new[i] = a
                   PROVE  \E j \in 1..Len(new) : i < j /\ new[j] = b
        BY DEF Outlives
      <3> DEFINE o == IF i < p THEN i ELSE i + 1
      <3>1. o \in 1..Len(s) /\ s[o] = a
        BY <2>5, <2>6
      <3>2. PICK q \in 1..Len(s) : o < q /\ s[q] = b
        BY <2>9, <3>1 DEF Outlives
      <3>3. q # p
        BY <1>2, <2>9, <3>2
      <3> DEFINE j == IF q < p THEN q ELSE q - 1
      <3>4. j \in 1..Len(new) /\ i < j /\ (IF j < p THEN j ELSE j + 1) = q
        BY <2>5, <3>2, <3>3
      <3> HIDE DEF j
      <3>5. new[j] = b
        BY <2>5, <3>2, <3>4
      <3> QED BY <3>4, <3>5
    <2> QED BY <2>5, <2>7, <2>8, <2>9
  <1> QED
    BY <1>1, <1>2

LEMMA KeySet ==
    ASSUME NEW S, store \in Seq(S), Once(store), NEW k \in S, NEW new, new = SetEx(k)
    PROVE  /\ new \in Seq(S) /\ Once(new)
           /\ \A a, b : a # k /\ b # k /\ Outlives(store, b, a) => Outlives(new, b, a)
           /\ \A a : a # k => Outlives(new, k, a)
  <1> DEFINE d == Del(store, k)
  <1>1. /\ d \in Seq(S) /\ Once(d) /\ \A i \in 1..Len(d) : d[i] # k
        /\ \A a, b : b # k /\ Outlives(store, b, a) => Outlives(d, b, a)
    BY KeyDeleted
  <1>2. new = Append(d, k)
    BY DEF SetEx
  <1> HIDE DEF d
  <1>3. /\ new \in Seq(S) /\ Len(new) = Len(d) + 1 /\ Len(d) \in Nat /\ new[Len(d) + 1] = k
        /\ \A i \in 1..Len(d) : new[i] = d[i]
    BY <1>1, <1>2
  <1>4. \A i \in 1..Len(new) : i \in 1..Len(d) \/ i = Len(d) + 1
    BY <1>3
  <1>5. Once(new)
    BY <1>1, <1>3, <1>4 DEF Once
  <1>6. \A i \in 1..Len(d) : i \in 1..Len(new) /\ i < Len(d) + 1
    BY <1>3
  <1>7. Len(d) + 1 \in 1..Len(new)
    BY <1>3
  <1>8. \A a : a # k => Outlives(new, k, a)
    BY <1>3, <1>4, <1>6, <1>7 DEF Outlives
  <1>9. ASSUME NEW a, NEW b, a # k, b # k, Outlives(store, b, a) PROVE Outlives(new, b, a)
    <2> SUFFICES ASSUME NEW i \in 1..Len(new), new[i] = a
                 PROVE  \E j \in 1..Len(new) : i < j /\ new[j] = b
      BY DEF Outlives
    <2>1. i \in 1..Len(d) /\ d[i] = a
      BY <1>3, <1>4, <1>9
    <2>2. Outlives(d, b, a)
      BY <1>1, <1>9
    <2>3. PICK j \in 1..Len(d) : i < j /\ d[j] = b
      BY <2>1, <2>2 DEF Outlives
    <2> QED BY <1>3, <1>6, <2>3
  <1> QED
    BY <1>3, <1>5, <1>8, <1>9

LEMMA KeyPrepended ==
    ASSUME NEW S, NEW s \in Seq(S), Once(s), NEW k \in S, \A i \in 1..Len(s) : s[i] # k,
           NEW new, new = <<k>> \o s
    PROVE  /\ new \in Seq(S) /\ Once(new)
           /\ \A a, b : a # k /\ Outlives(s, b, a) => Outlives(new, b, a)
  <1>1. /\ new \in Seq(S) /\ Len(new) = Len(s) + 1 /\ Len(s) \in Nat
        /\ \A i \in 1..Len(new) : new[i] = IF i = 1 THEN k ELSE s[i - 1]
    <2>1. <<k>> \in Seq(S) /\ Len(<<k>>) = 1 /\ <<k>>[1] = k
      OBVIOUS
    <2>2. /\ new \in Seq(S) /\ Len(new) = 1 + Len(s)
          /\ \A i \in 1..(1 + Len(s)) : new[i] = IF i <= 1 THEN <<k>>[i] ELSE s[i - 1]
      BY <2>1, ConcatProperties
    <2> QED BY <2>1, <2>2
  <1>2. \A i \in 1..Len(new) : i = 1 \/ i - 1 \in 1..Len(s)
    BY <1>1
  <1>3. \A i \in 1..Len(s) : i + 1 \in 1..Len(new) /\ new[i + 1] = s[i]
    BY <1>1
  <1>4. Once(new)
    <2> SUFFICES ASSUME NEW i \in 1..Len(new), NEW j \in 1..Len(new), new[i] = new[j] PROVE i = j
      BY DEF Once
    <2>1. ASSUME i # 1, j # 1 PROVE i - 1 = j - 1
      <3>1. i - 1 \in 1..Len(s) /\ j - 1 \in 1..Len(s)
        BY <1>2, <2>1
      <3>2. s[i - 1] = s[j - 1]
        BY <1>1, <2>1
      <3> QED BY <3>1, <3>2 DEF Once
    <2>2. i = 1 <=> j = 1
      BY <1>1, <1>2
    <2> QED BY <2>1, <2>2
  <1>5. ASSUME NEW a, NEW b, a # k, Outlives(s, b, a) PROVE Outlives(new, b, a)
    <2> SUFFICES ASSUME NEW i \in 1..Len(new), new[i] = a
                 PROVE  \E j \in 1..Len(new) : i < j /\ new[j] = b
      BY DEF Outlives
    <2>1. i - 1 \in 1..Len(s) /\ s[i - 1] = a
      BY <1>1, <1>2, <1>5
    <2>2. PICK j \in 1..Len(s) : i - 1 < j /\ s[j] = b
      BY <1>5, <2>1 DEF Outlives
    <2>3. j + 1 \in 1..Len(new) /\ new[j + 1] = b /\ i < j + 1
      BY <1>3, <2>2
    <2> QED BY <2>3
  <1> QED
    BY <1>1, <1>4, <1>5

LEMMA KeyExpired ==
    ASSUME NEW S, NEW s \in Seq(S), Once(s), s # << >>, NEW new, new = Tail(s)
    PROVE  /\ new \in Seq(S) /\ Once(new)
           /\ \A a, b : Outlives(s, b, a) => Outlives(new, b, a)
  <1>1. /\ new \in Seq(S) /\ Len(new) = Len(s) - 1 /\ Len(s) \in Nat
        /\ \A i \in 1..Len(new) : new[i] = s[i + 1] /\ i + 1 \in 1..Len(s)
    OBVIOUS
  <1>2. Once(new)
    <2> SUFFICES ASSUME NEW i \in 1..Len(new), NEW j \in 1..Len(new), new[i] = new[j] PROVE i = j
      BY DEF Once
    <2>1. i + 1 = j + 1
      BY <1>1 DEF Once
    <2> QED BY <2>1
  <1>3. ASSUME NEW a, NEW b, Outlives(s, b, a) PROVE Outlives(new, b, a)
    <2> SUFFICES ASSUME NEW i \in 1..Len(new), new[i] = a
                 PROVE  \E j \in 1..Len(new) : i < j /\ new[j] = b
      BY DEF Outlives
    <2>1. PICK j \in 1..Len(s) : i + 1 < j /\ s[j] = b
      BY <1>1, <1>3 DEF Outlives
    <2>2. j - 1 \in 1..Len(new) /\ i < j - 1 /\ (j - 1) + 1 = j
      BY <1>1, <2>1
    <2> QED BY <1>1, <2>1, <2>2
  <1> QED
    BY <1>1, <1>2, <1>3

Token == [fam : Families, used : BOOLEAN]

Stages == {"idle", "check", "mark", "issue", "revoke"}

Call == [at : Stages, token : 0..MaxTokens, used : BOOLEAN]

KeysOf(n) == {TokenKey(t) : t \in 1..n} \cup {FamilyKey(f) : f \in Families}

\* A refresh has a token that was issued, and marks one it read as unused.
CallsKnown ==
    \A r \in RefreshCalls : /\ calls[r].at # "idle" => calls[r].token \in 1..Len(tokens)
                            /\ calls[r].at = "mark" => ~calls[r].used

RevokedKnown == \A f \in everRevoked : \E t \in 1..Len(tokens) : tokens[t].fam = f

SessionTypes ==
    /\ tokens \in Seq(Token) /\ Len(tokens) <= MaxTokens
    /\ store \in Seq(KeysOf(Len(tokens))) /\ Once(store)
    /\ access \subseteq Families /\ calls \in [RefreshCalls -> Call]
    /\ overlapped \in [Families -> Nat] /\ everRevoked \subseteq Families
    /\ CallsKnown /\ RevokedKnown

\* The mark of a revoked family expires after every unused token it had.
MarkOutlives ==
    \A t \in 1..Len(tokens) :
        ~tokens[t].used /\ t \notin late /\ tokens[t].fam \in everRevoked
            => Outlives(store, FamilyKey(tokens[t].fam), TokenKey(t))

KInv == SessionTypes /\ MarkOutlives

LEMMA SessionsTyped == SessionTypes => AuthTypeOK
  <1> SUFFICES ASSUME SessionTypes PROVE AuthTypeOK
    OBVIOUS
  <1>1. /\ tokens \in Seq(Token) /\ store \in Seq(KeysOf(Len(tokens))) /\ access \subseteq Families
        /\ calls \in [RefreshCalls -> Call]
    BY DEF SessionTypes
  <1>2. DOMAIN tokens = 1..Len(tokens) /\ \A t \in DOMAIN tokens : tokens[t] \in Token
    BY <1>1
  <1>3. ToSet(store) \subseteq KeysOf(Len(tokens))
    <2>1. \A i \in DOMAIN store : store[i] \in KeysOf(Len(tokens))
      BY <1>1
    <2> QED BY <2>1 DEF ToSet
  <1> QED
    BY <1>1, <1>2, <1>3 DEF AuthTypeOK, KeysOf, Token, Call, Stages

LEMMA SessionParts ==
    ASSUME KInv
    PROVE  /\ tokens \in Seq(Token) /\ Len(tokens) \in Nat /\ Len(tokens) <= MaxTokens
           /\ MaxTokens \in Nat /\ DOMAIN tokens = 1..Len(tokens)
           /\ \A t \in 1..Len(tokens) : tokens[t] \in Token /\ tokens[t].fam \in Families
           /\ store \in Seq(KeysOf(Len(tokens))) /\ Once(store)
           /\ access \subseteq Families /\ calls \in [RefreshCalls -> Call]
           /\ overlapped \in [Families -> Nat] /\ everRevoked \subseteq Families
           /\ CallsKnown /\ RevokedKnown /\ MarkOutlives
  <1>1. /\ tokens \in Seq(Token) /\ Len(tokens) <= MaxTokens
        /\ store \in Seq(KeysOf(Len(tokens))) /\ Once(store)
        /\ access \subseteq Families /\ calls \in [RefreshCalls -> Call]
        /\ overlapped \in [Families -> Nat] /\ everRevoked \subseteq Families
        /\ CallsKnown /\ RevokedKnown /\ MarkOutlives
    BY DEF KInv, SessionTypes
  <1>2. Len(tokens) \in Nat /\ DOMAIN tokens = 1..Len(tokens)
        /\ \A t \in 1..Len(tokens) : tokens[t] \in Token
    BY <1>1
  <1>3. \A x \in Token : x.fam \in Families
    BY DEF Token
  <1>4. MaxTokens \in Nat
    BY AuthAssumption
  <1> QED
    BY <1>1, <1>2, <1>3, <1>4

LEMMA TokenIssued ==
    ASSUME KInv, NEW f \in Families, issueTokenPair(f), everRevoked' = everRevoked,
           late \subseteq late', f \in everRevoked => Len(tokens) + 1 \in late'
    PROVE  /\ tokens' \in Seq(Token) /\ Len(tokens') = Len(tokens) + 1 /\ Len(tokens') <= MaxTokens
           /\ \A t \in 1..Len(tokens) : tokens'[t] = tokens[t]
           /\ tokens'[Len(tokens) + 1] = [fam |-> f, used |-> FALSE]
           /\ store' \in Seq(KeysOf(Len(tokens'))) /\ Once(store') /\ access' \subseteq Families
           /\ RevokedKnown' /\ MarkOutlives'
  <1> DEFINE n == Len(tokens) + 1
             new == [fam |-> f, used |-> FALSE]
             k == TokenKey(n)
  <1>0. /\ tokens \in Seq(Token) /\ Len(tokens) \in Nat /\ MaxTokens \in Nat /\ access \subseteq Families
        /\ store \in Seq(KeysOf(Len(tokens))) /\ Once(store) /\ RevokedKnown /\ MarkOutlives
    BY SessionParts
  <1>1. /\ Len(tokens) < MaxTokens /\ tokens' = Append(tokens, new)
        /\ store' = SetEx(k) /\ access' = access \cup {f}
    BY DEF issueTokenPair
  <1>2. new \in Token
    BY DEF Token
  <1>3. new.fam = f /\ new.used = FALSE
    OBVIOUS
  <1> HIDE DEF new
  <1>4. /\ tokens' \in Seq(Token) /\ Len(tokens') = n /\ n <= MaxTokens /\ tokens'[n] = new
        /\ \A t \in 1..Len(tokens) : tokens'[t] = tokens[t]
    BY <1>0, <1>1, <1>2
  <1>5. k \in KeysOf(n) /\ KeysOf(Len(tokens)) \subseteq KeysOf(n)
    <2>1. n \in 1..n /\ 1..Len(tokens) \subseteq 1..n
      BY <1>0
    <2> HIDE DEF n
    <2> QED BY <2>1 DEF KeysOf
  <1> HIDE DEF n
  <1>6. store \in Seq(KeysOf(n))
    <2>1. \A S, T : S \subseteq T => Seq(S) \subseteq Seq(T)
      OBVIOUS
    <2> QED BY <1>0, <1>5, <2>1
  <1>7. /\ store' \in Seq(KeysOf(n)) /\ Once(store')
        /\ \A a, b : a # k /\ b # k /\ Outlives(store, b, a) => Outlives(store', b, a)
    <2> HIDE DEF k
    <2>1. Once(store) /\ k \in KeysOf(n) /\ store' = SetEx(k)
      BY <1>0, <1>1, <1>5
    <2> QED BY ONLY <1>6, <2>1, KeySet
  <1>8. RevokedKnown'
    <2>1. \A t \in 1..Len(tokens) : t \in 1..n
      BY <1>0 DEF n
    <2> QED BY <1>0, <1>4, <2>1 DEF RevokedKnown
  <1>9. ASSUME NEW t \in 1..n, ~tokens'[t].used, t \notin late', tokens'[t].fam \in everRevoked
        PROVE  Outlives(store', FamilyKey(tokens'[t].fam), TokenKey(t))
    <2>1. t # n
      <3>1. t = n => f \in everRevoked
        BY <1>3, <1>4, <1>9
      <3> QED BY <1>9, <3>1 DEF n
    <2>2. t \in 1..Len(tokens) /\ t # n
      BY <1>0, <2>1 DEF n
    <2>3. Outlives(store, FamilyKey(tokens[t].fam), TokenKey(t)) /\ tokens'[t] = tokens[t]
      BY <1>0, <1>4, <1>9, <2>2 DEF MarkOutlives
    <2>4. TokenKey(t) # k /\ FamilyKey(tokens[t].fam) # k
      BY <2>2, KeysDiffer
    <2> QED BY <1>7, <2>3, <2>4
  <1>10. MarkOutlives'
    BY <1>4, <1>9 DEF MarkOutlives
  <1> QED
    <2>1. access' \subseteq Families
      BY <1>0, <1>1
    <2>2. store' \in Seq(KeysOf(Len(tokens')))
      BY <1>4, <1>7
    <2> QED BY <1>4, <1>7, <1>8, <1>10, <2>1, <2>2 DEF n, new

\* A step that keeps the tokens and the marks; the store may lose tokens.
LEMMA StoreShrinks ==
    ASSUME KInv, UNCHANGED <<tokens, everRevoked, late>>,
           store' \in Seq(KeysOf(Len(tokens))), Once(store'),
           \A f \in Families : \A t :
               Outlives(store, FamilyKey(f), TokenKey(t)) => Outlives(store', FamilyKey(f), TokenKey(t)),
           access' \subseteq Families, calls' \in [RefreshCalls -> Call], CallsKnown',
           overlapped' \in [Families -> Nat]
    PROVE  KInv'
  <1>0. /\ tokens \in Seq(Token) /\ Len(tokens) <= MaxTokens /\ everRevoked \subseteq Families
        /\ RevokedKnown /\ MarkOutlives /\ \A t \in 1..Len(tokens) : tokens[t].fam \in Families
    BY SessionParts
  <1>1. RevokedKnown' /\ MarkOutlives'
    BY <1>0 DEF RevokedKnown, MarkOutlives
  <1> QED
    BY <1>0, <1>1 DEF KInv, SessionTypes

\* A refresh moves to c.
CallTo(r, c) ==
    /\ calls' \in [RefreshCalls -> Call] /\ calls'[r] = c
    /\ \A s \in RefreshCalls : s # r => calls'[s] = calls[s]

LEMMA CallGoes ==
    ASSUME KInv, NEW r \in RefreshCalls, NEW c \in Call, calls' = [calls EXCEPT ![r] = c]
    PROVE  CallTo(r, c)
  BY SessionParts DEF CallTo

LEMMA CallEnds ==
    ASSUME KInv, NEW r \in RefreshCalls, calls' = [calls EXCEPT ![r] = IdleCall]
    PROVE  CallTo(r, IdleCall) /\ IdleCall.at = "idle"
  <1>1. 0 \in 0..MaxTokens
    BY SessionParts
  <1>2. IdleCall \in Call /\ IdleCall.at = "idle"
    BY <1>1 DEF IdleCall, Call, Stages
  <1> QED
    BY <1>2, CallGoes

LEMMA CallMoves ==
    ASSUME KInv, NEW r \in RefreshCalls, NEW at \in Stages, calls' = [calls EXCEPT ![r].at = at]
    PROVE  CallTo(r, [calls[r] EXCEPT !.at = at])
  <1>1. calls[r] \in Call
    BY SessionParts
  <1>2. [calls[r] EXCEPT !.at = at] \in Call
    BY <1>1 DEF Call
  <1>3. calls' = [calls EXCEPT ![r] = [calls[r] EXCEPT !.at = at]]
    OBVIOUS
  <1> QED
    BY <1>2, <1>3, CallGoes

LEMMA CallsStayKnown ==
    ASSUME KInv, NEW r \in RefreshCalls, NEW c, CallTo(r, c), Len(tokens') \in Nat,
           Len(tokens') >= Len(tokens),
           c.at # "idle" => c.token \in 1..Len(tokens), c.at = "mark" => ~c.used
    PROVE  CallsKnown'
  <1>1. CallsKnown /\ \A t \in 1..Len(tokens) : t \in 1..Len(tokens')
    BY SessionParts
  <1> QED
    BY <1>1 DEF CallsKnown, CallTo

LEMMA KInvInit == AuthInit => KInv
  <1> SUFFICES ASSUME AuthInit PROVE KInv
    OBVIOUS
  <1>1. /\ tokens = << >> /\ store = << >> /\ access = {} /\ everRevoked = {}
        /\ calls = [r \in RefreshCalls |-> IdleCall] /\ overlapped = [f \in Families |-> 0]
    BY DEF AuthInit
  <1>2. 0 \in 0..MaxTokens /\ MaxTokens >= 0 /\ MaxTokens \in Nat
    BY AuthAssumption
  <1>3. IdleCall \in Call /\ IdleCall.at = "idle"
    BY <1>2 DEF IdleCall, Call, Stages
  <1>4. /\ calls \in [RefreshCalls -> Call] /\ CallsKnown
    BY <1>1, <1>3 DEF CallsKnown
  <1>5. tokens \in Seq(Token) /\ Len(tokens) = 0 /\ store \in Seq(KeysOf(Len(tokens))) /\ Len(store) = 0
    BY <1>1
  <1>6. Once(store) /\ MarkOutlives /\ RevokedKnown
    BY <1>1, <1>5 DEF Once, MarkOutlives, RevokedKnown
  <1>7. overlapped \in [Families -> Nat]
    BY <1>1
  <1> QED
    BY <1>1, <1>2, <1>4, <1>5, <1>6, <1>7 DEF KInv, SessionTypes

LEMMA SessionStarts == ASSUME KInv, NEW f \in Families, loginHandler(f) PROVE KInv'
  <1>0. /\ Len(tokens) \in Nat /\ DOMAIN tokens = 1..Len(tokens) /\ CallsKnown /\ RevokedKnown
        /\ calls \in [RefreshCalls -> Call]
        /\ overlapped \in [Families -> Nat] /\ everRevoked \subseteq Families
    BY SessionParts
  <1>1. /\ \A t \in DOMAIN tokens : tokens[t].fam # f
        /\ issueTokenPair(f) /\ UNCHANGED <<calls, overlapped, everRevoked, late>>
    BY DEF loginHandler, Fam
  <1>2. f \notin everRevoked
    BY <1>0, <1>1 DEF RevokedKnown
  <1>3. /\ tokens' \in Seq(Token) /\ Len(tokens') = Len(tokens) + 1 /\ Len(tokens') <= MaxTokens
        /\ store' \in Seq(KeysOf(Len(tokens'))) /\ Once(store') /\ access' \subseteq Families
        /\ RevokedKnown' /\ MarkOutlives'
    BY <1>1, <1>2, TokenIssued
  <1>4. CallsKnown'
    <2>1. \A t \in 1..Len(tokens) : t \in 1..Len(tokens')
      BY <1>0, <1>3
    <2> QED BY <1>0, <1>1, <2>1 DEF CallsKnown
  <1> QED
    BY <1>0, <1>1, <1>3, <1>4 DEF KInv, SessionTypes

LEMMA RefreshReads ==
    ASSUME KInv, NEW r \in RefreshCalls, NEW t \in 1..Len(tokens), rotateRead(r, t)
    PROVE  KInv'
  <1> DEFINE c == [at |-> "check", token |-> t, used |-> tokens[t].used]
             o == overlapped[tokens[t].fam]
                    + IF \E s \in RefreshCalls : calls[s].token = t /\ calls[s].at # "issue" THEN 1 ELSE 0
  <1>0. /\ Len(tokens) \in Nat /\ Len(tokens) <= MaxTokens /\ MaxTokens \in Nat
        /\ tokens[t] \in Token /\ tokens[t].fam \in Families
        /\ overlapped \in [Families -> Nat]
        /\ store \in Seq(KeysOf(Len(tokens))) /\ Once(store) /\ access \subseteq Families
    BY SessionParts
  <1>1. /\ calls' = [calls EXCEPT ![r] = c]
        /\ overlapped' = [overlapped EXCEPT ![tokens[t].fam] = o]
        /\ UNCHANGED <<tokens, store, access, everRevoked, late>>
    BY DEF rotateRead, Fam
  <1>2. c \in Call
    <2>1. t \in 0..MaxTokens /\ tokens[t].used \in BOOLEAN
      <3>1. t \in 0..MaxTokens
        BY <1>0
      <3>2. tokens[t].used \in BOOLEAN
        BY <1>0 DEF Token
      <3> QED BY <3>1, <3>2
    <2> QED BY <2>1 DEF Call, Stages
  <1>3. c.at = "check" /\ c.token = t
    OBVIOUS
  <1> HIDE DEF c
  <1>4. CallTo(r, c)
    BY <1>1, <1>2, CallGoes
  <1>5. Len(tokens') \in Nat /\ Len(tokens') >= Len(tokens)
    BY <1>0, <1>1
  <1>6. CallsKnown'
    BY <1>3, <1>4, <1>5, CallsStayKnown
  <1>7. overlapped' \in [Families -> Nat]
    <2>1. o \in Nat
      BY <1>0
    <2> QED BY <1>0, <1>1, <2>1
  <1> QED
    BY <1>0, <1>1, <1>4, <1>6, <1>7, StoreShrinks DEF CallTo

LEMMA RefreshChecks == ASSUME KInv, NEW r \in RefreshCalls, rotateCheck(r) PROVE KInv'
  <1> DEFINE t == calls[r].token
             at == afterCheck(calls[r].used)
  <1>0. /\ Len(tokens) \in Nat /\ CallsKnown /\ overlapped \in [Families -> Nat]
        /\ store \in Seq(KeysOf(Len(tokens))) /\ Once(store) /\ access \subseteq Families
    BY SessionParts
  <1>1. calls[r].at = "check" /\ UNCHANGED <<tokens, access, overlapped, everRevoked, late>>
    BY DEF rotateCheck
  <1>2. t \in 1..Len(tokens) /\ Len(tokens') \in Nat /\ Len(tokens') >= Len(tokens)
    BY <1>0, <1>1 DEF CallsKnown
  <1>3. CASE store' = Del(store, TokenKey(t)) /\ calls' = [calls EXCEPT ![r] = IdleCall]
    <2>1. CallTo(r, IdleCall) /\ IdleCall.at = "idle"
      BY <1>3, CallEnds
    <2>2. CallsKnown'
      BY <1>2, <2>1, CallsStayKnown
    <2> DEFINE k == TokenKey(t)
    <2>3. store' = Del(store, k) /\ \A f : FamilyKey(f) # k
      BY <1>3, KeysDiffer
    <2> HIDE DEF k
    <2>4. /\ store' \in Seq(KeysOf(Len(tokens))) /\ Once(store')
          /\ \A a, b : b # k /\ Outlives(store, b, a) => Outlives(store', b, a)
      BY <1>0, <2>3, KeyDeleted
    <2> QED BY <1>0, <1>1, <2>1, <2>2, <2>3, <2>4, StoreShrinks DEF CallTo
  <1>4. CASE store' = store /\ calls' = [calls EXCEPT ![r].at = at]
    <2>1. at \in Stages /\ at # "idle" /\ (at = "mark" => ~calls[r].used)
      BY DEF afterCheck, Stages
    <2> HIDE DEF at
    <2> DEFINE c == [calls[r] EXCEPT !.at = at]
    <2>2. CallTo(r, c)
      BY <1>4, <2>1, CallMoves
    <2>3. calls[r] \in Call
      BY SessionParts
    <2>4. c.at = at /\ c.token = t /\ c.used = calls[r].used
      BY <2>3 DEF Call
    <2> HIDE DEF c
    <2>5. CallsKnown'
      BY <1>2, <2>1, <2>2, <2>4, CallsStayKnown
    <2> QED BY <1>0, <1>1, <1>4, <2>2, <2>5, StoreShrinks DEF CallTo
  <1> QED
    BY <1>3, <1>4 DEF rotateCheck

LEMMA RefreshMarks == ASSUME KInv, NEW r \in RefreshCalls, rotateMark(r) PROVE KInv'
  <1> DEFINE t == calls[r].token
             k == TokenKey(t)
  <1>0. /\ tokens \in Seq(Token) /\ Len(tokens) \in Nat /\ Len(tokens) <= MaxTokens
        /\ CallsKnown /\ RevokedKnown /\ MarkOutlives /\ overlapped \in [Families -> Nat]
        /\ store \in Seq(KeysOf(Len(tokens))) /\ Once(store) /\ access \subseteq Families
        /\ everRevoked \subseteq Families /\ \A u \in 1..Len(tokens) : tokens[u] \in Token
    BY SessionParts
  <1>1. /\ calls[r].at = "mark" /\ tokens' = [tokens EXCEPT ![t].used = TRUE]
        /\ store' = IF Stored(k) THEN store ELSE <<k>> \o store
        /\ calls' = [calls EXCEPT ![r].at = "issue"]
        /\ UNCHANGED <<access, overlapped, everRevoked, late>>
    BY DEF rotateMark, markUsed
  <1>2. t \in 1..Len(tokens)
    BY <1>0, <1>1 DEF CallsKnown
  <1>3. /\ tokens' \in Seq(Token) /\ Len(tokens') = Len(tokens) /\ tokens'[t].used
        /\ \A u \in 1..Len(tokens) : tokens'[u].fam = tokens[u].fam
        /\ \A u \in 1..Len(tokens) : u # t => tokens'[u] = tokens[u]
    <2> DEFINE new == [tokens[t] EXCEPT !.used = TRUE]
    <2>1. tokens' = [tokens EXCEPT ![t] = new]
      BY <1>1
    <2>2. tokens[t] \in Token
      BY <1>0, <1>2
    <2>3. new \in Token /\ new.used /\ new.fam = tokens[t].fam
      BY <2>2 DEF Token
    <2> HIDE DEF new, t
    <2> QED BY <1>0, <1>2, <2>1, <2>3
  <1>4. k \in KeysOf(Len(tokens)) /\ \A u : TokenKey(u) = k => u = t
    BY <1>2, KeysDiffer DEF KeysOf
  <1> HIDE DEF k
  <1>5. /\ store' \in Seq(KeysOf(Len(tokens))) /\ Once(store')
        /\ \A a, b : a # k /\ Outlives(store, b, a) => Outlives(store', b, a)
    <2>1. CASE Stored(k)
      BY <1>0, <1>1, <2>1
    <2>2. CASE ~Stored(k)
      <3>1. store' = <<k>> \o store /\ \A i \in 1..Len(store) : store[i] # k
        <4>1. DOMAIN store = 1..Len(store)
          BY <1>0
        <4> QED BY <1>1, <2>2, <4>1 DEF Stored, ToSet
      <3> DEFINE S == KeysOf(Len(tokens))
      <3>2. store \in Seq(S) /\ k \in S /\ Once(store)
        BY <1>0, <1>4
      <3> HIDE DEF S
      <3>3. /\ store' \in Seq(S) /\ Once(store')
            /\ \A a, b : a # k /\ Outlives(store, b, a) => Outlives(store', b, a)
        BY <3>1, <3>2, KeyPrepended
      <3> QED BY <3>3 DEF S
    <2> QED BY <2>1, <2>2
  <1>6. CallTo(r, [calls[r] EXCEPT !.at = "issue"])
    BY <1>1, CallMoves DEF Stages
  <1>7. CallsKnown'
    <2> DEFINE c == [calls[r] EXCEPT !.at = "issue"]
    <2>1. calls[r] \in Call
      BY SessionParts
    <2>2. c.at = "issue" /\ c.token = t
      BY <2>1 DEF Call
    <2>3. CallTo(r, c)
      BY <1>6
    <2> HIDE DEF c
    <2>4. Len(tokens') \in Nat /\ Len(tokens') >= Len(tokens)
      BY <1>0, <1>3
    <2> QED BY <1>2, <2>2, <2>3, <2>4, CallsStayKnown
  <1>8. RevokedKnown'
    BY <1>0, <1>1, <1>3 DEF RevokedKnown
  <1>9. MarkOutlives'
    <2> SUFFICES ASSUME NEW u \in 1..Len(tokens), ~tokens'[u].used, u \notin late, tokens'[u].fam \in everRevoked
                 PROVE  Outlives(store', FamilyKey(tokens'[u].fam), TokenKey(u))
      BY <1>1, <1>3 DEF MarkOutlives
    <2>1. u # t
      BY <1>3
    <2>2. Outlives(store, FamilyKey(tokens[u].fam), TokenKey(u)) /\ tokens'[u] = tokens[u] /\ TokenKey(u) # k
      BY <1>0, <1>3, <1>4, <2>1 DEF MarkOutlives
    <2> QED BY <1>5, <2>2
  <1>10. calls' \in [RefreshCalls -> Call]
    BY <1>6 DEF CallTo
  <1> QED
    BY <1>0, <1>1, <1>3, <1>5, <1>7, <1>8, <1>9, <1>10 DEF KInv, SessionTypes

LEMMA RefreshIssues == ASSUME KInv, NEW r \in RefreshCalls, rotateIssue(r) PROVE KInv'
  <1> DEFINE f == Fam(calls[r].token)
  <1>0. /\ Len(tokens) \in Nat /\ CallsKnown /\ overlapped \in [Families -> Nat]
        /\ everRevoked \subseteq Families
        /\ \A t \in 1..Len(tokens) : tokens[t].fam \in Families
    BY SessionParts
  <1>1. /\ calls[r].at = "issue" /\ issueTokenPair(f)
        /\ late' = IF f \in everRevoked THEN late \cup {Len(tokens) + 1} ELSE late
        /\ calls' = [calls EXCEPT ![r] = IdleCall] /\ UNCHANGED <<overlapped, everRevoked>>
    BY DEF rotateIssue
  <1>2. f \in Families
    BY <1>0, <1>1 DEF CallsKnown, Fam
  <1> HIDE DEF f
  <1>3. /\ tokens' \in Seq(Token) /\ Len(tokens') = Len(tokens) + 1 /\ Len(tokens') <= MaxTokens
        /\ store' \in Seq(KeysOf(Len(tokens'))) /\ Once(store') /\ access' \subseteq Families
        /\ RevokedKnown' /\ MarkOutlives'
    BY <1>1, <1>2, TokenIssued
  <1>4. CallTo(r, IdleCall) /\ IdleCall.at = "idle"
    BY <1>1, CallEnds
  <1>5. CallsKnown'
    <2>1. Len(tokens') \in Nat /\ Len(tokens') >= Len(tokens)
      BY <1>0, <1>3
    <2> QED BY <1>4, <2>1, CallsStayKnown
  <1> QED
    BY <1>0, <1>1, <1>3, <1>4, <1>5 DEF KInv, SessionTypes, CallTo

LEMMA RefreshRevokes == ASSUME KInv, NEW r \in RefreshCalls, rotateRevoke(r) PROVE KInv'
  <1> DEFINE f == Fam(calls[r].token)
             k == FamilyKey(f)
  <1>0. /\ tokens \in Seq(Token) /\ Len(tokens) \in Nat /\ Len(tokens) <= MaxTokens
        /\ CallsKnown /\ RevokedKnown /\ MarkOutlives /\ overlapped \in [Families -> Nat]
        /\ store \in Seq(KeysOf(Len(tokens))) /\ Once(store) /\ access \subseteq Families
        /\ everRevoked \subseteq Families /\ \A t \in 1..Len(tokens) : tokens[t].fam \in Families
    BY SessionParts
  <1>1. /\ calls[r].at = "revoke" /\ store' = SetEx(k) /\ everRevoked' = everRevoked \cup {f}
        /\ calls' = [calls EXCEPT ![r] = IdleCall] /\ UNCHANGED <<tokens, access, overlapped, late>>
    BY DEF rotateRevoke, revokeFamily
  <1>2. calls[r].token \in 1..Len(tokens) /\ f = tokens[calls[r].token].fam /\ f \in Families
    BY <1>0, <1>1 DEF CallsKnown, Fam
  <1> HIDE DEF f
  <1>3. /\ k \in KeysOf(Len(tokens)) /\ (\A t : TokenKey(t) # k)
        /\ \A g : FamilyKey(g) = k => g = f
    BY <1>2, KeysDiffer DEF KeysOf
  <1> HIDE DEF k
  <1>4. /\ store' \in Seq(KeysOf(Len(tokens))) /\ Once(store')
        /\ \A a, b : a # k /\ b # k /\ Outlives(store, b, a) => Outlives(store', b, a)
        /\ \A a : a # k => Outlives(store', k, a)
    BY <1>0, <1>1, <1>3, KeySet
  <1>5. CallTo(r, IdleCall) /\ IdleCall.at = "idle"
    BY <1>1, CallEnds
  <1>6. CallsKnown'
    <2>1. Len(tokens') \in Nat /\ Len(tokens') >= Len(tokens)
      BY <1>0, <1>1
    <2> QED BY <1>5, <2>1, CallsStayKnown
  <1>7. RevokedKnown'
    BY <1>0, <1>1, <1>2 DEF RevokedKnown
  <1>8. MarkOutlives'
    <2> SUFFICES ASSUME NEW t \in 1..Len(tokens), ~tokens[t].used, t \notin late, tokens[t].fam \in everRevoked'
                 PROVE  Outlives(store', FamilyKey(tokens[t].fam), TokenKey(t))
      BY <1>1 DEF MarkOutlives
    <2>1. CASE tokens[t].fam = f
      BY <1>3, <1>4, <2>1 DEF k
    <2>2. CASE tokens[t].fam # f
      <3>1. Outlives(store, FamilyKey(tokens[t].fam), TokenKey(t))
        BY <1>0, <1>1, <2>2 DEF MarkOutlives
      <3> QED BY <1>3, <1>4, <2>2, <3>1
    <2> QED BY <2>1, <2>2
  <1> QED
    BY <1>0, <1>1, <1>2, <1>4, <1>5, <1>6, <1>7, <1>8 DEF KInv, SessionTypes, CallTo

LEMMA KInvStep == KInv /\ [AuthNext]_authVars => KInv'
  <1> SUFFICES ASSUME KInv, [AuthNext]_authVars PROVE KInv'
    OBVIOUS
  <1>0. /\ store \in Seq(KeysOf(Len(tokens))) /\ Once(store) /\ access \subseteq Families
        /\ calls \in [RefreshCalls -> Call] /\ CallsKnown /\ overlapped \in [Families -> Nat]
        /\ DOMAIN tokens = 1..Len(tokens)
    BY SessionParts
  <1>1. ASSUME UNCHANGED authVars PROVE KInv'
    <2>1. UNCHANGED <<tokens, store, access, calls, overlapped, everRevoked, late>>
      BY <1>1 DEF authVars
    <2> QED BY <1>0, <2>1, StoreShrinks DEF CallsKnown
  <1>2. ASSUME NEW f \in Families, loginHandler(f) \/ logout(f) PROVE KInv'
    BY <1>1, <1>2, SessionStarts DEF logout
  <1>3. ASSUME NEW f \in Families, accessExpires(f) PROVE KInv'
    <2>1. access' = access \ {f} /\ UNCHANGED <<tokens, store, calls, overlapped, everRevoked, late>>
      BY <1>3 DEF accessExpires
    <2>2. access' \subseteq Families /\ CallsKnown'
      BY <1>0, <2>1 DEF CallsKnown
    <2> QED BY <1>0, <2>1, <2>2, StoreShrinks
  <1>4. ASSUME NEW r \in RefreshCalls, NEW t \in 1..MaxTokens, rotateRead(r, t) PROVE KInv'
    <2>1. t \in 1..Len(tokens)
      BY <1>0, <1>4 DEF rotateRead
    <2> QED BY <1>4, <2>1, RefreshReads
  <1>5. ASSUME NEW r \in RefreshCalls, rotateStep(r) PROVE KInv'
    BY <1>5, RefreshChecks, RefreshMarks, RefreshIssues, RefreshRevokes DEF rotateStep
  <1>6. CASE storeExpires
    <2>1. /\ store # << >> /\ store' = Tail(store)
          /\ UNCHANGED <<tokens, access, calls, overlapped, everRevoked, late>>
      BY <1>6 DEF storeExpires
    <2>2. /\ store' \in Seq(KeysOf(Len(tokens))) /\ Once(store')
          /\ \A a, b : Outlives(store, b, a) => Outlives(store', b, a)
      BY <1>0, <2>1, KeyExpired
    <2>3. CallsKnown'
      BY <1>0, <2>1 DEF CallsKnown
    <2> QED BY <1>0, <2>1, <2>2, <2>3, StoreShrinks
  <1> QED
    BY <1>1, <1>2, <1>3, <1>4, <1>5, <1>6 DEF AuthNext

LEMMA RevokedStay == KInv => RevokedForGood
  <1> SUFFICES ASSUME KInv, NEW t \in 1..Len(tokens), Usable(t), Fam(t) \in everRevoked, t \notin late
               PROVE  FALSE
    BY SessionParts DEF RevokedForGood
  <1>0. DOMAIN store = 1..Len(store)
    BY SessionParts
  <1>1. Outlives(store, FamilyKey(Fam(t)), TokenKey(t))
    BY SessionParts DEF MarkOutlives, Usable, Fam
  <1>2. PICK i \in 1..Len(store) : store[i] = TokenKey(t)
    BY <1>0 DEF Usable, Stored, ToSet
  <1>3. PICK j \in 1..Len(store) : store[j] = FamilyKey(Fam(t))
    BY <1>1, <1>2 DEF Outlives
  <1> QED
    BY <1>0, <1>3 DEF Usable, Revoked, Stored, ToSet

\* A refresh read its token as unused, and will mark it.
Reads(r) == calls[r].at \in {"check", "mark"} /\ ~calls[r].used

\* Who may still bring a usable token of a session: a refresh that will use one
\* up, or has, and an unused token that no refresh has read.
Taking(f) ==
    {r \in RefreshCalls : (Reads(r) \/ calls[r].at = "issue") /\ Fam(calls[r].token) = f}

Unread(f) ==
    {t \in 1..Len(tokens) : /\ Fam(t) = f /\ ~tokens[t].used
                            /\ \A r \in RefreshCalls : Reads(r) => calls[r].token # t}

ClaimsCounted ==
    \A f \in Families : Cardinality(Taking(f)) + Cardinality(Unread(f)) <= 1 + overlapped[f]

LEMMA ClaimsFinite ==
    ASSUME KInv
    PROVE  \A f : /\ IsFiniteSet(Taking(f)) /\ Cardinality(Taking(f)) \in Nat
                  /\ IsFiniteSet(Unread(f)) /\ Cardinality(Unread(f)) \in Nat
  <1> SUFFICES ASSUME NEW f
               PROVE  /\ IsFiniteSet(Taking(f)) /\ Cardinality(Taking(f)) \in Nat
                      /\ IsFiniteSet(Unread(f)) /\ Cardinality(Unread(f)) \in Nat
    OBVIOUS
  <1>1. Taking(f) \subseteq RefreshCalls /\ Unread(f) \subseteq 1..Len(tokens)
    BY DEF Taking, Unread
  <1>2. IsFiniteSet(RefreshCalls)
    BY AuthAssumption
  <1>3. IsFiniteSet(1..Len(tokens))
    BY SessionParts, FS_Interval
  <1>4. IsFiniteSet(Taking(f)) /\ IsFiniteSet(Unread(f))
    BY <1>1, <1>2, <1>3, FS_Subset
  <1> QED
    BY <1>4, FS_CardinalityType

\* The claims are kept when one takes the place of another, or an overlap is
\* counted with it.
Replaced(A, B, o, x, y, A2, B2, o2) ==
    /\ o2 \in Nat /\ o <= o2
    /\ \/ A2 \subseteq A /\ B2 \subseteq B
       \/ A2 \subseteq A \cup {x} /\ y \in B /\ B2 \subseteq B \ {y}
       \/ A2 \subseteq A \cup {x} /\ B2 \subseteq B /\ o + 1 <= o2
       \/ x \in A /\ A2 \subseteq A \ {x} /\ B2 \subseteq B \cup {y}

LEMMA ClaimsKept ==
    ASSUME NEW A, NEW B, IsFiniteSet(A), IsFiniteSet(B), NEW A2, NEW B2, NEW x, NEW y,
           NEW o \in Nat, NEW o2, Cardinality(A) + Cardinality(B) <= 1 + o,
           Replaced(A, B, o, x, y, A2, B2, o2)
    PROVE  Cardinality(A2) + Cardinality(B2) <= 1 + o2
  <1>1. /\ Cardinality(A) \in Nat /\ Cardinality(B) \in Nat
    BY FS_CardinalityType
  <1>2. \A S, T : IsFiniteSet(T) /\ S \subseteq T =>
            Cardinality(S) \in Nat /\ Cardinality(T) \in Nat /\ Cardinality(S) <= Cardinality(T)
    BY FS_Subset, FS_CardinalityType
  <1>3. /\ IsFiniteSet(A \cup {x}) /\ Cardinality(A \cup {x}) <= Cardinality(A) + 1
        /\ IsFiniteSet(B \cup {y}) /\ Cardinality(B \cup {y}) <= Cardinality(B) + 1
    <2>1. /\ IsFiniteSet(A \cup {x})
          /\ Cardinality(A \cup {x}) = IF x \in A THEN Cardinality(A) ELSE Cardinality(A) + 1
      BY FS_AddElement
    <2>2. /\ IsFiniteSet(B \cup {y})
          /\ Cardinality(B \cup {y}) = IF y \in B THEN Cardinality(B) ELSE Cardinality(B) + 1
      BY FS_AddElement
    <2> QED BY <1>1, <2>1, <2>2
  <1>4. /\ IsFiniteSet(A \ {x}) /\ (x \in A => Cardinality(A \ {x}) = Cardinality(A) - 1)
        /\ IsFiniteSet(B \ {y}) /\ (y \in B => Cardinality(B \ {y}) = Cardinality(B) - 1)
    BY <1>1, FS_RemoveElement
  <1>5. o2 \in Nat /\ o <= o2
    BY DEF Replaced
  <1>6. CASE A2 \subseteq A /\ B2 \subseteq B
    <2>1. /\ Cardinality(A2) \in Nat /\ Cardinality(B2) \in Nat
          /\ Cardinality(A2) <= Cardinality(A) /\ Cardinality(B2) <= Cardinality(B)
      BY <1>2, <1>6
    <2> QED BY <1>1, <1>5, <2>1
  <1>7. CASE A2 \subseteq A \cup {x} /\ y \in B /\ B2 \subseteq B \ {y}
    <2>1. /\ Cardinality(A2) \in Nat /\ Cardinality(B2) \in Nat
          /\ Cardinality(A2) <= Cardinality(A) + 1 /\ Cardinality(B2) <= Cardinality(B) - 1
      BY <1>1, <1>2, <1>3, <1>4, <1>7
    <2> QED BY <1>1, <1>5, <2>1
  <1>8. CASE A2 \subseteq A \cup {x} /\ B2 \subseteq B /\ o + 1 <= o2
    <2>1. /\ Cardinality(A2) \in Nat /\ Cardinality(B2) \in Nat
          /\ Cardinality(A2) <= Cardinality(A) + 1 /\ Cardinality(B2) <= Cardinality(B)
      BY <1>1, <1>2, <1>3, <1>8
    <2> QED BY <1>1, <1>5, <1>8, <2>1
  <1>9. CASE x \in A /\ A2 \subseteq A \ {x} /\ B2 \subseteq B \cup {y}
    <2>1. /\ Cardinality(A2) \in Nat /\ Cardinality(B2) \in Nat
          /\ Cardinality(A2) <= Cardinality(A) - 1 /\ Cardinality(B2) <= Cardinality(B) + 1
      BY <1>1, <1>2, <1>3, <1>4, <1>9
    <2> QED BY <1>1, <1>5, <2>1
  <1> QED
    BY <1>6, <1>7, <1>8, <1>9 DEF Replaced

\* What a step does to the claims of a session, through refresh r and token t.
ClaimsMove(f, r, t) ==
    Replaced(Taking(f), Unread(f), overlapped[f], r, t, Taking(f)', Unread(f)', overlapped'[f])

LEMMA ClaimsGoOn ==
    ASSUME KInv, ClaimsCounted, NEW r, NEW t, \A f \in Families : ClaimsMove(f, r, t)
    PROVE  ClaimsCounted'
  <1> SUFFICES ASSUME NEW f \in Families
               PROVE  Cardinality(Taking(f)') + Cardinality(Unread(f)') <= 1 + overlapped'[f]
    BY DEF ClaimsCounted
  <1>1. /\ IsFiniteSet(Taking(f)) /\ IsFiniteSet(Unread(f)) /\ overlapped[f] \in Nat
        /\ Cardinality(Taking(f)) + Cardinality(Unread(f)) <= 1 + overlapped[f]
    BY ClaimsFinite, SessionParts DEF ClaimsCounted
  <1>2. Replaced(Taking(f), Unread(f), overlapped[f], r, t, Taking(f)', Unread(f)', overlapped'[f])
    BY DEF ClaimsMove
  <1> QED
    BY ONLY <1>1, <1>2, ClaimsKept

LEMMA SessionBegun ==
    ASSUME KInv, ClaimsCounted, NEW g \in Families, loginHandler(g)
    PROVE  ClaimsCounted'
  <1>0. /\ Len(tokens) \in Nat /\ DOMAIN tokens = 1..Len(tokens) /\ CallsKnown
        /\ overlapped \in [Families -> Nat]
    BY SessionParts
  <1>1. /\ \A t \in DOMAIN tokens : tokens[t].fam # g
        /\ issueTokenPair(g) /\ UNCHANGED <<calls, overlapped, everRevoked, late>>
    BY DEF loginHandler, Fam
  <1>2. g \notin everRevoked
    BY <1>0, <1>1, SessionParts DEF RevokedKnown
  <1>3. /\ Len(tokens') = Len(tokens) + 1 /\ \A t \in 1..Len(tokens) : tokens'[t] = tokens[t]
        /\ tokens'[Len(tokens) + 1] = [fam |-> g, used |-> FALSE]
    BY <1>1, <1>2, TokenIssued
  <1>4. \A t \in 1..Len(tokens') : t \in 1..Len(tokens) \/ t = Len(tokens) + 1
    BY <1>0, <1>3
  <1>5. \A r \in RefreshCalls : Reads(r) \/ calls[r].at = "issue" => calls[r].token \in 1..Len(tokens)
    BY <1>0 DEF CallsKnown, Reads
  <1>6. \A r \in RefreshCalls : Reads(r)' <=> Reads(r)
    BY <1>1 DEF Reads
  <1>7. ASSUME NEW f \in Families, f # g PROVE ClaimsMove(f, 0, 0)
    <2>1. Taking(f)' \subseteq Taking(f)
      BY <1>1, <1>3, <1>5, <1>6 DEF Taking, Fam
    <2>2. Unread(f)' \subseteq Unread(f)
      BY <1>1, <1>3, <1>4, <1>6, <1>7 DEF Unread, Fam
    <2>3. overlapped'[f] \in Nat /\ overlapped[f] <= overlapped'[f]
      BY <1>0, <1>1
    <2> QED BY <2>1, <2>2, <2>3 DEF ClaimsMove, Replaced
  <1>8. Cardinality(Taking(g)') + Cardinality(Unread(g)') <= 1 + overlapped'[g]
    <2> DEFINE n == Len(tokens) + 1
    <2>1. Taking(g)' = {}
      BY <1>0, <1>1, <1>3, <1>5, <1>6 DEF Taking, Fam
    <2>2. Unread(g)' \subseteq {n}
      BY <1>0, <1>1, <1>3, <1>4 DEF Unread, Fam
    <2>3. Cardinality({}) = 0 /\ IsFiniteSet({n}) /\ Cardinality({n}) = 1
      BY FS_EmptySet, FS_Singleton
    <2> HIDE DEF n
    <2>4. Cardinality(Unread(g)') \in Nat /\ Cardinality(Unread(g)') <= 1
      BY <2>2, <2>3, FS_Subset, FS_CardinalityType
    <2>5. overlapped'[g] \in Nat
      BY <1>0, <1>1
    <2> QED BY <2>1, <2>3, <2>4, <2>5
  <1>9. ASSUME NEW f \in Families
        PROVE  Cardinality(Taking(f)') + Cardinality(Unread(f)') <= 1 + overlapped'[f]
    <2>1. ASSUME f # g PROVE Cardinality(Taking(f)') + Cardinality(Unread(f)') <= 1 + overlapped'[f]
      <3>1. /\ IsFiniteSet(Taking(f)) /\ IsFiniteSet(Unread(f)) /\ overlapped[f] \in Nat
            /\ Cardinality(Taking(f)) + Cardinality(Unread(f)) <= 1 + overlapped[f]
        BY <1>0, ClaimsFinite DEF ClaimsCounted
      <3>2. Replaced(Taking(f), Unread(f), overlapped[f], 0, 0, Taking(f)', Unread(f)', overlapped'[f])
        BY <1>7, <2>1 DEF ClaimsMove
      <3> QED BY ONLY <3>1, <3>2, ClaimsKept
    <2> QED BY <1>8, <2>1
  <1> QED
    BY <1>9 DEF ClaimsCounted

LEMMA ReadClaims ==
    ASSUME KInv, ClaimsCounted, NEW r \in RefreshCalls, NEW t \in 1..Len(tokens), rotateRead(r, t)
    PROVE  ClaimsCounted'
  <1> DEFINE g == tokens[t].fam
             c == [at |-> "check", token |-> t, used |-> tokens[t].used]
             met == \E s \in RefreshCalls : calls[s].token = t /\ calls[s].at # "issue"
             o == overlapped[g] + IF met THEN 1 ELSE 0
  <1>0. /\ g \in Families /\ overlapped \in [Families -> Nat]
        /\ calls \in [RefreshCalls -> Call]
    BY SessionParts
  <1>1. /\ calls[r].at = "idle" /\ calls' = [calls EXCEPT ![r] = c]
        /\ overlapped' = [overlapped EXCEPT ![g] = o] /\ UNCHANGED tokens
    BY DEF rotateRead, Fam
  <1>2. /\ calls'[r] = c /\ \A s \in RefreshCalls : s # r => calls'[s] = calls[s]
    BY <1>0, <1>1
  <1>3. c.at = "check" /\ c.token = t /\ c.used = tokens[t].used
    OBVIOUS
  <1> HIDE DEF c
  <1>4. /\ ~Reads(r) /\ (Reads(r)' <=> ~tokens[t].used)
        /\ \A s \in RefreshCalls : s # r => (Reads(s)' <=> Reads(s))
    BY <1>1, <1>2, <1>3 DEF Reads
  <1>5. /\ \A f \in Families : overlapped'[f] \in Nat /\ overlapped[f] <= overlapped'[f]
        /\ met => overlapped[g] + 1 <= overlapped'[g]
    <2>1. o \in Nat /\ overlapped[g] <= o /\ (met => overlapped[g] + 1 <= o)
      BY <1>0
    <2> HIDE DEF o
    <2>2. \A f \in Families : overlapped'[f] = IF f = g THEN o ELSE overlapped[f]
      BY <1>0, <1>1
    <2> QED BY <1>0, <2>1, <2>2
  <1>6. ASSUME NEW f \in Families PROVE ClaimsMove(f, r, t)
    <2>1. Unread(f)' \subseteq Unread(f)
      BY <1>1, <1>2, <1>4 DEF Unread, Fam
    <2>2. CASE tokens[t].used \/ f # g
      <3>1. Taking(f)' \subseteq Taking(f)
        BY <1>1, <1>2, <1>3, <1>4, <2>2 DEF Taking, Fam
      <3> QED BY <1>5, <2>1, <3>1 DEF ClaimsMove, Replaced
    <2>3. CASE ~tokens[t].used /\ f = g
      <3>1. Taking(f)' \subseteq Taking(f) \cup {r}
        BY <1>1, <1>2, <1>4 DEF Taking, Fam
      <3>2. CASE t \in Unread(f)
        <4>1. t \notin Unread(f)'
          BY <1>2, <1>3, <1>4, <2>3 DEF Unread
        <4> QED BY <1>5, <2>1, <3>1, <3>2, <4>1 DEF ClaimsMove, Replaced
      <3>3. CASE t \notin Unread(f)
        <4>1. PICK s \in RefreshCalls : Reads(s) /\ calls[s].token = t
          BY <2>3, <3>3 DEF Unread, Fam
        <4>2. met
          BY <4>1 DEF Reads
        <4> QED BY <1>5, <2>1, <2>3, <3>1, <4>2 DEF ClaimsMove, Replaced
      <3> QED BY <3>2, <3>3
    <2> QED BY <2>2, <2>3
  <1> QED
    BY <1>6, ClaimsGoOn

LEMMA CheckClaims ==
    ASSUME KInv, ClaimsCounted, NEW r \in RefreshCalls, rotateCheck(r)
    PROVE  ClaimsCounted'
  <1> DEFINE t == calls[r].token
             at == afterCheck(calls[r].used)
  <1>0. /\ CallsKnown /\ overlapped \in [Families -> Nat] /\ calls[r] \in Call
    BY SessionParts
  <1>1. calls[r].at = "check" /\ UNCHANGED <<tokens, overlapped>>
    BY DEF rotateCheck
  <1>2. t \in 1..Len(tokens)
    BY <1>0, <1>1 DEF CallsKnown
  <1>3. \A f \in Families : overlapped'[f] \in Nat /\ overlapped[f] <= overlapped'[f]
    BY <1>0, <1>1
  <1>4. Reads(r) <=> ~calls[r].used
    BY <1>1 DEF Reads
  <1>5. CASE calls' = [calls EXCEPT ![r] = IdleCall]
    <2>1. CallTo(r, IdleCall) /\ IdleCall.at = "idle"
      BY <1>5, CallEnds
    <2>2. /\ ~Reads(r)' /\ calls'[r].at = "idle"
          /\ \A s \in RefreshCalls : s # r => calls'[s] = calls[s] /\ (Reads(s)' <=> Reads(s))
      BY <2>1 DEF CallTo, Reads
    <2>3. ASSUME NEW f \in Families PROVE ClaimsMove(f, r, t)
      <3>1. Taking(f)' \subseteq Taking(f) \ {r}
        BY <1>1, <2>2 DEF Taking, Fam
      <3>2. Unread(f)' \subseteq Unread(f) \cup {t}
        BY <1>1, <2>2 DEF Unread, Fam
      <3>3. CASE r \in Taking(f)
        BY <1>3, <3>1, <3>2, <3>3 DEF ClaimsMove, Replaced
      <3>4. CASE r \notin Taking(f)
        <4>1. calls[r].used \/ Fam(t) # f
          BY <1>4, <3>4 DEF Taking
        <4>2. Unread(f)' \subseteq Unread(f)
          BY <1>1, <1>4, <2>2, <4>1 DEF Unread, Fam
        <4> QED BY <1>3, <3>1, <4>2 DEF ClaimsMove, Replaced
      <3> QED BY <3>3, <3>4
    <2> QED BY <2>3, ClaimsGoOn
  <1>6. CASE calls' = [calls EXCEPT ![r].at = at]
    <2>1. /\ at \in Stages /\ at # "issue" /\ (at \in {"check", "mark"} <=> ~calls[r].used)
      BY <1>0 DEF afterCheck, Stages, Call
    <2> HIDE DEF at
    <2> DEFINE c == [calls[r] EXCEPT !.at = at]
    <2>2. c.at = at /\ c.token = t /\ c.used = calls[r].used
      BY <1>0 DEF Call
    <2>3. CallTo(r, c)
      BY <1>6, <2>1, CallMoves
    <2> HIDE DEF c
    <2>4. /\ calls'[r].at # "issue" /\ calls'[r].token = t
          /\ \A s \in RefreshCalls : Reads(s)' <=> Reads(s)
          /\ \A s \in RefreshCalls : s # r => calls'[s] = calls[s]
      BY <1>4, <2>1, <2>2, <2>3 DEF CallTo, Reads
    <2>5. ASSUME NEW f \in Families PROVE ClaimsMove(f, r, t)
      <3>1. Taking(f)' \subseteq Taking(f)
        BY <1>1, <2>4 DEF Taking, Fam
      <3>2. Unread(f)' \subseteq Unread(f)
        BY <1>1, <2>4 DEF Unread, Fam
      <3> QED BY <1>3, <3>1, <3>2 DEF ClaimsMove, Replaced
    <2> QED BY <2>5, ClaimsGoOn
  <1> QED
    BY <1>5, <1>6 DEF rotateCheck

LEMMA MarkClaims ==
    ASSUME KInv, ClaimsCounted, NEW r \in RefreshCalls, rotateMark(r)
    PROVE  ClaimsCounted'
  <1> DEFINE t == calls[r].token
             c == [calls[r] EXCEPT !.at = "issue"]
             new == [tokens[t] EXCEPT !.used = TRUE]
  <1>0. /\ CallsKnown /\ overlapped \in [Families -> Nat] /\ calls[r] \in Call
        /\ tokens \in Seq(Token) /\ \A u \in 1..Len(tokens) : tokens[u] \in Token
    BY SessionParts
  <1>1. /\ calls[r].at = "mark" /\ tokens' = [tokens EXCEPT ![t].used = TRUE]
        /\ calls' = [calls EXCEPT ![r].at = "issue"] /\ UNCHANGED overlapped
    BY DEF rotateMark, markUsed
  <1>2. t \in 1..Len(tokens) /\ ~calls[r].used
    BY <1>0, <1>1 DEF CallsKnown
  <1>3. /\ Len(tokens') = Len(tokens) /\ tokens'[t].used
        /\ \A u \in 1..Len(tokens) : tokens'[u].fam = tokens[u].fam
        /\ \A u \in 1..Len(tokens) : u # t => tokens'[u] = tokens[u]
    <2>1. tokens' = [tokens EXCEPT ![t] = new]
      BY <1>1
    <2>2. tokens[t] \in Token
      BY <1>0, <1>2
    <2>3. new \in Token /\ new.used /\ new.fam = tokens[t].fam
      BY <2>2 DEF Token
    <2> HIDE DEF new, t
    <2> QED BY <1>0, <1>2, <2>1, <2>3
  <1>4. c.at = "issue" /\ c.token = t
    BY <1>0 DEF Call
  <1>5. CallTo(r, c)
    BY <1>1, CallMoves DEF Stages
  <1> HIDE DEF c
  <1>6. /\ Reads(r) /\ ~Reads(r)' /\ calls'[r].token = t
        /\ \A s \in RefreshCalls : s # r => calls'[s] = calls[s] /\ (Reads(s)' <=> Reads(s))
    BY <1>1, <1>2, <1>4, <1>5 DEF CallTo, Reads
  <1>7. \A s \in RefreshCalls : Reads(s) \/ calls[s].at = "issue" => calls[s].token \in 1..Len(tokens)
    BY <1>0 DEF CallsKnown, Reads
  <1>8. ASSUME NEW f \in Families PROVE ClaimsMove(f, r, t)
    <2>1. Taking(f)' \subseteq Taking(f)
      <3> SUFFICES ASSUME NEW s \in RefreshCalls, Reads(s)' \/ calls'[s].at = "issue",
                          tokens'[calls'[s].token].fam = f
                   PROVE  s \in Taking(f)
        BY DEF Taking, Fam
      <3>1. (Reads(s) \/ calls[s].at = "issue") /\ calls'[s].token = calls[s].token
        BY <1>6
      <3>2. tokens[calls[s].token].fam = f
        BY <1>3, <1>7, <3>1
      <3> QED BY <3>1, <3>2 DEF Taking, Fam
    <2>2. Unread(f)' \subseteq Unread(f)
      <3> SUFFICES ASSUME NEW u \in 1..Len(tokens), tokens'[u].fam = f, ~tokens'[u].used,
                          \A s \in RefreshCalls : Reads(s)' => calls'[s].token # u
                   PROVE  u \in Unread(f)
        BY <1>3 DEF Unread, Fam
      <3>1. u # t /\ tokens'[u] = tokens[u]
        BY <1>3
      <3>2. \A s \in RefreshCalls : Reads(s) => calls[s].token # u
        BY <1>6, <3>1
      <3> QED BY <3>1, <3>2 DEF Unread, Fam
    <2>3. overlapped'[f] \in Nat /\ overlapped[f] <= overlapped'[f]
      BY <1>0, <1>1
    <2> QED BY <2>1, <2>2, <2>3 DEF ClaimsMove, Replaced
  <1> QED
    BY <1>8, ClaimsGoOn

LEMMA IssueClaims ==
    ASSUME KInv, ClaimsCounted, NEW r \in RefreshCalls, rotateIssue(r)
    PROVE  ClaimsCounted'
  <1> DEFINE g == Fam(calls[r].token)
             n == Len(tokens) + 1
  <1>0. /\ Len(tokens) \in Nat /\ CallsKnown /\ overlapped \in [Families -> Nat]
        /\ \A t \in 1..Len(tokens) : tokens[t].fam \in Families
    BY SessionParts
  <1>1. /\ calls[r].at = "issue" /\ issueTokenPair(g)
        /\ late' = IF g \in everRevoked THEN late \cup {n} ELSE late
        /\ calls' = [calls EXCEPT ![r] = IdleCall] /\ UNCHANGED <<overlapped, everRevoked>>
    BY DEF rotateIssue
  <1>2. g \in Families
    BY <1>0, <1>1 DEF CallsKnown, Fam
  <1>3. /\ Len(tokens') = n /\ \A t \in 1..Len(tokens) : tokens'[t] = tokens[t]
        /\ tokens'[n].fam = g
    <2>1. late \subseteq late' /\ (g \in everRevoked => n \in late')
      BY <1>1
    <2>2. /\ Len(tokens') = Len(tokens) + 1 /\ \A t \in 1..Len(tokens) : tokens'[t] = tokens[t]
          /\ tokens'[Len(tokens) + 1] = [fam |-> g, used |-> FALSE]
      <3> HIDE DEF g
      <3> QED BY <1>1, <1>2, <2>1, TokenIssued
    <2> QED BY <2>2
  <1>4. \A t \in 1..Len(tokens') : t \in 1..Len(tokens) \/ t = n
    BY <1>0, <1>3
  <1>5. CallTo(r, IdleCall) /\ IdleCall.at = "idle"
    BY <1>1, CallEnds
  <1>6. /\ ~Reads(r) /\ ~Reads(r)' /\ calls'[r].at = "idle"
        /\ \A s \in RefreshCalls : s # r => calls'[s] = calls[s] /\ (Reads(s)' <=> Reads(s))
    BY <1>1, <1>5 DEF CallTo, Reads
  <1>7. \A s \in RefreshCalls : Reads(s) \/ calls[s].at = "issue" => calls[s].token \in 1..Len(tokens)
    BY <1>0 DEF CallsKnown, Reads
  <1>8. ASSUME NEW f \in Families PROVE ClaimsMove(f, r, n)
    <2>1. Taking(f)' \subseteq Taking(f) \ {r}
      <3> SUFFICES ASSUME NEW s \in RefreshCalls, Reads(s)' \/ calls'[s].at = "issue",
                          tokens'[calls'[s].token].fam = f
                   PROVE  s # r /\ s \in Taking(f)
        BY DEF Taking, Fam
      <3>1. s # r /\ (Reads(s) \/ calls[s].at = "issue") /\ calls'[s] = calls[s]
        BY <1>6
      <3>2. tokens[calls[s].token].fam = f
        BY <1>3, <1>7, <3>1
      <3> QED BY <3>1, <3>2 DEF Taking, Fam
    <2>2. ASSUME NEW u \in Unread(f)' PROVE u \in Unread(f) \/ (u = n /\ f = g)
      <3>1. /\ u \in 1..Len(tokens') /\ tokens'[u].fam = f /\ ~tokens'[u].used
            /\ \A s \in RefreshCalls : Reads(s)' => calls'[s].token # u
        BY <2>2 DEF Unread, Fam
      <3>2. \A s \in RefreshCalls : Reads(s) => calls[s].token # u
        BY <1>6, <3>1
      <3>3. CASE u = n
        BY <1>3, <3>1, <3>3
      <3>4. CASE u \in 1..Len(tokens)
        BY <1>3, <3>1, <3>2, <3>4 DEF Unread, Fam
      <3> QED BY <1>4, <3>1, <3>3, <3>4
    <2>3. overlapped'[f] \in Nat /\ overlapped[f] <= overlapped'[f]
      BY <1>0, <1>1
    <2>4. CASE f = g
      <3>1. r \in Taking(f)
        BY <1>1, <2>4 DEF Taking
      <3>2. Unread(f)' \subseteq Unread(f) \cup {n}
        BY <2>2
      <3> QED BY <2>1, <2>3, <3>1, <3>2 DEF ClaimsMove, Replaced
    <2>5. CASE f # g
      <3>1. Unread(f)' \subseteq Unread(f)
        BY <2>2, <2>5
      <3> QED BY <2>1, <2>3, <3>1 DEF ClaimsMove, Replaced
    <2> QED BY <2>4, <2>5
  <1> QED
    BY <1>8, ClaimsGoOn

LEMMA RevokeClaims ==
    ASSUME KInv, ClaimsCounted, NEW r \in RefreshCalls, rotateRevoke(r)
    PROVE  ClaimsCounted'
  <1>0. overlapped \in [Families -> Nat]
    BY SessionParts
  <1>1. calls[r].at = "revoke" /\ calls' = [calls EXCEPT ![r] = IdleCall] /\ UNCHANGED <<tokens, overlapped>>
    BY DEF rotateRevoke
  <1>2. CallTo(r, IdleCall) /\ IdleCall.at = "idle"
    BY <1>1, CallEnds
  <1>3. /\ ~Reads(r) /\ ~Reads(r)' /\ calls'[r].at = "idle"
        /\ \A s \in RefreshCalls : s # r => calls'[s] = calls[s] /\ (Reads(s)' <=> Reads(s))
    BY <1>1, <1>2 DEF CallTo, Reads
  <1>4. ASSUME NEW f \in Families PROVE ClaimsMove(f, r, 0)
    <2>1. Taking(f)' \subseteq Taking(f)
      BY <1>1, <1>3 DEF Taking, Fam
    <2>2. Unread(f)' \subseteq Unread(f)
      BY <1>1, <1>3 DEF Unread, Fam
    <2>3. overlapped'[f] \in Nat /\ overlapped[f] <= overlapped'[f]
      BY <1>0, <1>1
    <2> QED BY <2>1, <2>2, <2>3 DEF ClaimsMove, Replaced
  <1> QED
    BY <1>4, ClaimsGoOn

LEMMA ClaimsStep == KInv /\ ClaimsCounted /\ [AuthNext]_authVars => ClaimsCounted'
  <1> SUFFICES ASSUME KInv, ClaimsCounted, [AuthNext]_authVars PROVE ClaimsCounted'
    OBVIOUS
  <1>1. CASE UNCHANGED <<tokens, calls, overlapped>>
    BY <1>1 DEF ClaimsCounted, Taking, Unread, Fam, Reads
  <1>2. ASSUME NEW f \in Families, loginHandler(f) PROVE ClaimsCounted'
    BY <1>2, SessionBegun
  <1>3. ASSUME NEW r \in RefreshCalls, NEW t \in 1..MaxTokens, rotateRead(r, t) PROVE ClaimsCounted'
    <2>1. t \in 1..Len(tokens)
      BY <1>3, SessionParts DEF rotateRead
    <2> QED BY <1>3, <2>1, ReadClaims
  <1>4. ASSUME NEW r \in RefreshCalls, rotateStep(r) PROVE ClaimsCounted'
    BY <1>4, CheckClaims, MarkClaims, IssueClaims, RevokeClaims DEF rotateStep
  <1> QED
    BY <1>1, <1>2, <1>3, <1>4 DEF AuthNext, authVars, logout, accessExpires, storeExpires

LEMMA ClaimsInit == AuthInit => ClaimsCounted
  <1> SUFFICES ASSUME AuthInit, NEW f \in Families
               PROVE  Cardinality(Taking(f)) + Cardinality(Unread(f)) <= 1 + overlapped[f]
    BY DEF ClaimsCounted
  <1>1. Taking(f) = {}
    BY DEF AuthInit, Taking, Reads, IdleCall
  <1>2. Unread(f) = {}
    BY DEF AuthInit, Unread
  <1>3. overlapped[f] = 0
    BY DEF AuthInit
  <1>4. Cardinality({}) = 0
    BY FS_EmptySet
  <1> QED
    BY <1>1, <1>2, <1>3, <1>4

\* Every usable token is claimed by itself or by a refresh that read it.
LEMMA OneUsable == KInv /\ ClaimsCounted => OneUsablePerSession
  <1> SUFFICES ASSUME KInv, ClaimsCounted, NEW f \in Families
               PROVE  Cardinality({t \in DOMAIN tokens : Fam(t) = f /\ Usable(t)})
                        + Cardinality({r \in RefreshCalls : /\ calls[r].at = "issue"
                                                            /\ Fam(calls[r].token) = f})
                      <= 1 + overlapped[f]
    BY DEF OneUsablePerSession
  <1> DEFINE U == {t \in DOMAIN tokens : Fam(t) = f /\ Usable(t)}
             I == {r \in RefreshCalls : calls[r].at = "issue" /\ Fam(calls[r].token) = f}
             R == {r \in RefreshCalls : Reads(r) /\ Fam(calls[r].token) = f}
             T == {calls[r].token : r \in R}
             B == Unread(f)
  <1>0. /\ DOMAIN tokens = 1..Len(tokens) /\ overlapped[f] \in Nat
        /\ IsFiniteSet(Taking(f)) /\ IsFiniteSet(B)
        /\ Cardinality(Taking(f)) + Cardinality(B) <= 1 + overlapped[f]
    BY SessionParts, ClaimsFinite DEF ClaimsCounted
  <1>1. U \subseteq B \cup T
    BY <1>0 DEF Usable, Unread, Fam
  <1>2. Taking(f) = R \cup I /\ R \cap I = {}
    BY DEF Taking, Reads
  <1>3. IsFiniteSet(R) /\ IsFiniteSet(I)
    BY <1>0, <1>2, FS_Subset
  <1>4. IsFiniteSet(T) /\ Cardinality(T) <= Cardinality(R)
    <2> DEFINE image == [r \in R |-> calls[r].token]
    <2>1. image \in Surjection(R, T)
      BY DEF Surjection
    <2> HIDE DEF image, R, T
    <2> QED BY <1>3, <2>1, FS_Surjection
  <1> HIDE DEF U, I, R, T, B
  <1>5. Cardinality(Taking(f)) = Cardinality(R) + Cardinality(I)
    <2>1. Cardinality(R \cup I) = Cardinality(R) + Cardinality(I) - Cardinality(R \cap I)
      BY <1>3, FS_Union
    <2>2. Cardinality(R \cap I) = 0
      BY <1>2, FS_EmptySet
    <2>3. Cardinality(R) \in Nat /\ Cardinality(I) \in Nat
      BY <1>3, FS_CardinalityType
    <2> QED BY <1>2, <2>1, <2>2, <2>3
  <1>6. /\ IsFiniteSet(B \cup T) /\ Cardinality(B \cup T) <= Cardinality(B) + Cardinality(T)
    <2>1. /\ IsFiniteSet(B \cup T)
          /\ Cardinality(B \cup T) = Cardinality(B) + Cardinality(T) - Cardinality(B \cap T)
      BY <1>0, <1>4, FS_Union
    <2>2. IsFiniteSet(B \cap T)
      BY <1>0, FS_Subset
    <2>3. Cardinality(B) \in Nat /\ Cardinality(T) \in Nat /\ Cardinality(B \cap T) \in Nat
      BY <1>0, <1>4, <2>2, FS_CardinalityType
    <2> QED BY <2>1, <2>3
  <1>7. IsFiniteSet(U) /\ Cardinality(U) <= Cardinality(B \cup T)
    BY <1>1, <1>6, FS_Subset
  <1>8. /\ Cardinality(U) \in Nat /\ Cardinality(B) \in Nat /\ Cardinality(T) \in Nat
        /\ Cardinality(R) \in Nat /\ Cardinality(I) \in Nat /\ Cardinality(B \cup T) \in Nat
        /\ Cardinality(Taking(f)) \in Nat
    BY <1>0, <1>3, <1>4, <1>6, <1>7, FS_CardinalityType
  <1>9. Cardinality(U) + Cardinality(I) <= 1 + overlapped[f]
    BY <1>0, <1>4, <1>5, <1>6, <1>7, <1>8
  <1> QED
    BY <1>9 DEF U, I

\* A session has one usable token at a time, but for those that overlapping
\* refreshes got, and none once it was revoked, but for those of a refresh that
\* was past its check: for any number of sessions, tokens and refreshes at a
\* time, with entries of the store expiring at any moment.
THEOREM SessionsStay == Spec => []SessionsHold
  <1>1. Init => KInv /\ ClaimsCounted
    BY KInvInit, ClaimsInit DEF Init
  <1>2. KInv /\ ClaimsCounted /\ [Next]_vars => (KInv /\ ClaimsCounted)'
    BY PartsRun, KInvStep, ClaimsStep
  <1>3. KInv /\ ClaimsCounted => SessionsHold
    BY RevokedStay, OneUsable DEF SessionsHold
  <1> QED
    BY <1>1, <1>2, <1>3, PTL DEF Spec

-----------------------------------------------------------------------------
(* What is on show *)

ShownInv == TInv /\ NInv /\ HInv /\ VInv /\ PInv /\ FInv

LEMMA ShownInvInit == Init => ShownInv
  BY TInvInit, NInvInit, HInvInit, VInvInit, PInvInit, FInvInit DEF Init, ShownInv

LEMMA ShownInvStep == ShownInv /\ [Next]_vars => ShownInv'
  BY PartsRun, TInvStep, NInvStep, HInvStep, VInvStep, PInvStep, FInvStep DEF ShownInv

\* What is on show is true of what it is shown for, however polls, timers,
\* answers, tabs and wallets interleave: a final status is that of the
\* transaction on show, "restored" waits for every query, the light was found
\* green, the holdings are the wallet's, and filters and preferences are the
\* ones chosen.
THEOREM ShownTrue == Spec => []ShownIsTrue
  <1>1. ShownInv => ShownIsTrue
    BY ChoicesKept DEF ShownInv, TInv, NInv, HInv, VInv, PInv, ShownIsTrue
  <1> QED
    BY <1>1, ShownInvInit, ShownInvStep, PTL DEF Spec

\* The state of every part stays well typed.
THEOREM BrowserTyped == Spec => []BrowserTypeOK
  <1>1. Init => KInv /\ ShownInv
    BY KInvInit, ShownInvInit DEF Init
  <1>2. KInv /\ ShownInv /\ [Next]_vars => (KInv /\ ShownInv)'
    BY PartsRun, KInvStep, ShownInvStep
  <1>3. KInv /\ ShownInv => BrowserTypeOK
    BY SessionsTyped, VInvTypes
       DEF KInv, ShownInv, TInv, NInv, HInv, PInv, FInv, BrowserTypeOK
  <1> QED
    BY <1>1, <1>2, <1>3, PTL DEF Spec

\* Nothing on show goes back by itself: the health light follows the requests
\* in the order they were sent, the network of a wallet stays known, and a page
\* the user turned to stays.
THEOREM NothingReturns == Spec => NothingGoesBack
  <1>1. ShownInv /\ [Next]_vars =>
          [light' # light =>
              \E i \in (behind + 1)..Len(requests) : requests' = RemoveAt(requests, i)]_healthVars
    BY PartsRun, LightStep DEF ShownInv
  <1>2. ShownInv /\ [Next]_vars =>
          [owner # NoOwner /\ owner' # NoOwner /\ walletNetwork # "none"
              => walletNetwork' # "none"]_viewVars
    BY PartsRun, NetworkStep DEF ShownInv
  <1>3. ShownInv /\ [Next]_vars =>
          [params'.page # params.page =>
             edits' # edits \/ params'.filter # params.filter \/ params # seen
               \/ typed["amount"] = "bad"]_tableVars
    BY PartsRun, PageStep DEF ShownInv
  <1> QED
    BY <1>1, <1>2, <1>3, ShownInvInit, ShownInvStep, PTL
       DEF Spec, NothingGoesBack, LightNeverGoesBack, NetworkStaysKnown, PageTurnsStick
=============================================================================
