------------------------ MODULE CleaningCalendar_proofs ------------------------
(***************************************************************************)
(* Safety of the cleaning calendar for any number of stays, days and       *)
(* events: rows keep their type, only events PMS made are touched, events  *)
(* are taken away only for rows marked for it, and as long as nobody edits *)
(* the calendar a pass gives no cleaning a second event.                   *)
(***************************************************************************)
EXTENDS CleaningCalendar, Sums

(* What a pass has listed as an event of PMS has not become anybody        *)
(* else's since.                                                           *)
ListedStayOwn ==
  \A g \in Ids : pass.listing[g].alive /\ pass.listing[g].owner # None
    => (google[g].alive => google[g].owner # None)

Inv == TypeOK /\ OwnEventsOnly /\ ListedStayOwn

LEMMA LowestIn ==
  ASSUME NEW ids
  PROVE  Lowest(ids) \in ids \cup {None}
BY DEF Lowest, Min

LEMMA EventTypes == NoEvent \in Event /\ \A e \in Event : Deleted(e) \in Event /\ ~Deleted(e).alive
<1>1. NoEvent \in Event
  BY CleaningAssumption DEF NoEvent, Event, RowLook, NoRow, Look, Days
<1>2. ASSUME NEW e \in Event
      PROVE  Deleted(e) \in Event /\ ~Deleted(e).alive
  <2>1. e.calendar \in STRING \cup {None}
    BY DEF Event
  <2>2. Deleted(e) = [NoEvent EXCEPT !.calendar = e.calendar] /\ ~NoEvent.alive
    BY DEF Deleted, NoEvent
  <2> QED BY <1>1, <2>1, <2>2 DEF Event
<1> QED BY <1>1, <1>2

LEMMA RowTypes ==
  /\ NoRow \in Row
  /\ \A r \in Row : RowLook(r) \in Look /\ Removed(r) \in Row /\ Removed(r).google = r.google
BY DEF NoRow, Row, RowLook, Look, Removed

LEMMA NoPassType == NoPass \in Pass
BY EventTypes, RowTypes, CleaningAssumption DEF NoPass, Pass, Days

LEMMA KeepEndType ==
  ASSUME NEW look \in Look, NEW r \in Row
  PROVE  KeepEnd(look, r) \in Look
BY DEF KeepEnd, Look, Row

(* A match is the id already known, or a listed event of PMS, or none.     *)
LEMMA MatchIn ==
  ASSUME NEW listing, NEW i, NEW known
  PROVE  \/ Match(listing, i, known) = None
         \/ Match(listing, i, known) = known /\ known \in Ids
         \/ /\ Match(listing, i, known) \in Ids
            /\ listing[Match(listing, i, known)].alive
            /\ i # None => listing[Match(listing, i, known)].owner # None
<1> DEFINE byIdentity     == {g \in Listed(listing) : listing[g].owner = i}
           byNamedStayDay == {g \in Listed(listing) :
                                /\ listing[g].owner # None
                                /\ listing[g].owner[1] = i[1]
                                /\ listing[g].day = i[2]}
<1>1. CASE known \in Listed(listing)
  BY <1>1 DEF Match, Listed
<1>2. CASE known \notin Listed(listing) /\ byIdentity # {}
  <2>1. Match(listing, i, known) = Lowest(byIdentity)
    BY <1>2 DEF Match
  <2> QED BY <2>1, LowestIn DEF Listed
<1>3. CASE known \notin Listed(listing) /\ byIdentity = {}
  <2>1. Match(listing, i, known) = Lowest(byNamedStayDay)
    BY <1>3 DEF Match
  <2> QED BY <2>1, LowestIn DEF Listed
<1> QED BY <1>1, <1>2, <1>3

LEMMA InitInv == Init => Inv
<1> SUFFICES ASSUME Init PROVE Inv
  OBVIOUS
<1>1. TypeOK
  BY EventTypes, RowTypes, NoPassType, CleaningAssumption DEF Init, TypeOK, Days, NoPass
<1>2. OwnEventsOnly /\ ListedStayOwn
  BY DEF Init, OwnEventsOnly, ListedStayOwn, NoRow, NoPass, NoEvent
<1> QED BY <1>1, <1>2 DEF Inv

-----------------------------------------------------------------------------
(* Steps inside the process.                                               *)

LEMMA StartPassInv ==
  ASSUME Inv, NEW from, NEW to, StartPass(from, to)
  PROVE  Inv' /\ UNCHANGED google
<1> USE DEF Inv
<1>1. \A i \in Identities : BuildNamedStayEvent(i) \in Look
  BY DEF BuildNamedStayEvent, Look, TypeOK, Setting, SameDayArrival
<1>2. ListEvents(settings.calendar, from, to) \in [Ids -> Event]
  BY EventTypes DEF ListEvents, TypeOK
<1>3. Owners \subseteq Identities
  BY DEF Owners, Identities, TypeOK, Booking
<1>4. pass' \in Pass /\ pass'.pc = "desired"
  BY NoPassType, <1>1, <1>2, <1>3 DEF StartPass, Pass, TypeOK, Setting
<1>5. pass'.listing = ListEvents(settings.calendar, from, to)
  BY NoPassType DEF StartPass, Pass
<1>6. TypeOK'
  BY <1>4 DEF StartPass, TypeOK
<1>7. ListedStayOwn'
  BY <1>5 DEF ListedStayOwn, StartPass, ListEvents, NoEvent
<1> QED BY <1>6, <1>7 DEF StartPass, OwnEventsOnly

LEMMA UpsertRowInv ==
  ASSUME Inv, NEW i \in Identities, UpsertRow(i)
  PROVE  Inv' /\ UNCHANGED google
<1> USE DEF Inv
<1> DEFINE look    == KeepEnd(pass.look[i], row[i])
           matched == Match(pass.listing, i, row[i].google)
           event   == IF matched = None THEN row[i].google ELSE matched
<1>1. look \in Look
  BY KeepEndType DEF TypeOK, Pass
<1>2. /\ event \in Ids \cup {None}
      /\ event # None /\ google[event].alive => google[event].owner # None
  <2>1. row[i].google \in Ids \cup {None}
    BY DEF TypeOK, Row
  <2> QED BY <2>1, MatchIn, CleaningAssumption DEF OwnEventsOnly, ListedStayOwn
<1>3. row' = [row EXCEPT ![i] =
        [status |-> "pending", pending |-> "upsert", google |-> event, calendar |-> pass.calendar,
         sameDay |-> look.sameDay, short |-> look.short, schedule |-> look.schedule]]
  BY DEF UpsertRow
<1>4. row' \in [Identities -> Row]
  BY <1>1, <1>2, <1>3 DEF TypeOK, Row, Look, Pass
<1>5. /\ pass' = [pass EXCEPT !.pc = "upsert", !.at = i, !.todo = @ \ {i},
                              !.reused = @ \cup ({row[i].google, event} \ {None})]
      /\ UNCHANGED <<stay, settings, today, google, waiting, hands, faults>>
  BY DEF UpsertRow
<1>6. ({row[i].google, event} \ {None}) \subseteq Ids
  BY <1>2 DEF TypeOK, Row
<1>7. pass' \in Pass /\ pass'.at = i /\ pass'.listing = pass.listing
  BY <1>5, <1>6 DEF TypeOK, Pass
<1>8. TypeOK'
  BY <1>4, <1>5, <1>7 DEF TypeOK
<1>9. OwnEventsOnly'
  BY <1>2, <1>3, <1>5 DEF OwnEventsOnly, TypeOK
<1> QED BY <1>5, <1>7, <1>8, <1>9 DEF ListedStayOwn

LEMMA SyncDeleteInv ==
  ASSUME Inv, NEW i \in Identities, NEW known \in Ids \cup {None}, NEW then \in Pass,
         known # None /\ google[known].alive => google[known].owner # None,
         \A g \in Ids : then.listing[g].alive => pass.listing[g] = then.listing[g],
         then.pc \notin {"upsert", "delete"},
         SyncDelete(i, known, then),
         UNCHANGED <<stay, settings, today, google, waiting, hands, faults>>
  PROVE  Inv'
<1> USE DEF Inv
<1>1. CASE known = None
  <2>1. row' = [row EXCEPT ![i] = Removed(@)] /\ pass' = then
    BY <1>1 DEF SyncDelete
  <2>2. row' \in [Identities -> Row] /\ \A j \in Identities : row'[j].google = row[j].google
    BY <2>1, RowTypes DEF TypeOK
  <2> QED BY <2>1, <2>2 DEF TypeOK, OwnEventsOnly, ListedStayOwn
<1>2. CASE known # None
  <2>1. /\ row' = [row EXCEPT ![i] = [@ EXCEPT !.pending = "delete", !.google = known]]
        /\ pass' = [then EXCEPT !.pc = "delete", !.at = i]
    BY <1>2 DEF SyncDelete
  <2>2. row' \in [Identities -> Row]
    <3>1. row \in [Identities -> Row] /\ row[i] \in Row
      BY DEF TypeOK
    <3>2. [row[i] EXCEPT !.pending = "delete", !.google = known] \in Row
      BY <3>1 DEF Row
    <3>3. QED
      BY <2>1, <3>1, <3>2
  <2>3. pass' \in Pass /\ pass'.at = i /\ pass'.listing = then.listing
    BY <2>1 DEF Pass
  <2>4. \A j \in Identities : row'[j].google = IF j = i THEN known ELSE row[j].google
    BY <2>1 DEF TypeOK, Row
  <2> QED BY <1>2, <2>2, <2>3, <2>4 DEF TypeOK, OwnEventsOnly, ListedStayOwn
<1> QED BY <1>1, <1>2

LEMMA PassStepInv ==
  ASSUME Inv, PassStep
  PROVE  Inv' /\ UNCHANGED google
<1> USE DEF Inv
<1>1. ASSUME NEW i \in Identities, SkipEvent(i)
      PROVE  Inv' /\ UNCHANGED google
  <2>1. pass' \in Pass /\ pass'.pc = "desired" /\ pass'.listing = pass.listing
    BY <1>1 DEF SkipEvent, TypeOK, Pass
  <2> QED BY <1>1, <2>1 DEF SkipEvent, TypeOK, OwnEventsOnly, ListedStayOwn
<1>2. ASSUME NEW i \in Identities, UpsertRow(i)
      PROVE  Inv' /\ UNCHANGED google
  BY <1>2, UpsertRowInv
<1>3. ASSUME NEW i \in Identities, KeepRow(i)
      PROVE  Inv' /\ UNCHANGED google
  <2>1. pass' \in Pass /\ pass'.pc = "sweep" /\ pass'.listing = pass.listing
    BY <1>3 DEF KeepRow, TypeOK, Pass
  <2>2. row' \in [Identities -> Row] /\ \A j \in Identities : row'[j].google = row[j].google
    BY <1>3 DEF KeepRow, TypeOK, Row
  <2> QED BY <1>3, <2>1, <2>2 DEF KeepRow, TypeOK, OwnEventsOnly, ListedStayOwn
<1>4. ASSUME NEW i \in Identities, RemoveReusedRow(i)
      PROVE  Inv' /\ UNCHANGED google
  <2>1. pass' \in Pass /\ pass'.pc = "sweep" /\ pass'.listing = pass.listing
    BY <1>4 DEF RemoveReusedRow, TypeOK, Pass
  <2>2. row' \in [Identities -> Row] /\ \A j \in Identities : row'[j].google = row[j].google
    BY <1>4, RowTypes DEF RemoveReusedRow, TypeOK
  <2> QED BY <1>4, <2>1, <2>2 DEF RemoveReusedRow, TypeOK, OwnEventsOnly, ListedStayOwn
<1>5. ASSUME NEW i \in Identities, SweepRow(i)
      PROVE  Inv' /\ UNCHANGED google
  <2> DEFINE matched == Match(pass.listing, i, row[i].google)
             known   == IF row[i].google = None /\ row[i].pending # "delete" THEN matched ELSE row[i].google
             then    == [pass EXCEPT !.todo = @ \ {i}]
  <2>1. row[i].google \in Ids \cup {None}
    BY DEF TypeOK, Row
  <2>2. /\ known \in Ids \cup {None}
        /\ known # None /\ google[known].alive => google[known].owner # None
    BY <2>1, MatchIn, CleaningAssumption DEF OwnEventsOnly, ListedStayOwn
  <2>3. then \in Pass /\ then.pc = "sweep" /\ then.listing = pass.listing
    BY <1>5 DEF SweepRow, TypeOK, Pass
  <2>4. SyncDelete(i, known, then) /\ UNCHANGED <<stay, settings, today, google, waiting, hands, faults>>
    BY <1>5 DEF SweepRow
  <2> HIDE DEF known, then
  <2> QED BY <2>2, <2>3, <2>4, SyncDeleteInv
<1>6. CASE StartSweep
  <2>0. Owners \subseteq Identities
    BY DEF Owners, Identities, TypeOK, Booking
  <2> DEFINE left == {i \in Identities : row[i].status \notin {"none", "removed"}}
  <2>a. left \subseteq Identities /\ NoPass.look \in [Identities -> Look]
    BY NoPassType DEF Pass
  <2>b. pass' = [pass EXCEPT !.pc = "sweep", !.owners = Owners, !.look = NoPass.look, !.todo = left]
    BY <1>6 DEF StartSweep
  <2> HIDE DEF left
  <2>1. pass' \in Pass /\ pass'.pc = "sweep" /\ pass'.listing = pass.listing
    BY <2>0, <2>a, <2>b DEF TypeOK, Pass
  <2> QED BY <1>6, <2>1 DEF StartSweep, TypeOK, OwnEventsOnly, ListedStayOwn
<1>7. CASE EndPass
  BY <1>7, NoPassType DEF EndPass, TypeOK, OwnEventsOnly, ListedStayOwn, NoPass, NoEvent
<1> QED BY <1>1, <1>2, <1>3, <1>4, <1>5, <1>6, <1>7 DEF PassStep

LEMMA RetryEventInv ==
  ASSUME Inv, NEW i \in Identities, RetryEvent(i)
  PROVE  Inv' /\ UNCHANGED google
<1> USE DEF Inv
<1> DEFINE then == [NoPass EXCEPT !.retry = TRUE]
<1>1. CASE row[i].pending = "delete" \/ row[i].status = "removed"
  <2>1. SyncDelete(i, row[i].google, then) /\ UNCHANGED <<stay, settings, today, google, waiting, hands, faults>>
    BY <1>1 DEF RetryEvent
  <2>2. then \in Pass /\ then.pc = "idle" /\ \A g \in Ids : ~then.listing[g].alive
    BY NoPassType DEF Pass, NoPass, NoEvent
  <2>3. row[i].google \in Ids \cup {None}
    BY DEF TypeOK, Row
  <2> HIDE DEF then
  <2> QED BY <2>1, <2>2, <2>3, SyncDeleteInv DEF OwnEventsOnly
<1>2. CASE ~(row[i].pending = "delete" \/ row[i].status = "removed")
  <2>1. /\ row' = [row EXCEPT ![i].pending = "upsert"]
        /\ pass' = [NoPass EXCEPT !.pc = "upsert", !.at = i, !.retry = TRUE]
        /\ UNCHANGED <<stay, settings, today, google, waiting, hands, faults>>
    BY <1>2 DEF RetryEvent
  <2>2. pass' \in Pass /\ pass'.at = i /\ \A g \in Ids : ~pass'.listing[g].alive
    BY <2>1, NoPassType DEF Pass, NoPass, NoEvent
  <2>3. row' \in [Identities -> Row] /\ \A j \in Identities : row'[j].google = row[j].google
    BY <2>1 DEF TypeOK, Row
  <2> QED BY <2>1, <2>2, <2>3 DEF TypeOK, OwnEventsOnly, ListedStayOwn
<1> QED BY <1>1, <1>2
-----------------------------------------------------------------------------
(* Answers of Google.                                                      *)

LEMMA NextPcType ==
  ASSUME TypeOK
  PROVE  /\ NextPc \in Pass /\ NextPc.pc \notin {"upsert", "delete"}
         /\ \A g \in Ids : NextPc.listing[g].alive => NextPc.listing[g] = pass.listing[g]
<1>1. CASE pass.retry
  BY <1>1, NoPassType DEF NextPc, NoPass, NoEvent
<1>2. CASE ~pass.retry
  BY <1>2 DEF NextPc, TypeOK, Pass
<1> QED BY <1>1, <1>2

(* The event of an upsert is one of a row, or an id not given yet; it      *)
(* becomes an event of PMS.                                                *)
LEMMA DoUpsertInv ==
  ASSUME Inv, NEW i \in Identities, NEW g, DoUpsert(i, g)
  PROVE  /\ g \in Ids /\ google' \in [Ids -> Event]
         /\ google[g].alive => google[g].owner # None
         /\ \A h \in Ids : google'[h] = IF h = g THEN Payload(i) ELSE google[h]
         /\ Payload(i).owner # None
<1> USE DEF Inv
<1>1. row[i].google \in Ids \cup {None} /\ Fresh \subseteq Ids
  BY DEF TypeOK, Row, Fresh
<1>2. g \in Ids /\ (g = row[i].google \/ g \in Fresh)
  BY <1>1, LowestIn DEF DoUpsert, UpsertTargets
<1>3. Payload(i) \in Event /\ Payload(i).owner # None
  <2>1. row[i] \in Row /\ i[2] \in Days /\ i # None
    BY CleaningAssumption DEF TypeOK, Identities
  <2>2. RowLook(row[i]) \in Look /\ row[i].calendar \in STRING \cup {None}
    BY <2>1, RowTypes DEF Row
  <2> HIDE DEF Inv
  <2> QED BY <2>1, <2>2 DEF Payload, Event
<1>4. google' = [google EXCEPT ![g] = Payload(i)]
  BY DEF DoUpsert
<1>5. google[g].alive => google[g].owner # None
  BY <1>2, CleaningAssumption DEF OwnEventsOnly, Fresh
<1> QED BY <1>2, <1>3, <1>4, <1>5 DEF TypeOK

(* A deletion leaves every other event alone.                              *)
LEMMA DoDeleteInv ==
  ASSUME Inv, NEW i \in Identities, DoDelete(i)
  PROVE  /\ google' \in [Ids -> Event]
         /\ \A h \in Ids : \/ google'[h] = google[h]
                           \/ h = row[i].google /\ ~google'[h].alive
<1> USE DEF Inv
<1>1. google \in [Ids -> Event]
  BY DEF TypeOK
<1>2. google' = [google EXCEPT ![row[i].google] =
                   IF @.calendar = row[i].calendar THEN Deleted(@) ELSE @]
  BY DEF DoDelete
<1>3. ASSUME NEW h \in Ids
      PROVE  /\ google'[h] \in Event
             /\ google'[h] = google[h] \/ (h = row[i].google /\ ~google'[h].alive)
  <2>1. google[h] \in Event /\ Deleted(google[h]) \in Event /\ ~Deleted(google[h]).alive
    BY <1>1, EventTypes
  <2>2. google'[h] = IF h = row[i].google /\ google[h].calendar = row[i].calendar
                     THEN Deleted(google[h]) ELSE google[h]
    BY <1>1, <1>2
  <2>3. CASE h = row[i].google /\ google[h].calendar = row[i].calendar
    BY <2>1, <2>2, <2>3
  <2>4. CASE ~(h = row[i].google /\ google[h].calendar = row[i].calendar)
    <3> HIDE DEF Inv
    <3>1. google'[h] = google[h]
      BY <2>2, <2>4, Zenon
    <3> QED BY <2>1, <3>1
  <2> QED BY <2>3, <2>4
<1> QED BY <1>1, <1>2, <1>3

(* What an answer does to the row and to the pass, given what happened to  *)
(* the events.                                                             *)
LEMMA AnswerInv ==
  ASSUME Inv, google' \in [Ids -> Event],
         \A h \in Ids : (google'[h].alive /\ google'[h].owner = None)
                        => google[h].alive /\ google[h].owner = None,
         row' \in [Identities -> Row],
         \A j \in Identities : \/ row'[j].google = row[j].google
                               \/ row'[j].google \in Ids /\ google'[row'[j].google].owner # None,
         pass' = NextPc \/ pass' = NoPass,
         stay' = stay, settings' = settings, today' = today
  PROVE  Inv'
<1> USE DEF Inv
<1>1. /\ pass' \in Pass /\ pass'.pc \notin {"upsert", "delete"}
      /\ \A g \in Ids : pass'.listing[g].alive => pass'.listing[g] = pass.listing[g]
  <2>1. /\ NoPass \in Pass /\ NoPass.pc \notin {"upsert", "delete"}
        /\ \A g \in Ids : ~NoPass.listing[g].alive
    BY NoPassType DEF NoPass, NoEvent
  <2>2. CASE pass' = NoPass
    BY <2>1, <2>2
  <2>3. CASE pass' = NextPc
    BY <2>3, NextPcType
  <2> QED BY <2>2, <2>3
<1>2. TypeOK'
  BY <1>1 DEF TypeOK
<1>3. ASSUME NEW j \in Identities, row'[j].google # None, google'[row'[j].google].alive
      PROVE  google'[row'[j].google].owner # None
  <2>1. row[j].google \in Ids \cup {None}
    BY DEF TypeOK, Row
  <2> QED BY <1>3, <2>1 DEF OwnEventsOnly
<1>4. ListedStayOwn'
  BY <1>1 DEF ListedStayOwn
<1> QED BY <1>2, <1>3, <1>4 DEF OwnEventsOnly

LEMMA RowsOfAnswers ==
  ASSUME TypeOK, NEW i \in Identities
  PROVE  /\ \A g \in Ids : Record(i, g) \in [Identities -> Row]
         /\ Fail(i) \in [Identities -> Row]
         /\ [row EXCEPT ![i] = Removed(@)] \in [Identities -> Row]
         /\ \A j \in Identities : /\ \A g \in Ids : Record(i, g)[j].google = IF j = i THEN g ELSE row[j].google
                                  /\ Fail(i)[j].google = row[j].google
                                 /\ [row EXCEPT ![i] = Removed(@)][j].google = row[j].google
<1>1. row \in [Identities -> Row]
  BY DEF TypeOK
<1>2. ASSUME NEW g \in Ids
      PROVE  /\ Record(i, g) \in [Identities -> Row]
             /\ \A j \in Identities : Record(i, g)[j].google = IF j = i THEN g ELSE row[j].google
  <2> DEFINE new == [[[row[i] EXCEPT !.google = g] EXCEPT !.status = "synced"] EXCEPT !.pending = "none"]
  <2>1. row[i] \in Row
    BY <1>1
  <2>2. new \in Row /\ new.google = g
    BY <2>1 DEF Row
  <2>3. Record(i, g) = [row EXCEPT ![i] = new]
    BY <1>1, <2>1 DEF Record, Row
  <2> HIDE DEF new
  <2> QED BY <1>1, <2>2, <2>3
<1>3. Fail(i) \in [Identities -> Row] /\ \A j \in Identities : Fail(i)[j].google = row[j].google
  BY <1>1 DEF Fail, Row
<1>4. /\ [row EXCEPT ![i] = Removed(@)] \in [Identities -> Row]
      /\ \A j \in Identities : [row EXCEPT ![i] = Removed(@)][j].google = row[j].google
  BY <1>1, RowTypes
<1> QED BY <1>2, <1>3, <1>4

(* The events nobody but people made, before and after a step.             *)
Untouched ==
  \A g \in Ids : (google[g].alive /\ google[g].owner = None) => google'[g] = google[g]

LEMMA GoogleStepInv ==
  ASSUME Inv, GoogleUpserts \/ GoogleDeletes \/ GoogleRefuses \/ AnswerLost \/ Crash
  PROVE  Inv' /\ Untouched
<1> USE DEF Inv
<1>1. ASSUME pass.pc = "upsert", NEW g, DoUpsert(pass.at, g),
             row' = Record(pass.at, g) \/ row' = Fail(pass.at) \/ row' = row,
             pass' = NextPc \/ pass' = NoPass, stay' = stay, settings' = settings, today' = today
      PROVE  Inv' /\ Untouched
  <2>1. pass.at \in Identities
    BY <1>1 DEF TypeOK
  <2>2. /\ g \in Ids /\ google' \in [Ids -> Event]
        /\ google[g].alive => google[g].owner # None
        /\ \A h \in Ids : google'[h] = IF h = g THEN Payload(pass.at) ELSE google[h]
        /\ Payload(pass.at).owner # None
    BY <1>1, <2>1, DoUpsertInv
  <2>3. /\ row' \in [Identities -> Row]
        /\ \A j \in Identities : row'[j].google = row[j].google \/ row'[j].google = g
    BY <1>1, <2>1, <2>2, RowsOfAnswers DEF TypeOK
  <2>4. Inv'
    <3>1. \A h \in Ids : (google'[h].alive /\ google'[h].owner = None)
                         => google[h].alive /\ google[h].owner = None
      BY <2>2
    <3>2. \A j \in Identities : \/ row'[j].google = row[j].google
                                \/ row'[j].google \in Ids /\ google'[row'[j].google].owner # None
      BY <2>2, <2>3
    <3> HIDE DEF Inv
    <3> QED BY <1>1, <2>2, <2>3, <3>1, <3>2, AnswerInv
  <2> QED BY <2>2, <2>4 DEF Untouched
<1>2. ASSUME pass.pc = "delete", DoDelete(pass.at),
             row' = [row EXCEPT ![pass.at] = Removed(@)] \/ row' = Fail(pass.at) \/ row' = row,
             pass' = NextPc \/ pass' = NoPass, stay' = stay, settings' = settings, today' = today
      PROVE  Inv' /\ Untouched
  <2>1. pass.at \in Identities
    BY <1>2 DEF TypeOK
  <2>2. /\ google' \in [Ids -> Event]
        /\ \A h \in Ids : google'[h] = google[h] \/ (h = row[pass.at].google /\ ~google'[h].alive)
    BY <1>2, <2>1, DoDeleteInv
  <2>4. row' \in [Identities -> Row] /\ \A j \in Identities : row'[j].google = row[j].google
    <3>1. CASE row' = [row EXCEPT ![pass.at] = Removed(@)]
      BY <2>1, <3>1, RowsOfAnswers
    <3>2. CASE row' = Fail(pass.at)
      BY <2>1, <3>2, RowsOfAnswers
    <3>3. CASE row' = row
      BY <3>3 DEF TypeOK
    <3> QED BY <1>2, <3>1, <3>2, <3>3
  <2>5. Inv'
    <3>1. \A h \in Ids : (google'[h].alive /\ google'[h].owner = None)
                         => google[h].alive /\ google[h].owner = None
      BY <2>2
    <3>2. \A j \in Identities : \/ row'[j].google = row[j].google
                                \/ row'[j].google \in Ids /\ google'[row'[j].google].owner # None
      BY <2>4
    <3> HIDE DEF Inv
    <3> QED BY <1>2, <2>2, <2>4, <3>1, <3>2, AnswerInv
  <2>6. \A g \in Ids : g = row[pass.at].google /\ google[g].alive => google[g].owner # None
    BY <2>1, CleaningAssumption DEF OwnEventsOnly
  <2> QED BY <2>2, <2>5, <2>6 DEF Untouched
<1>3. ASSUME row' \in [Identities -> Row], \A j \in Identities : row'[j].google = row[j].google,
             pass' = NextPc \/ pass' = NoPass, stay' = stay, settings' = settings, today' = today, google' = google
      PROVE  Inv' /\ Untouched
  <2>1. google' \in [Ids -> Event]
    BY <1>3 DEF TypeOK
  <2>2. Inv'
    <3>1. \A h \in Ids : (google'[h].alive /\ google'[h].owner = None)
                         => google[h].alive /\ google[h].owner = None
      BY <1>3
    <3>2. \A j \in Identities : \/ row'[j].google = row[j].google
                                \/ row'[j].google \in Ids /\ google'[row'[j].google].owner # None
      BY <1>3
    <3> HIDE DEF Inv
    <3> QED BY <1>3, <2>1, <3>1, <3>2, AnswerInv
  <2> QED BY <1>3, <2>2 DEF Untouched
<1>4. CASE GoogleUpserts
  BY <1>1, <1>4 DEF GoogleUpserts
<1>5. CASE GoogleDeletes
  BY <1>2, <1>5 DEF GoogleDeletes
<1>6. CASE GoogleRefuses
  <2>1. pass.at \in Identities /\ row \in [Identities -> Row]
    BY <1>6 DEF GoogleRefuses, TypeOK
  <2>2. row' = Fail(pass.at) /\ pass' = NextPc /\ UNCHANGED <<stay, settings, today, google>>
    BY <1>6 DEF GoogleRefuses
  <2>3. row' \in [Identities -> Row] /\ \A j \in Identities : row'[j].google = row[j].google
    BY <2>1, <2>2 DEF Fail, Row
  <2> QED BY <1>3, <2>2, <2>3
<1>7. CASE AnswerLost
  BY <1>1, <1>2, <1>7 DEF AnswerLost
<1>8. CASE Crash
  BY <1>3, <1>8 DEF Crash, TypeOK
<1> QED BY <1>4, <1>5, <1>6, <1>7, <1>8

-----------------------------------------------------------------------------
(* People and the clock.                                                   *)

LEMMA EnvironmentInv ==
  ASSUME Inv, hands \in Nat, Environment
  PROVE  Inv' /\ (Untouched \/ hands' # hands)
<1> USE DEF Inv
<1>1. ASSUME NEW s \in Stays, NEW new \in Bookings[s], EditStay(s, new)
      PROVE  Inv' /\ Untouched
  <2>1. new \in Booking
    BY CleaningAssumption
  <2> QED BY <1>1, <2>1 DEF EditStay, TypeOK, OwnEventsOnly, ListedStayOwn, Untouched
<1>2. ASSUME NEW new \in Settings, UpdateGoogleCleaningSettings(new)
      PROVE  Inv' /\ Untouched
  BY <1>2, CleaningAssumption
  DEF UpdateGoogleCleaningSettings, TypeOK, OwnEventsOnly, ListedStayOwn, Untouched
<1>3. CASE Midnight
  BY <1>3, CleaningAssumption DEF Midnight, Days, TypeOK, OwnEventsOnly, ListedStayOwn, Untouched
<1>4. CASE EditByHand
  <2>0. /\ hands' = hands + 1 /\ hands < MaxHands
        /\ UNCHANGED <<stay, settings, today, row, pass, waiting, faults>>
    BY <1>4 DEF EditByHand
  <2>1. ASSUME NEW g \in Ids, NEW e \in Event, google' = [google EXCEPT ![g] = e],
               e.alive /\ e.owner = None => ~(google[g].alive /\ google[g].owner # None)
                 /\ (\A i \in Identities : row[i].google # g \/ google[g].alive)
                 /\ (~pass.listing[g].alive \/ google[g].alive)
        PROVE  Inv'
    <3>1. google' \in [Ids -> Event] /\ \A h \in Ids : google'[h] = IF h = g THEN e ELSE google[h]
      BY <2>1 DEF TypeOK
    <3>2. TypeOK'
      BY <2>0, <3>1 DEF TypeOK
    <3>3. \A i \in Identities : row[i].google \in Ids \cup {None}
      BY DEF TypeOK, Row
    <3>4. OwnEventsOnly'
      BY <2>0, <2>1, <3>1, <3>3 DEF OwnEventsOnly
    <3>5. ListedStayOwn'
      BY <2>0, <2>1, <3>1 DEF ListedStayOwn
    <3> QED BY <3>2, <3>4, <3>5
  <2>2. ASSUME NEW g \in Ids, google[g].alive, google' = [google EXCEPT ![g] = Deleted(@)]
        PROVE  Inv'
    <3>1. google[g] \in Event
      BY DEF TypeOK
    <3>2. Deleted(google[g]) \in Event /\ ~Deleted(google[g]).alive
      BY <3>1, EventTypes
    <3>3. google' = [google EXCEPT ![g] = Deleted(google[g])]
      BY <2>2 DEF TypeOK
    <3> QED BY <2>1, <3>2, <3>3
  <2>3. ASSUME NEW g \in Ids, NEW d \in Days, google[g].alive, google' = [google EXCEPT ![g].day = d]
        PROVE  Inv'
    <3> DEFINE e == [google[g] EXCEPT !.day = d]
    <3>1. e \in Event /\ e.owner = google[g].owner
      BY DEF TypeOK, Event
    <3>2. google' = [google EXCEPT ![g] = e]
      BY <2>3 DEF TypeOK
    <3> HIDE DEF e
    <3> QED BY <2>1, <2>3, <3>1, <3>2
  <2>4. ASSUME NEW g \in Fresh, NEW d \in Days,
               google' = [google EXCEPT ![g] =
                 [NoEvent EXCEPT !.alive = TRUE, !.day = d, !.calendar = settings.calendar]]
        PROVE  Inv'
    <3> DEFINE e == [NoEvent EXCEPT !.alive = TRUE, !.day = d, !.calendar = settings.calendar]
    <3>1. e \in Event
      BY EventTypes DEF Event, TypeOK, Setting
    <3>2. /\ g \in Ids /\ ~google[g].alive /\ ~pass.listing[g].alive
          /\ \A i \in Identities : row[i].google # g
      BY DEF Fresh
    <3> HIDE DEF e
    <3> QED BY <2>1, <2>4, <3>1, <3>2 DEF e
  <2>5. Inv'
    BY <1>4, <2>2, <2>3, <2>4 DEF EditByHand
  <2> QED BY <2>0, <2>5
<1> QED BY <1>1, <1>2, <1>3, <1>4 DEF Environment

LEMMA HandsCounted == Spec => [](hands \in Nat)
<1>1. Init => hands \in Nat
  BY DEF Init
<1>2. Next => hands' = hands \/ hands' = hands + 1
  <2>1. ReconcileProperty \/ (\E range \in waiting : ReconcileStayRange(range) \/ SkipStayRange(range))
        => hands' = hands
    BY DEF ReconcileProperty, ReconcileStayRange, StartPass, SkipStayRange
  <2>2. PassStep => hands' = hands
    BY DEF PassStep, SkipEvent, UpsertRow, KeepRow, RemoveReusedRow, SweepRow, StartSweep, EndPass
  <2>3. (\E i \in Identities : RetryEvent(i)) => hands' = hands
    BY DEF RetryEvent
  <2>4. GoogleUpserts \/ GoogleDeletes \/ GoogleRefuses \/ AnswerLost \/ Crash => hands' = hands
    BY DEF GoogleUpserts, GoogleDeletes, GoogleRefuses, AnswerLost, Crash
  <2>5. Environment => hands' = hands \/ hands' = hands + 1
    BY DEF Environment, EditStay, UpdateGoogleCleaningSettings, Midnight, EditByHand
  <2> QED BY <2>1, <2>2, <2>3, <2>4, <2>5 DEF Next
<1>3. hands \in Nat /\ [Next]_vars => (hands \in Nat)'
  BY <1>2 DEF vars
<1> QED BY <1>1, <1>3, PTL DEF Spec

LEMMA NextInv ==
  ASSUME Inv, hands \in Nat, [Next]_vars
  PROVE  Inv' /\ (Untouched \/ hands' # hands)
<1>1. CASE ReconcileProperty
  BY <1>1, StartPassInv DEF ReconcileProperty, Untouched
<1>2. ASSUME NEW range \in waiting, ReconcileStayRange(range)
      PROVE  Inv' /\ Untouched
  BY <1>2, StartPassInv DEF ReconcileStayRange, Untouched
<1>3. ASSUME NEW range \in waiting, SkipStayRange(range)
      PROVE  Inv' /\ Untouched
  BY <1>3 DEF SkipStayRange, Inv, TypeOK, OwnEventsOnly, ListedStayOwn, Untouched
<1>4. CASE PassStep
  BY <1>4, PassStepInv DEF Untouched
<1>5. ASSUME NEW i \in Identities, RetryEvent(i)
      PROVE  Inv' /\ Untouched
  BY <1>5, RetryEventInv DEF Untouched
<1>6. CASE GoogleUpserts \/ GoogleDeletes \/ GoogleRefuses \/ AnswerLost \/ Crash
  BY <1>6, GoogleStepInv
<1>7. CASE Environment
  BY <1>7, EnvironmentInv
<1>8. CASE UNCHANGED vars
  BY <1>8 DEF vars, Inv, TypeOK, OwnEventsOnly, ListedStayOwn, Untouched
<1> QED BY <1>1, <1>2, <1>3, <1>4, <1>5, <1>6, <1>7, <1>8 DEF Next

THEOREM InvHolds == Spec => []Inv
<1>1. Inv /\ hands \in Nat /\ [Next]_vars => Inv'
  BY NextInv
<1> QED BY InitInv, HandsCounted, <1>1, PTL DEF Spec

(* Every variable keeps its type.                                          *)
THEOREM TypeCorrect == Spec => []TypeOK
BY InvHolds, PTL DEF Inv

(* No row ever names an event PMS did not write: whatever a pass lists,    *)
(* matches, retries or forgets in a crash.                                 *)
THEOREM OnlyOwnEvents == Spec => []OwnEventsOnly
BY InvHolds, PTL DEF Inv

(* Events people made change by people's hands only.                       *)
THEOREM OthersLeftAlone == Spec => OthersUntouched
<1>1. Inv /\ hands \in Nat /\ [Next]_vars =>
        [\A g \in Ids : (google[g].alive /\ google[g].owner = None /\ google'[g] # google[g])
                       => hands' # hands]_vars
  BY NextInv DEF Untouched
<1> QED BY InvHolds, HandsCounted, <1>1, PTL DEF Spec, OthersUntouched

-----------------------------------------------------------------------------
(* Who an event belongs to, as long as nobody edits the calendar: what is  *)
(* in the calendar or was listed belongs to the row that names it, and no  *)
(* two rows name the same event.                                           *)
EventsHaveOwners ==
  \A g \in Ids :
    /\ google[g].alive => google[g].owner # None /\ google[g].day = google[g].owner[2]
    /\ pass.listing[g].alive =>
         /\ pass.listing[g].owner # None /\ pass.listing[g].day = pass.listing[g].owner[2]
         /\ google[g].alive => google[g].owner = pass.listing[g].owner

RowsNameTheirOwn ==
  \A i \in Identities : row[i].google # None =>
    /\ google[row[i].google].alive => google[row[i].google].owner = i
    /\ pass.listing[row[i].google].alive => pass.listing[row[i].google].owner = i
    /\ \A j \in Identities : row[j].google = row[i].google => i = j

(* A pass has listed the events of the rows it has yet to write, and they  *)
(* are still there.                                                        *)
Writing == ~pass.retry /\ pass.pc \in {"desired", "upsert"}

ListingIsCurrent ==
  Writing =>
    /\ pass.pc = "upsert" => pass.at \notin pass.todo
    /\ \A i \in pass.todo : \A g \in Ids :
         (google[g].alive /\ google[g].owner = i /\ google[g].calendar = pass.calendar)
         <=> (pass.listing[g].alive /\ pass.listing[g].owner = i)

(* The row under way names an event of the cleaning if there is one.       *)
EventIsFound ==
  (pass.pc = "upsert" /\ ~pass.retry) =>
    LET known == Live(pass.at, row[pass.at].calendar)
    IN known # {} => row[pass.at].google \in known

(* A deletion is asked of Google for a row that is marked for it.          *)
DeletesAreMarked ==
  /\ pass.pc = "delete" => row[pass.at].pending = "delete" /\ row[pass.at].google # None
  /\ pass.pc = "idle" => pass.owners = {}

-----------------------------------------------------------------------------
(* Deletions.                                                              *)

LEMMA SyncDeleteRow ==
  ASSUME TypeOK, NEW i \in Identities, NEW known, NEW then, SyncDelete(i, known, then)
  PROVE  /\ known # None => /\ row'[i].pending = "delete" /\ row'[i].google = known
                            /\ row'[i].status = row[i].status
         /\ known = None => row'[i] = Removed(row[i])
         /\ \A j \in Identities \ {i} : row'[j] = row[j]
<1>1. row \in [Identities -> Row] /\ row[i] \in Row
  BY DEF TypeOK
<1>2. CASE known = None
  BY <1>1, <1>2 DEF SyncDelete
<1>3. CASE known # None
  <2> DEFINE new == [row[i] EXCEPT !.pending = "delete", !.google = known]
  <2>1. row' = [row EXCEPT ![i] = new]
    BY <1>1, <1>3 DEF SyncDelete
  <2>2. new.pending = "delete" /\ new.google = known /\ new.status = row[i].status
    BY <1>1 DEF Row
  <2> HIDE DEF new
  <2> QED
    BY <1>1, <1>3, <2>1, <2>2
<1>4. QED
  BY <1>2, <1>3

LEMMA MarkedStep ==
  ASSUME Inv, DeletesAreMarked, [Next]_vars
  PROVE  DeletesAreMarked'
<1> USE DEF Inv, DeletesAreMarked
<1>0. NoPass.owners = {} /\ NoPass.pc = "idle"
  BY DEF NoPass
<1>1. ASSUME NEW from, NEW to, StartPass(from, to) PROVE DeletesAreMarked'
  BY <1>1, NoPassType DEF StartPass, Pass
<1>2. CASE \E range \in waiting : SkipStayRange(range)
  BY <1>2 DEF SkipStayRange
<1>3. ASSUME NEW i \in Identities, NEW known, NEW then \in Pass, SyncDelete(i, known, then),
             then.pc # "delete", then.pc = "idle" => then.owners = {}
      PROVE  DeletesAreMarked'
  <2>1. CASE known = None
    BY <1>3, <2>1 DEF SyncDelete
  <2>2. CASE known # None
    <3>1. pass'.pc = "delete" /\ pass'.at = i
      BY <1>3, <2>2 DEF SyncDelete, Pass
    <3>2. row'[i].pending = "delete" /\ row'[i].google = known
      BY <1>3, <2>2, SyncDeleteRow
    <3> QED
      BY <2>2, <3>1, <3>2
  <2> QED
    BY <2>1, <2>2
<1>4. CASE PassStep
  <2>1. ASSUME NEW i \in Identities, SkipEvent(i) \/ UpsertRow(i) \/ KeepRow(i) \/ RemoveReusedRow(i)
        PROVE  DeletesAreMarked'
    <3>1. pass'.pc \in {"desired", "upsert", "sweep"}
      BY <2>1 DEF SkipEvent, UpsertRow, KeepRow, RemoveReusedRow, TypeOK, Pass
    <3> QED
      BY <3>1
  <2>2. ASSUME NEW i \in Identities, SweepRow(i) PROVE DeletesAreMarked'
    <3> DEFINE then == [pass EXCEPT !.todo = @ \ {i}]
    <3>1. then \in Pass /\ then.pc = "sweep"
      BY <2>2 DEF SweepRow, TypeOK, Pass
    <3>2. \E known : SyncDelete(i, known, then)
      BY <2>2 DEF SweepRow
    <3> HIDE DEF then
    <3> QED
      BY <1>3, <3>1, <3>2
  <2>3. CASE StartSweep
    <3>1. pass'.pc = "sweep"
      BY <2>3 DEF StartSweep, TypeOK, Pass
    <3> QED
      BY <3>1
  <2>4. CASE EndPass
    BY <1>0, <2>4 DEF EndPass
  <2> QED
    BY <1>4, <2>1, <2>2, <2>3, <2>4 DEF PassStep
<1>5. ASSUME NEW i \in Identities, RetryEvent(i) PROVE DeletesAreMarked'
  <2> DEFINE then == [NoPass EXCEPT !.retry = TRUE]
  <2>1. then \in Pass /\ then.pc = "idle" /\ then.owners = {}
    BY NoPassType DEF Pass, NoPass
  <2>2. CASE SyncDelete(i, row[i].google, then)
    <3> HIDE DEF then
    <3> QED
      BY <1>3, <2>1, <2>2
  <2>3. CASE pass' = [NoPass EXCEPT !.pc = "upsert", !.at = i, !.retry = TRUE]
    <3>1. pass'.pc = "upsert"
      BY <2>3, NoPassType DEF Pass
    <3> QED
      BY <3>1
  <2> QED
    BY <1>5, <2>2, <2>3 DEF RetryEvent
<1>6. CASE pass' = NextPc \/ pass' = NoPass
  <2>1. NextPc.pc # "delete" /\ (NextPc.pc = "idle" => NextPc.owners = {})
    BY <1>0 DEF NextPc, TypeOK, Pass
  <2> QED
    BY <1>0, <1>6, <2>1
<1>7. CASE row' = row /\ pass' = pass
  BY <1>7
<1>8. QED
  BY <1>1, <1>2, <1>4, <1>5, <1>6, <1>7
  DEF Next, vars, ReconcileProperty, ReconcileStayRange, GoogleUpserts, GoogleDeletes,
      GoogleRefuses, AnswerLost, Crash, Environment, EditStay, UpdateGoogleCleaningSettings,
      Midnight, EditByHand

THEOREM MarkedAlways == Spec => []DeletesAreMarked
<1>1. Init => DeletesAreMarked
  BY DEF Init, DeletesAreMarked, NoPass
<1>2. Inv /\ DeletesAreMarked /\ [Next]_vars => DeletesAreMarked'
  BY MarkedStep
<1> QED
  BY <1>1, <1>2, InvHolds, PTL DEF Spec

(* The events a step takes away, and the rows it marks.                    *)
LEMMA DeletionStep ==
  ASSUME Inv, hands \in Nat, DeletesAreMarked, [Next]_vars, NEW i \in Identities
  PROVE  /\ (row[i].pending # "delete" /\ row'[i].pending = "delete") => i \notin pass.owners
         /\ \A g \in Ids : (google[g].alive /\ ~google'[g].alive /\ hands' = hands)
              => \E j \in Identities : row[j].google = g /\ row[j].pending = "delete"
         /\ LET g == row[i].google IN
            (row[i].status # "removed" /\ row'[i].status = "removed" /\ g # None)
            => g \in pass.reused \/ ~google'[g].alive \/ google[g].calendar # row[i].calendar
<1> USE DEF Inv, DeletesAreMarked
<1> DEFINE Marked == (row[i].pending # "delete" /\ row'[i].pending = "delete") => i \notin pass.owners
           Taken == \A g \in Ids : (google[g].alive /\ ~google'[g].alive /\ hands' = hands)
              => \E j \in Identities : row[j].google = g /\ row[j].pending = "delete"
           Removal == (row[i].status # "removed" /\ row'[i].status = "removed" /\ row[i].google # None)
              => \/ row[i].google \in pass.reused \/ ~google'[row[i].google].alive
                 \/ google[row[i].google].calendar # row[i].calendar
<1> SUFFICES Marked /\ Taken /\ Removal
  OBVIOUS
<1>0. row \in [Identities -> Row] /\ google \in [Ids -> Event]
  BY DEF TypeOK
<1>1. CASE row' = row /\ (google' = google \/ hands' # hands)
  BY <1>1
<1>2. ASSUME NEW k \in Identities, google' = google, row'[i] = row[i] \/ i = k,
             row'[k].pending = "delete" => row[k].pending = "delete" \/ k \notin pass.owners,
             row'[k].status = "removed" =>
               row[k].status = "removed" \/ row[k].google \in pass.reused \cup {None}
      PROVE  Marked /\ Taken /\ Removal
  BY <1>2
<1>3. CASE PassStep
  <2>1. ASSUME NEW k \in Identities, SkipEvent(k) \/ UpsertRow(k) \/ KeepRow(k) \/ RemoveReusedRow(k)
        PROVE  Marked /\ Taken /\ Removal
    <3>1. google' = google /\ (row'[i] = row[i] \/ i = k)
      BY <1>0, <2>1 DEF SkipEvent, UpsertRow, KeepRow, RemoveReusedRow
    <3>2. row'[k].pending = "delete" => row[k].pending = "delete"
      <4>1. row[k] \in Row
        BY <1>0
      <4>2. CASE SkipEvent(k) \/ UpsertRow(k)
        BY <1>0, <4>2 DEF SkipEvent, UpsertRow
      <4>3. CASE KeepRow(k)
        <5>1. row'[k] = [row[k] EXCEPT !.pending = IF k[2] < pass.today /\ @ = "upsert" THEN "none" ELSE @]
          BY <1>0, <4>3 DEF KeepRow
        <5> QED
          BY <4>1, <5>1 DEF Row
      <4>4. CASE RemoveReusedRow(k)
        <5>1. row'[k] = Removed(row[k])
          BY <1>0, <4>4 DEF RemoveReusedRow
        <5> QED
          BY <4>1, <5>1 DEF Removed, Row
      <4> QED
        BY <2>1, <4>2, <4>3, <4>4
    <3>3. row'[k].status = "removed" => row[k].status = "removed" \/ row[k].google \in pass.reused
      BY <1>0, <2>1 DEF SkipEvent, UpsertRow, KeepRow, RemoveReusedRow, Removed, Reused, Row
    <3> QED
      BY <1>2, <3>1, <3>2, <3>3
  <2>2. ASSUME NEW k \in Identities, SweepRow(k) PROVE Marked /\ Taken /\ Removal
    <3> DEFINE matched == Match(pass.listing, k, row[k].google)
               known == IF row[k].google = None /\ row[k].pending # "delete" THEN matched ELSE row[k].google
               then == [pass EXCEPT !.todo = @ \ {k}]
    <3>1. SyncDelete(k, known, then) /\ google' = google /\ (row[k].pending = "delete" \/ k \notin pass.owners)
      BY <2>2 DEF SweepRow, Keeps
    <3>2. known = None => row[k].google = None
      OBVIOUS
    <3> HIDE DEF known, then
    <3>3. row'[i] = row[i] \/ i = k
      BY <1>0, <3>1 DEF SyncDelete
    <3>4. row'[k].status = "removed" => row[k].status = "removed" \/ known = None
      BY <3>1, SyncDeleteRow
    <3> QED
      BY <1>2, <3>1, <3>2, <3>3, <3>4
  <2>3. CASE StartSweep \/ EndPass
    BY <1>1, <2>3 DEF StartSweep, EndPass
  <2> QED
    BY <1>3, <2>1, <2>2, <2>3 DEF PassStep
<1>4. ASSUME NEW k \in Identities, RetryEvent(k) PROVE Marked /\ Taken /\ Removal
  <2>1. google' = google /\ pass.owners = {}
    BY <1>4 DEF RetryEvent
  <2>2. row'[i] = row[i] \/ i = k
    BY <1>0, <1>4 DEF RetryEvent, SyncDelete
  <2>3. row'[k].status = "removed" => row[k].status = "removed" \/ row[k].google = None
    <3> DEFINE then == [NoPass EXCEPT !.retry = TRUE]
    <3>1. CASE SyncDelete(k, row[k].google, then)
      <4> HIDE DEF then
      <4> QED
        BY <3>1, SyncDeleteRow
    <3>2. CASE row' = [row EXCEPT ![k].pending = "upsert"]
      <4>1. row'[k] = [row[k] EXCEPT !.pending = "upsert"] /\ row[k] \in Row
        BY <1>0, <3>2
      <4> QED
        BY <4>1 DEF Row
    <3> QED
      BY <1>4, <3>1, <3>2 DEF RetryEvent
  <2> QED
    BY <1>2, <2>1, <2>2, <2>3
<1>5. ASSUME pass.pc = "upsert", NEW g, DoUpsert(pass.at, g),
             row' = Record(pass.at, g) \/ row' = Fail(pass.at) \/ row' = row
      PROVE  Marked /\ Taken /\ Removal
  <2>1. pass.at \in Identities
    BY <1>5 DEF TypeOK
  <2>2. \A h \in Ids : google'[h] = google[h] \/ google'[h].alive
    BY <1>0, <1>5 DEF DoUpsert, Payload
  <2>3. row'[i].pending = "delete" => row[i].pending = "delete"
    BY <1>0, <1>5, <2>1 DEF Record, Fail, Row
  <2>4. row'[i].status = "removed" => row[i].status = "removed"
    BY <1>0, <1>5, <2>1 DEF Record, Fail, Row
  <2> QED
    BY <2>2, <2>3, <2>4
<1>6. ASSUME pass.pc = "delete", DoDelete(pass.at),
             row' = [row EXCEPT ![pass.at] = Removed(@)] \/ row' = Fail(pass.at) \/ row' = row
      PROVE  Marked /\ Taken /\ Removal
  <2>1. /\ pass.at \in Identities /\ row[pass.at].pending = "delete"
        /\ row[pass.at].google # None
    BY <1>6 DEF TypeOK
  <2>2. row[pass.at].google \in Ids
    BY <1>0, <2>1 DEF Row
  <2>3. Taken
    <3>1. \A h \in Ids : google'[h] = google[h] \/ h = row[pass.at].google
      BY <1>6, <2>1, DoDeleteInv
    <3> QED
      BY <2>1, <3>1
  <2>4. Marked
    BY <1>0, <1>6, <2>1 DEF Fail, Removed, Row
  <2>5. Removal
    <3>1. row'[i].status = "removed" => row[i].status = "removed" \/ i = pass.at
      BY <1>0, <1>6, <2>1 DEF Fail, Removed, Row
    <3>2. \/ ~google'[row[pass.at].google].alive
          \/ google[row[pass.at].google].calendar # row[pass.at].calendar
      <4>1. google[row[pass.at].google] \in Event
        BY <1>0, <2>2
      <4>2. ~Deleted(google[row[pass.at].google]).alive
        BY <4>1, EventTypes
      <4>3. google'[row[pass.at].google] =
              IF google[row[pass.at].google].calendar = row[pass.at].calendar
              THEN Deleted(google[row[pass.at].google]) ELSE google[row[pass.at].google]
        BY <1>0, <1>6, <2>2 DEF DoDelete
      <4> QED
        BY <4>2, <4>3
    <3> QED
      BY <3>1, <3>2
  <2> QED
    BY <2>3, <2>4, <2>5
<1>7. CASE GoogleRefuses
  <2>1. pass.at \in Identities
    BY <1>7 DEF GoogleRefuses, TypeOK
  <2>2. google' = google /\ row' = Fail(pass.at)
    BY <1>7 DEF GoogleRefuses
  <2>3. row'[i].pending = row[i].pending /\ (row'[i].status = "removed" => row[i].status = "removed")
    BY <1>0, <2>1, <2>2 DEF Fail, Row
  <2> QED
    BY <2>2, <2>3
<1>8. CASE Environment
  <2>1. row' = row /\ (google' = google \/ hands' = hands + 1)
    BY <1>8 DEF Environment, EditStay, UpdateGoogleCleaningSettings, Midnight, EditByHand
  <2> QED
    BY <1>1, <2>1
<1>9. CASE GoogleUpserts
  BY <1>5, <1>9 DEF GoogleUpserts
<1>10. CASE GoogleDeletes
  BY <1>6, <1>10 DEF GoogleDeletes
<1>11. CASE AnswerLost
  BY <1>5, <1>6, <1>11 DEF AnswerLost
<1>12. CASE \/ Crash \/ UNCHANGED vars \/ ReconcileProperty
            \/ \E range \in waiting : ReconcileStayRange(range) \/ SkipStayRange(range)
  <2>1. row' = row /\ google' = google
    BY <1>12 DEF Crash, vars, ReconcileProperty, ReconcileStayRange, SkipStayRange, StartPass
  <2> QED
    BY <1>1, <2>1
<1>13. QED
  BY <1>3, <1>4, <1>7, <1>8, <1>9, <1>10, <1>11, <1>12 DEF Next

(* A pass marks for deletion only rows whose stay no longer wants a        *)
(* cleaning on that day, and no event leaves the calendar but through a    *)
(* row marked before.                                                      *)
THEOREM DueCleaningsKept == Spec => DueCleaningsStay
<1>1. Inv /\ hands \in Nat /\ DeletesAreMarked /\ [Next]_vars =>
        [\A i \in Identities :
           /\ (row[i].pending # "delete" /\ row'[i].pending = "delete") => i \notin pass.owners
           /\ \A g \in Ids : (row[i].google = g /\ google[g].alive /\ ~google'[g].alive /\ hands' = hands)
                => \E j \in Identities : row[j].google = g /\ row[j].pending = "delete"]_vars
  BY DeletionStep
<1> QED
  BY <1>1, InvHolds, HandsCounted, MarkedAlways, PTL DEF Spec, DueCleaningsStay

(* A row is marked removed only when its event is gone, was reused, or was *)
(* in another calendar.                                                    *)
THEOREM RemovalsAreReal == Spec => RemovedOnlyIfGone
<1>1. Inv /\ hands \in Nat /\ DeletesAreMarked /\ [Next]_vars =>
        [\A i \in Identities :
           LET g == row[i].google IN
           (row[i].status # "removed" /\ row'[i].status = "removed" /\ g # None)
           => g \in pass.reused \/ ~google'[g].alive \/ google[g].calendar # row[i].calendar]_vars
  BY DeletionStep
<1> QED
  BY <1>1, InvHolds, HandsCounted, MarkedAlways, PTL DEF Spec, RemovedOnlyIfGone

-----------------------------------------------------------------------------
(* Insertions, as long as nobody edits the calendar.                       *)
Calm == EventsHaveOwners /\ RowsNameTheirOwn /\ ListingIsCurrent /\ EventIsFound

WaitingTyped == waiting \subseteq [in : Days, out : Days]

LEMMA ExtremeOfDays ==
  ASSUME NEW T, T # {}, NEW a \in Days, NEW b \in Days, T \subseteq {a, b}
  PROVE  Min(T) \in Days /\ Max(T) \in Days
<1>1. a \in Int /\ b \in Int /\ \A x \in T : x \in Int
  BY CleaningAssumption DEF Days
<1>2. (\E x \in T : \A y \in T : x =< y) /\ (\E x \in T : \A y \in T : x >= y)
  <2>1. CASE a \in T /\ b \in T /\ a <= b
    <3>1. \A y \in T : a <= y /\ b >= y
      BY <1>1, <2>1
    <3> QED
      BY <2>1, <3>1
  <2>2. CASE a \in T /\ b \in T /\ b <= a
    <3>1. \A y \in T : b <= y /\ a >= y
      BY <1>1, <2>2
    <3> QED
      BY <2>2, <3>1
  <2>3. CASE \E x \in T : T = {x}
    <3>1. PICK x \in T : T = {x}
      BY <2>3
    <3>2. \A y \in T : x <= y /\ x >= y
      BY <1>1, <3>1
    <3> QED
      BY <3>2
  <2>4. a <= b \/ b <= a
    BY <1>1
  <2>5. (a \in T /\ b \in T) \/ \E x \in T : T = {x}
    OBVIOUS
  <2> QED
    BY <2>1, <2>2, <2>3, <2>4, <2>5
<1>4. Min(T) \in T /\ Max(T) \in T
  BY <1>2 DEF Min, Max
<1>5. QED
  BY <1>4

LEMMA WaitingAlways == Spec => []WaitingTyped
<1>1. Init => WaitingTyped
  BY DEF Init, WaitingTyped
<1>2. ASSUME Inv, WaitingTyped, [Next]_vars PROVE WaitingTyped'
  <2>1. CASE waiting' \subseteq waiting
    BY <1>2, <2>1 DEF WaitingTyped
  <2>2. ASSUME NEW s \in Stays, NEW new \in Bookings[s], EditStay(s, new) PROVE WaitingTyped'
    <3> DEFINE of == {b \in {stay[s], new} : b.active}
    <3>1. new \in Booking /\ stay[s] \in Booking
      BY <1>2, CleaningAssumption DEF Inv, TypeOK
    <3>2. of # {} /\ of \subseteq {stay[s], new}
      BY <2>2 DEF EditStay
    <3>3. /\ {b.in : b \in of} # {} /\ {b.in : b \in of} \subseteq {stay[s].in, new.in}
          /\ {b.out : b \in of} # {} /\ {b.out : b \in of} \subseteq {stay[s].out, new.out}
      <4> HIDE DEF of
      <4> QED
        BY <3>2
    <3>4. stay[s].in \in Days /\ new.in \in Days /\ stay[s].out \in Days /\ new.out \in Days
      BY <3>1 DEF Booking
    <3>5. Min({b.in : b \in of}) \in Days /\ Max({b.out : b \in of}) \in Days
      <4> HIDE DEF of
      <4> QED
        BY <3>3, <3>4, ExtremeOfDays
    <3>6. AffectedRange(stay[s], new) \in [in : Days, out : Days]
      BY <3>5 DEF AffectedRange
    <3> QED
      BY <1>2, <2>2, <3>6 DEF EditStay, WaitingTyped
  <2>3. QED
    BY <1>2, <2>1, <2>2
    DEF Next, vars, ReconcileProperty, ReconcileStayRange, SkipStayRange, StartPass,
        PassStep, SkipEvent, UpsertRow, KeepRow, RemoveReusedRow, SweepRow, StartSweep, EndPass,
        RetryEvent, GoogleUpserts, GoogleDeletes, GoogleRefuses, AnswerLost, Crash,
        Environment, UpdateGoogleCleaningSettings, Midnight, EditByHand
<1>3. QED
  BY <1>1, <1>2, InvHolds, PTL DEF Spec

(* If nobody has edited the calendar, matching finds an event of the same  *)
(* cleaning whenever one is listed, and never one of another.              *)
LEMMA MatchOwn ==
  ASSUME Inv, EventsHaveOwners, RowsNameTheirOwn, NEW i \in Identities
  PROVE  LET m == Match(pass.listing, i, row[i].google)
         IN /\ m # None => /\ m \in Ids /\ pass.listing[m].alive /\ pass.listing[m].owner = i
                           /\ \A j \in Identities : row[j].google = m => j = i
            /\ (\E g \in Ids : pass.listing[g].alive /\ pass.listing[g].owner = i) => m # None
<1> USE DEF Inv
<1> DEFINE listing == pass.listing
           known == row[i].google
           m == Match(listing, i, known)
           byIdentity     == {g \in Listed(listing) : listing[g].owner = i}
           byNamedStayDay == {g \in Listed(listing) :
                                /\ listing[g].owner # None
                                /\ listing[g].owner[1] = i[1]
                                /\ listing[g].day = i[2]}
<1>1. listing \in [Ids -> Event] /\ known \in Ids \cup {None} /\ None \notin Ids /\ Ids \subseteq Nat
  BY CleaningAssumption DEF TypeOK, Pass, Row
<1>2. byNamedStayDay \subseteq byIdentity
  <2> SUFFICES ASSUME NEW g \in Ids, listing[g].alive, listing[g].owner # None,
                      listing[g].owner[1] = i[1], listing[g].day = i[2]
               PROVE  listing[g].owner = i
    BY DEF Listed
  <2>1. listing[g].owner \in Identities /\ listing[g].day = listing[g].owner[2]
    BY <1>1 DEF EventsHaveOwners, Event
  <2>2. \A x, y \in Stays \X Days : x[1] = y[1] /\ x[2] = y[2] => x = y
    OBVIOUS
  <2> QED
    BY <2>1, <2>2 DEF Identities
<1>3. byIdentity \subseteq Ids
  BY DEF Listed
<1>4. byIdentity # {} => Lowest(byIdentity) \in byIdentity
  <2> SUFFICES ASSUME byIdentity # {} PROVE Lowest(byIdentity) \in byIdentity
    OBVIOUS
  <2>1. byIdentity \in SUBSET Nat
    BY <1>1, <1>3
  <2> HIDE DEF byIdentity
  <2>2. \E g \in byIdentity : \A h \in byIdentity : g <= h
    BY <2>1, NatMin
  <2>3. Min(byIdentity) \in byIdentity
    BY <2>2 DEF Min
  <2> QED
    BY <2>2, <2>3 DEF Lowest
<1>5. byIdentity = {} => Lowest(byNamedStayDay) = None
  <2> HIDE DEF byIdentity, byNamedStayDay
  <2> QED
    BY <1>2 DEF Lowest
<1>6. /\ known \in Listed(listing) => m = known
      /\ known \notin Listed(listing) /\ byIdentity # {} => m = Lowest(byIdentity)
      /\ known \notin Listed(listing) /\ byIdentity = {} => m = Lowest(byNamedStayDay)
  BY DEF Match
<1>7. known \in Listed(listing) => known \in byIdentity
  BY <1>1 DEF Listed, RowsNameTheirOwn
<1> HIDE DEF m
<1>8. m # None => m \in byIdentity
  BY <1>4, <1>5, <1>6, <1>7
<1>9. byIdentity # {} => m # None
  <2> HIDE DEF byIdentity
  <2> QED
    BY <1>1, <1>3, <1>4, <1>6, <1>7
<1>10. ASSUME m # None, NEW j \in Identities, row[j].google = m PROVE j = i
  <2>1. m \in Ids /\ listing[m].alive /\ listing[m].owner = i
    BY <1>8, <1>10 DEF Listed
  <2> QED
    BY <1>1, <1>10, <2>1 DEF RowsNameTheirOwn
<1>11. QED
  BY <1>8, <1>9, <1>10 DEF Listed, m

LEMMA StartPassCalm ==
  ASSUME Inv, Calm, NEW from \in Days, NEW to \in Days, StartPass(from, to)
  PROVE  Calm'
<1> USE DEF Inv, Calm
<1> DEFINE listing == ListEvents(settings.calendar, from, to)
<1>1. /\ pass'.pc = "desired" /\ pass'.retry = FALSE /\ pass'.calendar = settings.calendar
      /\ pass'.listing = listing
      /\ pass'.todo = {i \in Owners : from <= i[2] /\ i[2] <= to /\ today <= i[2]}
      /\ row' = row /\ google' = google
  BY NoPassType DEF StartPass, Pass, NoPass
<1>2. \A g \in Ids : listing[g] = IF /\ google[g].alive /\ google[g].calendar = settings.calendar
                                     /\ google[g].day \in from .. to
                                  THEN google[g] ELSE NoEvent
  BY DEF ListEvents
<1>3. ~NoEvent.alive
  BY DEF NoEvent
<1> HIDE DEF listing
<1>4. EventsHaveOwners'
  BY <1>1, <1>2, <1>3 DEF EventsHaveOwners
<1>5. RowsNameTheirOwn'
  <2>1. \A i \in Identities : row[i].google # None => row[i].google \in Ids
    BY DEF TypeOK, Row
  <2> QED
    BY <1>1, <1>2, <1>3, <2>1 DEF RowsNameTheirOwn
<1>6. ListingIsCurrent'
  <2> SUFFICES ASSUME NEW i \in pass'.todo, NEW g \in Ids
               PROVE  (google[g].alive /\ google[g].owner = i /\ google[g].calendar = settings.calendar)
                      <=> (listing[g].alive /\ listing[g].owner = i)
    BY <1>1 DEF ListingIsCurrent
  <2>1. i \in Identities /\ from <= i[2] /\ i[2] <= to /\ i[2] \in Int /\ from \in Int /\ to \in Int
    BY <1>1, CleaningAssumption DEF Owners, Identities, TypeOK, Booking, Days
  <2>2. google[g].alive /\ google[g].owner = i => google[g].day \in from .. to
    BY <2>1 DEF EventsHaveOwners
  <2> QED
    BY <1>2, <1>3, <2>2
<1>7. EventIsFound'
  BY <1>1 DEF EventIsFound
<1> QED
  BY <1>4, <1>5, <1>6, <1>7

(* Steps that write nothing new: they keep what the rows name and what was *)
(* listed, or drop it, and leave the writing part of a pass.               *)
LEMMA QuietCalm ==
  ASSUME Inv, Calm,
         \A h \in Ids : google'[h] = google[h] \/ ~google'[h].alive,
         \A j \in Identities : row'[j].google = row[j].google,
         \A g \in Ids : pass'.listing[g] = pass.listing[g] \/ ~pass'.listing[g].alive,
         pass'.retry \/ pass'.pc \notin {"desired", "upsert"}
  PROVE  Calm'
<1> USE DEF Inv, Calm
<1>1. \A i \in Identities : row[i].google # None => row[i].google \in Ids
  BY DEF TypeOK, Row
<1>2. EventsHaveOwners'
  BY DEF EventsHaveOwners
<1>3. RowsNameTheirOwn'
  BY <1>1 DEF RowsNameTheirOwn
<1>4. ListingIsCurrent' /\ EventIsFound'
  BY DEF ListingIsCurrent, EventIsFound, Writing
<1> QED
  BY <1>2, <1>3, <1>4

LEMMA UpsertRowCalm ==
  ASSUME Inv, Calm, NEW i \in Identities, UpsertRow(i)
  PROVE  Calm'
<1> USE DEF Inv, Calm
<1> DEFINE look    == KeepEnd(pass.look[i], row[i])
           matched == Match(pass.listing, i, row[i].google)
           event   == IF matched = None THEN row[i].google ELSE matched
<1>1. /\ pass.pc = "desired" /\ i \in pass.todo
      /\ google' = google
      /\ pass'.pc = "upsert" /\ pass'.at = i /\ pass'.todo = pass.todo \ {i}
      /\ pass'.listing = pass.listing /\ pass'.retry = pass.retry /\ pass'.calendar = pass.calendar
  BY DEF UpsertRow, TypeOK, Pass
<1>2. /\ row'[i].google = event /\ row'[i].calendar = pass.calendar
      /\ \A j \in Identities \ {i} : row'[j] = row[j]
  BY DEF UpsertRow, TypeOK
<1>3. /\ matched # None => /\ matched \in Ids /\ pass.listing[matched].alive
                           /\ pass.listing[matched].owner = i
                           /\ \A j \in Identities : row[j].google = matched => j = i
      /\ (\E g \in Ids : pass.listing[g].alive /\ pass.listing[g].owner = i) => matched # None
  BY MatchOwn
<1> HIDE DEF matched
<1>4. EventsHaveOwners'
  BY <1>1 DEF EventsHaveOwners
<1>5. RowsNameTheirOwn'
  <2>1. ASSUME matched = None PROVE RowsNameTheirOwn'
    <3>1. \A j \in Identities : row'[j].google = row[j].google
      BY <1>2, <2>1
    <3> QED
      BY <1>1, <3>1 DEF RowsNameTheirOwn
  <2>2. ASSUME matched # None PROVE RowsNameTheirOwn'
    <3>1. google[matched].alive => google[matched].owner = i
      BY <1>3, <2>2 DEF EventsHaveOwners
    <3>2. /\ row'[i].google = matched
          /\ \A j \in Identities \ {i} : row'[j].google = row[j].google /\ row[j].google # matched
      BY <1>2, <1>3, <2>2
    <3> QED
      BY <1>1, <1>3, <2>2, <3>1, <3>2 DEF RowsNameTheirOwn
  <2> QED
    BY <2>1, <2>2
<1>6. ListingIsCurrent'
  BY <1>1 DEF ListingIsCurrent, Writing
<1>7. EventIsFound'
  <2> SUFFICES ASSUME ~pass.retry, NEW h \in Ids, google[h].alive, google[h].owner = i,
                      google[h].calendar = pass.calendar
               PROVE  event \in {g \in Ids : /\ google[g].alive /\ google[g].owner = i
                                             /\ google[g].calendar = pass.calendar}
    BY <1>1, <1>2 DEF EventIsFound, Live
  <2>1. \A g \in Ids :
         (google[g].alive /\ google[g].owner = i /\ google[g].calendar = pass.calendar)
         <=> (pass.listing[g].alive /\ pass.listing[g].owner = i)
    BY <1>1 DEF ListingIsCurrent, Writing
  <2>2. matched # None
    BY <1>3, <2>1
  <2> QED
    BY <1>3, <2>1, <2>2
<1> QED
  BY <1>4, <1>5, <1>6, <1>7

(* The event of an upsert is not one that another row names, nor one that  *)
(* was listed as another's.                                                *)
LEMMA UpsertTargetsOwn ==
  ASSUME Inv, Calm, NEW i \in Identities, NEW g, DoUpsert(i, g)
  PROVE  /\ \A j \in Identities : row[j].google = g => j = i
         /\ pass.listing[g].alive => pass.listing[g].owner = i
<1> USE DEF Inv, Calm
<1>1. g = row[i].google \/ g \in Fresh
  BY LowestIn, CleaningAssumption DEF DoUpsert, UpsertTargets
<1>2. g # None
  BY DEF DoUpsert
<1>3. CASE g = row[i].google
  BY <1>2, <1>3 DEF RowsNameTheirOwn
<1>4. CASE g \in Fresh
  BY <1>4 DEF Fresh
<1> QED
  BY <1>1, <1>3, <1>4

(* The pass after an answer.                                               *)
LEMMA NextPcWriting ==
  ASSUME TypeOK, pass' = NextPc \/ pass' = NoPass
  PROVE  /\ pass'.pc \notin {"upsert", "delete"}
         /\ \A g \in Ids : pass'.listing[g] = pass.listing[g] \/ ~pass'.listing[g].alive
         /\ Writing' => /\ pass.pc = "upsert" /\ ~pass.retry /\ pass'.pc = "desired"
                        /\ pass'.todo = pass.todo /\ pass'.calendar = pass.calendar
                        /\ pass'.listing = pass.listing
<1>1. NoPass.pc = "idle" /\ \A g \in Ids : ~NoPass.listing[g].alive
  BY DEF NoPass, NoEvent
<1>2. CASE pass' = NoPass \/ pass.retry
  <2>1. pass' = NoPass
    BY <1>2 DEF NextPc
  <2> QED
    BY <1>1, <2>1 DEF Writing
<1>3. CASE pass' = NextPc /\ ~pass.retry
  <2>1. pass' = [pass EXCEPT !.pc = IF pass.pc = "upsert" THEN "desired" ELSE "sweep", !.at = None]
    BY <1>3 DEF NextPc
  <2>2. /\ pass'.pc = (IF pass.pc = "upsert" THEN "desired" ELSE "sweep")
        /\ pass'.todo = pass.todo /\ pass'.calendar = pass.calendar /\ pass'.listing = pass.listing
    BY <2>1 DEF TypeOK, Pass
  <2> QED
    BY <1>3, <2>2 DEF Writing
<1> QED
  BY <1>2, <1>3

LEMMA DoUpsertCalm ==
  ASSUME Inv, Calm, pass.pc = "upsert", NEW g, DoUpsert(pass.at, g),
         \A j \in Identities : \/ row'[j].google = row[j].google
                               \/ j = pass.at /\ row'[j].google = g,
         pass' = NextPc \/ pass' = NoPass
  PROVE  Calm'
<1> USE DEF Inv, Calm
<1> DEFINE i == pass.at
<1>1. i \in Identities
  BY DEF TypeOK
<1>2. /\ g \in Ids /\ g # None
      /\ \A h \in Ids : google'[h] = IF h = g THEN Payload(i) ELSE google[h]
      /\ \A j \in Identities : row[j].google = g => j = i
      /\ pass.listing[g].alive => pass.listing[g].owner = i
  BY <1>1, DoUpsertInv, UpsertTargetsOwn DEF DoUpsert
<1>3. Payload(i).alive /\ Payload(i).owner = i /\ Payload(i).day = i[2] /\ i # None
  BY <1>1, CleaningAssumption DEF Payload
<1>4. /\ pass'.pc # "upsert"
      /\ \A h \in Ids : pass'.listing[h] = pass.listing[h] \/ ~pass'.listing[h].alive
      /\ Writing' => /\ ~pass.retry
                     /\ pass'.todo = pass.todo /\ pass'.calendar = pass.calendar
                     /\ pass'.listing = pass.listing
  BY NextPcWriting
<1>5. \A j \in Identities : row[j].google # None => row[j].google \in Ids
  BY DEF TypeOK, Row
<1> HIDE DEF i
<1>6. EventsHaveOwners'
  BY <1>2, <1>3, <1>4 DEF EventsHaveOwners
<1>7. RowsNameTheirOwn'
  <2> SUFFICES ASSUME NEW j \in Identities, row'[j].google # None
               PROVE  /\ google'[row'[j].google].alive => google'[row'[j].google].owner = j
                      /\ pass'.listing[row'[j].google].alive => pass'.listing[row'[j].google].owner = j
                      /\ \A k \in Identities : row'[k].google = row'[j].google => j = k
    BY DEF RowsNameTheirOwn
  <2>1. CASE row'[j].google = g
    <3>1. j = i
      BY <1>2, <2>1 DEF i
    <3>2. \A k \in Identities : row'[k].google = g => k = i
      BY <1>2 DEF i
    <3> QED
      BY <1>2, <1>3, <1>4, <2>1, <3>1, <3>2
  <2>2. CASE row'[j].google # g
    <3>1. row'[j].google = row[j].google
      BY <2>2 DEF i
    <3>2. /\ row[j].google \in Ids
          /\ google[row[j].google].alive => google[row[j].google].owner = j
          /\ pass.listing[row[j].google].alive => pass.listing[row[j].google].owner = j
          /\ \A k \in Identities : row[k].google = row[j].google => j = k
      BY <1>5, <3>1 DEF RowsNameTheirOwn
    <3>3. \A k \in Identities : row'[k].google = row[j].google => row[k].google = row[j].google
      BY <2>2, <3>1
    <3> QED
      BY <1>2, <1>4, <2>2, <3>1, <3>2, <3>3
  <2> QED
    BY <2>1, <2>2
<1>8. ListingIsCurrent'
  <2> SUFFICES ASSUME Writing', NEW j \in pass.todo, NEW h \in Ids
               PROVE  (google'[h].alive /\ google'[h].owner = j /\ google'[h].calendar = pass.calendar)
                      <=> (pass.listing[h].alive /\ pass.listing[h].owner = j)
    BY <1>4 DEF ListingIsCurrent
  <2>1. /\ j # i
        /\ (google[h].alive /\ google[h].owner = j /\ google[h].calendar = pass.calendar)
           <=> (pass.listing[h].alive /\ pass.listing[h].owner = j)
    BY <1>4 DEF ListingIsCurrent, Writing, i
  <2> QED
    BY <1>2, <1>3, <2>1
<1>9. EventIsFound'
  BY <1>4 DEF EventIsFound
<1> QED
  BY <1>6, <1>7, <1>8, <1>9

LEMMA GoogleStepCalm ==
  ASSUME Inv, Calm, GoogleUpserts \/ GoogleDeletes \/ GoogleRefuses \/ AnswerLost \/ Crash
  PROVE  Calm'
<1> USE DEF Inv, Calm
<1>1. ASSUME pass.pc = "upsert", NEW g, DoUpsert(pass.at, g),
             row' = Record(pass.at, g) \/ row' = Fail(pass.at) \/ row' = row,
             pass' = NextPc \/ pass' = NoPass
      PROVE  Calm'
  <2>1. pass.at \in Identities /\ g \in Ids
    <3>1. pass.at \in Identities
      BY <1>1 DEF TypeOK
    <3> QED
      BY <1>1, <3>1, DoUpsertInv
  <2>2. \A j \in Identities : \/ row'[j].google = row[j].google
                              \/ j = pass.at /\ row'[j].google = g
    BY <1>1, <2>1, RowsOfAnswers
  <2> HIDE DEF Inv, Calm
  <2> QED
    BY <1>1, <2>2, DoUpsertCalm
<1>2. ASSUME pass.pc = "delete", DoDelete(pass.at),
             row' = [row EXCEPT ![pass.at] = Removed(@)] \/ row' = Fail(pass.at) \/ row' = row,
             pass' = NextPc \/ pass' = NoPass
      PROVE  Calm'
  <2>1. pass.at \in Identities
    BY <1>2 DEF TypeOK
  <2>2. \A h \in Ids : google'[h] = google[h] \/ ~google'[h].alive
    BY <1>2, <2>1, DoDeleteInv
  <2>3. \A j \in Identities : row'[j].google = row[j].google
    <3>1. \A j \in Identities : /\ Fail(pass.at)[j].google = row[j].google
                               /\ [row EXCEPT ![pass.at] = Removed(@)][j].google = row[j].google
      BY <2>1, RowsOfAnswers
    <3> HIDE DEF Inv, Calm
    <3>2. QED
      BY <1>2, <3>1
  <2>4. /\ \A g \in Ids : pass'.listing[g] = pass.listing[g] \/ ~pass'.listing[g].alive
        /\ pass'.retry \/ pass'.pc \notin {"desired", "upsert"}
    BY <1>2, NextPcWriting DEF Writing
  <2> HIDE DEF Inv, Calm
  <2> QED
    BY <2>2, <2>3, <2>4, QuietCalm
<1>3. CASE GoogleRefuses
  <2>1. pass.at \in Identities
    BY <1>3 DEF GoogleRefuses, TypeOK
  <2>2. google' = google /\ \A j \in Identities : row'[j].google = row[j].google
    BY <1>3, <2>1, RowsOfAnswers DEF GoogleRefuses
  <2>3. /\ pass'.pc # "upsert"
        /\ \A g \in Ids : pass'.listing[g] = pass.listing[g] \/ ~pass'.listing[g].alive
        /\ Writing' => /\ pass.pc = "upsert" /\ ~pass.retry /\ pass'.pc = "desired"
                       /\ pass'.todo = pass.todo /\ pass'.calendar = pass.calendar
                       /\ pass'.listing = pass.listing
    BY <1>3, NextPcWriting DEF GoogleRefuses
  <2>4. CASE Writing'
    <3>1. pass'.listing = pass.listing
      BY <2>3, <2>4
    <3>2. EventsHaveOwners'
      BY <2>2, <3>1 DEF EventsHaveOwners
    <3>3. RowsNameTheirOwn'
      BY <2>2, <3>1 DEF RowsNameTheirOwn
    <3>4. ListingIsCurrent'
      BY <2>2, <2>3, <2>4 DEF ListingIsCurrent, Writing
    <3>5. EventIsFound'
      BY <2>3 DEF EventIsFound
    <3> QED
      BY <3>2, <3>3, <3>4, <3>5
  <2>5. CASE ~Writing'
    <3>1. pass'.retry \/ pass'.pc \notin {"desired", "upsert"}
      BY <2>5 DEF Writing
    <3> HIDE DEF Inv, Calm
    <3> QED
      BY <2>2, <2>3, <3>1, QuietCalm
  <2> QED
    BY <2>4, <2>5
<1>4. CASE Crash
  <2>1. google' = google /\ row' = row /\ pass' = NoPass
    BY <1>4 DEF Crash
  <2>2. NoPass.pc = "idle" /\ \A g \in Ids : ~NoPass.listing[g].alive
    BY DEF NoPass, NoEvent
  <2> HIDE DEF Inv, Calm
  <2> QED
    BY <2>1, <2>2, QuietCalm
<1>5. QED
  BY <1>1, <1>2, <1>3, <1>4 DEF GoogleUpserts, GoogleDeletes, AnswerLost

LEMMA SyncDeleteCalm ==
  ASSUME Inv, Calm, google' = google, NEW i \in Identities, NEW known, NEW then \in Pass,
         known = row[i].google \/ known = Match(pass.listing, i, row[i].google),
         \A g \in Ids : then.listing[g] = pass.listing[g] \/ ~then.listing[g].alive,
         then.pc \in {"idle", "sweep"}, SyncDelete(i, known, then)
  PROVE  Calm'
<1> USE DEF Inv, Calm
<1>1. /\ known # None => row'[i].google = known
      /\ known = None => row'[i] = Removed(row[i])
      /\ \A j \in Identities \ {i} : row'[j] = row[j]
  BY SyncDeleteRow
<1>2. pass'.listing = then.listing /\ pass'.pc \notin {"desired", "upsert"}
  BY DEF SyncDelete, Pass
<1>3. CASE known = None \/ known = row[i].google
  <2>1. \A j \in Identities : row'[j].google = row[j].google
    BY <1>1, <1>3, RowTypes DEF TypeOK
  <2> HIDE DEF Inv, Calm
  <2> QED
    BY <1>2, <2>1, QuietCalm
<1>4. CASE known # None /\ known = Match(pass.listing, i, row[i].google)
  <2>1. /\ known \in Ids /\ pass.listing[known].alive /\ pass.listing[known].owner = i
        /\ \A j \in Identities : row[j].google = known => j = i
    BY <1>4, MatchOwn
  <2>2. google[known].alive => google[known].owner = i
    BY <2>1 DEF EventsHaveOwners
  <2>3. EventsHaveOwners'
    BY <1>2 DEF EventsHaveOwners
  <2>4. RowsNameTheirOwn'
    <3>1. \A j \in Identities : row[j].google # None => row[j].google \in Ids
      BY DEF TypeOK, Row
    <3>2. /\ row'[i].google = known
          /\ \A j \in Identities \ {i} : row'[j].google = row[j].google /\ row[j].google # known
      BY <1>1, <1>4, <2>1
    <3> QED
      BY <1>2, <2>1, <2>2, <3>1, <3>2 DEF RowsNameTheirOwn
  <2>5. ListingIsCurrent' /\ EventIsFound'
    BY <1>2 DEF ListingIsCurrent, EventIsFound, Writing
  <2> QED
    BY <2>3, <2>4, <2>5
<1> QED
  BY <1>3, <1>4

LEMMA PassStepCalm ==
  ASSUME Inv, Calm, PassStep
  PROVE  Calm'
<1> USE DEF Inv, Calm
<1>1. ASSUME NEW i \in Identities, SkipEvent(i) PROVE Calm'
  <2>1. /\ google' = google /\ row' = row /\ pass.pc = "desired"
        /\ pass'.pc = "desired" /\ pass'.retry = pass.retry /\ pass'.todo \subseteq pass.todo
        /\ pass'.listing = pass.listing /\ pass'.calendar = pass.calendar
    BY <1>1 DEF SkipEvent, TypeOK, Pass
  <2>2. EventsHaveOwners' /\ RowsNameTheirOwn'
    BY <2>1 DEF EventsHaveOwners, RowsNameTheirOwn
  <2>3. ListingIsCurrent' /\ EventIsFound'
    BY <2>1 DEF ListingIsCurrent, EventIsFound, Writing
  <2> QED
    BY <2>2, <2>3
<1>2. ASSUME NEW i \in Identities, KeepRow(i) \/ RemoveReusedRow(i) PROVE Calm'
  <2>1. google' = google /\ pass'.pc = "sweep" /\ pass'.listing = pass.listing
    BY <1>2 DEF KeepRow, RemoveReusedRow, TypeOK, Pass
  <2>2. \A j \in Identities : row'[j].google = row[j].google
    BY <1>2, RowTypes DEF KeepRow, RemoveReusedRow, TypeOK, Row
  <2> HIDE DEF Inv, Calm
  <2> QED
    BY <2>1, <2>2, QuietCalm
<1>3. ASSUME NEW i \in Identities, SweepRow(i) PROVE Calm'
  <2> DEFINE then == [pass EXCEPT !.todo = @ \ {i}]
  <2>1. then \in Pass /\ then.pc = "sweep" /\ then.listing = pass.listing
    BY <1>3 DEF SweepRow, TypeOK, Pass
  <2>2. \E known \in {row[i].google, Match(pass.listing, i, row[i].google)} : SyncDelete(i, known, then)
    BY <1>3 DEF SweepRow
  <2>3. google' = google
    BY <1>3 DEF SweepRow
  <2> HIDE DEF then, Inv, Calm
  <2> QED
    BY <2>1, <2>2, <2>3, SyncDeleteCalm
<1>4. CASE StartSweep \/ EndPass
  <2>1. google' = google /\ row' = row
    BY <1>4 DEF StartSweep, EndPass
  <2>2. /\ pass'.pc \notin {"desired", "upsert"}
        /\ \A g \in Ids : pass'.listing[g] = pass.listing[g] \/ ~pass'.listing[g].alive
    <3>1. CASE StartSweep
      BY <3>1 DEF StartSweep, TypeOK, Pass
    <3>2. CASE EndPass
      BY <3>2 DEF EndPass, NoPass, NoEvent
    <3> QED
      BY <1>4, <3>1, <3>2
  <2> HIDE DEF Inv, Calm
  <2> QED
    BY <2>1, <2>2, QuietCalm
<1>5. QED
  BY <1>1, <1>2, <1>3, <1>4, UpsertRowCalm DEF PassStep

LEMMA RetryEventCalm ==
  ASSUME Inv, Calm, NEW i \in Identities, RetryEvent(i)
  PROVE  Calm'
<1> DEFINE then == [NoPass EXCEPT !.retry = TRUE]
<1>1. then \in Pass /\ then.pc = "idle" /\ \A g \in Ids : ~then.listing[g].alive
  BY NoPassType DEF Pass, NoPass, NoEvent
<1>2. google' = google
  BY DEF RetryEvent
<1>3. CASE SyncDelete(i, row[i].google, then)
  <2> HIDE DEF then
  <2> QED
    BY <1>1, <1>2, <1>3, SyncDeleteCalm
<1>4. CASE /\ row' = [row EXCEPT ![i].pending = "upsert"]
           /\ pass' = [NoPass EXCEPT !.pc = "upsert", !.at = i, !.retry = TRUE]
  <2>1. pass'.retry /\ \A g \in Ids : ~pass'.listing[g].alive
    BY <1>4, NoPassType DEF Pass, NoPass, NoEvent
  <2>2. \A j \in Identities : row'[j].google = row[j].google
    BY <1>4 DEF Inv, TypeOK, Row
  <2> QED
    BY <1>2, <2>1, <2>2, QuietCalm
<1>5. QED
  BY <1>3, <1>4 DEF RetryEvent

LEMMA CalmStep ==
  ASSUME Inv, hands \in Nat, WaitingTyped, hands = 0 => Calm, [Next]_vars, hands' = 0
  PROVE  Calm'
<1>1. CASE UNCHANGED <<row, google, pass, hands>>
  BY <1>1 DEF Calm, EventsHaveOwners, RowsNameTheirOwn, ListingIsCurrent, EventIsFound, Writing, Live
<1>2. CASE Environment
  <2>1. EditByHand => hands' = hands + 1
    BY DEF EditByHand
  <2>2. ~EditByHand
    BY <2>1
  <2> QED
    BY <1>1, <1>2, <2>2 DEF Environment, EditStay, UpdateGoogleCleaningSettings, Midnight
<1>3. CASE ReconcileProperty
  <2>1. today \in Days /\ LastDay \in Days /\ hands' = hands
    BY <1>3, CleaningAssumption DEF Inv, TypeOK, Days, ReconcileProperty, StartPass
  <2> QED
    BY <1>3, <2>1, StartPassCalm DEF ReconcileProperty
<1>4. ASSUME NEW range \in waiting, ReconcileStayRange(range) PROVE Calm'
  <2>1. range.in \in Days /\ range.out \in Days /\ hands' = hands
    BY <1>4 DEF WaitingTyped, ReconcileStayRange, StartPass
  <2> QED
    BY <1>4, <2>1, StartPassCalm DEF ReconcileStayRange
<1>5. ASSUME NEW range \in waiting, SkipStayRange(range) PROVE Calm'
  BY <1>1, <1>5 DEF SkipStayRange
<1>6. CASE PassStep
  <2>1. hands' = hands
    BY <1>6 DEF PassStep, SkipEvent, UpsertRow, KeepRow, RemoveReusedRow, SweepRow, StartSweep, EndPass
  <2> QED
    BY <1>6, <2>1, PassStepCalm
<1>7. ASSUME NEW i \in Identities, RetryEvent(i) PROVE Calm'
  <2>1. hands' = hands
    BY <1>7 DEF RetryEvent
  <2> QED
    BY <1>7, <2>1, RetryEventCalm
<1>8. CASE GoogleUpserts \/ GoogleDeletes \/ GoogleRefuses \/ AnswerLost \/ Crash
  <2>1. hands' = hands
    BY <1>8 DEF GoogleUpserts, GoogleDeletes, GoogleRefuses, AnswerLost, Crash
  <2> QED
    BY <1>8, <2>1, GoogleStepCalm
<1>9. QED
  BY <1>1, <1>2, <1>3, <1>4, <1>5, <1>6, <1>7, <1>8 DEF Next, vars

LEMMA CalmAlways == Spec => [](hands = 0 => Calm)
<1>1. Init => (hands = 0 => Calm)
  <2> SUFFICES ASSUME Init PROVE Calm
    OBVIOUS
  <2>1. /\ \A g \in Ids : ~google[g].alive /\ ~pass.listing[g].alive
        /\ \A i \in Identities : row[i].google = None
        /\ pass.pc = "idle"
    BY DEF Init, NoRow, NoPass, NoEvent
  <2> QED
    BY <2>1 DEF Calm, EventsHaveOwners, RowsNameTheirOwn, ListingIsCurrent, EventIsFound, Writing
<1>2. Inv /\ hands \in Nat /\ WaitingTyped /\ (hands = 0 => Calm) /\ [Next]_vars => (hands = 0 => Calm)'
  BY CalmStep
<1> QED
  BY <1>1, <1>2, InvHolds, HandsCounted, WaitingAlways, PTL DEF Spec

(* An upsert of a pass overwrites the event of its cleaning; a hand takes  *)
(* events away or makes some of nobody.                                    *)
LEMMA InsertionStep ==
  ASSUME Inv, Calm, [Next]_vars, NEW i \in Identities,
         pass.pc = "upsert", pass.at = i, ~pass.retry, Live(i, row[i].calendar) # {}
  PROVE  Live(i, row[i].calendar)' \subseteq Live(i, row[i].calendar)
<1> USE DEF Inv, Calm
<1>1. row[i].google \in Live(i, row[i].calendar)
  BY DEF EventIsFound
<1>2. row \in [Identities -> Row] /\ google \in [Ids -> Event]
  BY DEF TypeOK
<1>3. ASSUME NEW g, DoUpsert(i, g), row'[i].calendar = row[i].calendar
      PROVE  Live(i, row[i].calendar)' \subseteq Live(i, row[i].calendar)
  <2>1. row[i].google # None /\ row[i].google \in Ids
    BY <1>1, CleaningAssumption DEF Live
  <2>2. g = row[i].google
    BY <1>1, <1>3, <2>1 DEF DoUpsert, UpsertTargets, Live
  <2>3. \A h \in Ids : h # g => google'[h] = google[h]
    BY <1>2, <1>3 DEF DoUpsert
  <2> QED
    BY <1>1, <1>3, <2>2, <2>3 DEF Live
<1>4. ASSUME row'[i].calendar = row[i].calendar,
             \A h \in Ids : \/ ~google'[h].alive \/ google'[h].owner = None
                            \/ /\ google[h].alive /\ google'[h].owner = google[h].owner
                               /\ google'[h].calendar = google[h].calendar
      PROVE  Live(i, row[i].calendar)' \subseteq Live(i, row[i].calendar)
  <2>1. i # None
    BY CleaningAssumption
  <2> QED
    BY <1>4, <2>1 DEF Live
<1>5. \A g \in Ids : Record(i, g)[i].calendar = row[i].calendar
  <2> TAKE g \in Ids
  <2> DEFINE new == [[[row[i] EXCEPT !.google = g] EXCEPT !.status = "synced"] EXCEPT !.pending = "none"]
  <2>1. Record(i, g) = [row EXCEPT ![i] = new] /\ row[i] \in Row
    BY <1>2 DEF Record, Row
  <2>2. new.calendar = row[i].calendar
    BY <2>1 DEF Row
  <2> HIDE DEF new
  <2> QED
    BY <1>2, <2>1, <2>2
<1>6. Fail(i)[i].calendar = row[i].calendar
  BY <1>2 DEF Fail, Row
<1>7. CASE GoogleUpserts
  BY <1>3, <1>5, <1>7 DEF GoogleUpserts
<1>8. CASE GoogleRefuses
  <2>1. google' = google /\ row'[i].calendar = row[i].calendar
    BY <1>6, <1>8 DEF GoogleRefuses
  <2> QED
    BY <2>1 DEF Live
<1>9. CASE AnswerLost
  <2>1. PICK g \in Ids : DoUpsert(i, g)
    BY <1>9 DEF AnswerLost
  <2>2. row'[i].calendar = row[i].calendar
    BY <1>6, <1>9 DEF AnswerLost
  <2> QED
    BY <1>3, <2>1, <2>2
<1>10. CASE EditByHand
  <2>1. row' = row
    BY <1>10 DEF EditByHand
  <2>2. \A h \in Ids : \/ ~google'[h].alive \/ google'[h].owner = None
                       \/ /\ google[h].alive /\ google'[h].owner = google[h].owner
                          /\ google'[h].calendar = google[h].calendar
    <3>1. ASSUME NEW g \in Ids, google' = [google EXCEPT ![g] = Deleted(@)]
          PROVE  \A h \in Ids : google'[h] = google[h] \/ ~google'[h].alive
      BY <1>2, <3>1, EventTypes
    <3>2. ASSUME NEW g \in Ids, NEW d \in Days, google[g].alive, google' = [google EXCEPT ![g].day = d]
          PROVE  \A h \in Ids : \/ google'[h] = google[h]
                                \/ /\ google[h].alive /\ google'[h].owner = google[h].owner
                                   /\ google'[h].calendar = google[h].calendar
      BY <1>2, <3>2 DEF Event
    <3>3. ASSUME NEW g \in Ids, NEW d \in Days,
                 google' = [google EXCEPT ![g] =
                   [NoEvent EXCEPT !.alive = TRUE, !.day = d, !.calendar = settings.calendar]]
          PROVE  \A h \in Ids : google'[h] = google[h] \/ google'[h].owner = None
      <4> DEFINE e == [NoEvent EXCEPT !.alive = TRUE, !.day = d, !.calendar = settings.calendar]
      <4>1. e.owner = None
        BY DEF NoEvent
      <4> HIDE DEF e
      <4> QED
        BY <1>2, <3>3, <4>1 DEF e
    <3>4. Fresh \subseteq Ids
      BY DEF Fresh
    <3> QED
      BY <1>10, <3>1, <3>2, <3>3, <3>4 DEF EditByHand
  <2> QED
    BY <1>4, <2>1, <2>2
<1>11. CASE row' = row /\ google' = google
  BY <1>11 DEF Live
<1>12. QED
  BY <1>7, <1>8, <1>9, <1>10, <1>11
  DEF Next, vars, ReconcileProperty, ReconcileStayRange, SkipStayRange, StartPass,
      PassStep, SkipEvent, UpsertRow, KeepRow, RemoveReusedRow, SweepRow, StartSweep, EndPass,
      RetryEvent, GoogleDeletes, Crash, Environment, EditStay, UpdateGoogleCleaningSettings, Midnight

(* Unless people edit the calendar, no upsert of a pass gives a cleaning   *)
(* a second event, whatever was lost or crashed before.                    *)
THEOREM InsertedOnce == Spec => PassesInsertOnce
<1>1. Inv /\ (hands = 0 => Calm) /\ [Next]_vars =>
        [\A i \in Identities :
           LET known == Live(i, row[i].calendar) IN
           (pass.pc = "upsert" /\ pass.at = i /\ ~pass.retry /\ known # {} /\ hands = 0)
           => Cardinality(Live(i, row[i].calendar)') <= Cardinality(known)]_vars
  <2> SUFFICES ASSUME Inv, Calm, [Next]_vars, NEW i \in Identities,
                      pass.pc = "upsert", pass.at = i, ~pass.retry, Live(i, row[i].calendar) # {}
               PROVE  Cardinality(Live(i, row[i].calendar)') <= Cardinality(Live(i, row[i].calendar))
    OBVIOUS
  <2>1. Live(i, row[i].calendar)' \subseteq Live(i, row[i].calendar)
    BY InsertionStep
  <2>2. IsFiniteSet(Live(i, row[i].calendar))
    BY CleaningAssumption, FS_Subset DEF Live
  <2> QED
    BY <2>1, <2>2, FS_Subset
<1> QED
  BY <1>1, InvHolds, CalmAlways, PTL DEF Spec, PassesInsertOnce
=============================================================================
