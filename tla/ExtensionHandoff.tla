-------------------------- MODULE ExtensionHandoff --------------------------
(***************************************************************************)
(* What the browser extension captures, on its way to the Add window: the  *)
(* handlers of extension_server.rs with their registry of media handoffs,  *)
(* the replay records and the pending acknowledgements; the listeners of   *)
(* App.tsx with their two serial queues; and the part of the download      *)
(* store that opens rows, upgrades them to a discovered manifest, and      *)
(* holds both back while the window submits.                               *)
(*                                                                         *)
(* Abstracted: signatures, nonces and the replay cache of signed requests  *)
(* (a resent request is signed anew), the normalisation of URLs, headers   *)
(* and cookies (a discovery's content is one value), and the visibility of *)
(* the window.  A handler registers its handoff and its acknowledgement    *)
(* and emits its event with no await between, so they are one step.        *)
(***************************************************************************)
EXTENDS Naturals, Sequences, FiniteSets, SequencesExt

CONSTANTS
  Pages,         \* how many pages there are to capture, each with its handoff id
  Finds,         \* how many contents may be discovered on them
  MaxRequests,   \* bounds what arrives: requests and deep links
  MaxSessions,   \* MAX_ACTIVE_MEDIA_HANDOFFS
  MaxReplays,    \* MAX_MEDIA_DISCOVERY_REPLAY_RECORDS
  MaxAcks,       \* MAX_PENDING_EXTENSION_ACKS
  MaxHeld,       \* MAX_PENDING_ADD_MEDIA_DISCOVERY_UPDATES
  MaxMishaps,    \* bounds what goes wrong: timeouts, expiries, lost events, closed gates
  MaxSubmits     \* bounds the submissions of the Add window

VARIABLES
  requests,      \* what arrived: its handler's place, its acknowledgement and its answer
  sessions,      \* registry.active, the least recently refreshed first
  replays,       \* registry.replays, the oldest first
  ready,         \* extension_frontend_ready
  gated,         \* the renderer keeps its inputs back
  early,         \* pendingStartupInputs
  captures,      \* extensionProcessing: captures and deep links in line
  captureStep,   \* where the first of them is
  updates,       \* mediaDiscoveryProcessing: discoveries in line
  updateStep,    \* where the first of them is
  addWindow,     \* the Add window
  addRows,       \* its rows: the request that opened one, its handoff and its URL
  heldUpdates,   \* pendingAddMediaDiscoveryUpdates
  submitting,    \* the rows that the submission took up
  torrentFiles,  \* the cached files of captured torrents
  reviewed,      \* history: the requests whose row was opened
  taken,         \* history: the contents that the store did not refuse
  expected,      \* history: what the row of a handoff should show
  overtaken,     \* history: handoffs whose discovery ran before their capture
  lostRows,      \* history: rows closed by a submission that had not seen them
  mishaps, submits   \* counters of the bounds

serverVars == <<requests, sessions, replays, ready, torrentFiles>>
lineVars   == <<gated, early, captures, captureStep, updates, updateStep>>
storeVars  == <<addWindow, addRows, heldUpdates, submitting, reviewed, taken, expected,
                overtaken, lostRows, submits>>
vars == <<serverVars, lineVars, storeVars, mishaps>>

None     == 0
Handoffs == 1..Pages
Contents == Pages + 1..Pages + Finds
Kinds == {"page", "torrent", "discovery", "link"}

Request == [kind : Kinds, id : Handoffs \cup {None}, content : Contents \cup {None},
            pc : {"waking", "waiting", "joined", "done"},
            ack : {"none", "pending", "sent", "gone"},
            attempt : 0..MaxRequests,              \* the delivery that a waiter joined
            result : {"none", "acknowledged", "failed"},
            answer : {"none", "ok", "noop", "conflict", "unavailable", "timeout", "error"}]

TypeOK ==
  /\ requests \in Seq(Request) /\ Len(requests) <= MaxRequests
  /\ sessions \in Seq([id : Handoffs, attempt : 0..MaxRequests])
  /\ replays \in Seq([id : Handoffs, content : Contents])
  /\ ready \in BOOLEAN /\ gated \in BOOLEAN
  /\ \A line \in {early, captures, updates, heldUpdates} : line \in Seq(DOMAIN requests)
  /\ captureStep \in {"idle", "held", "acking"}
  /\ updateStep \in {"idle", "acking", "failing"}
  /\ addWindow \in {"closed", "open", "busy"}
  /\ addRows \in Seq([req : DOMAIN requests, id : Handoffs \cup {None},
                      url : Handoffs \cup Contents \cup {None}])
  /\ UNION {submitting, torrentFiles, reviewed, lostRows} \subseteq DOMAIN requests
  /\ taken \subseteq Handoffs \X Contents
  /\ expected \in [Handoffs -> Contents \cup {None}]
  /\ overtaken \subseteq Handoffs
  /\ mishaps \in 0..MaxMishaps /\ submits \in 0..MaxSubmits

Init ==
  /\ requests = <<>> /\ sessions = <<>> /\ replays = <<>>
  /\ ready = TRUE /\ gated = FALSE
  /\ early = <<>> /\ captures = <<>> /\ captureStep = "idle"
  /\ updates = <<>> /\ updateStep = "idle"
  /\ addWindow = "closed" /\ addRows = <<>> /\ heldUpdates = <<>> /\ submitting = {}
  /\ torrentFiles = {} /\ reviewed = {} /\ taken = {}
  /\ expected = [h \in Handoffs |-> None]
  /\ overtaken = {} /\ lostRows = {}
  /\ mishaps = 0 /\ submits = 0

-----------------------------------------------------------------------------
(* The registry of media handoffs.                                         *)

Known(entries, h)   == \E i \in DOMAIN entries : entries[i].id = h
EntryOf(entries, h) == entries[CHOOSE i \in DOMAIN entries : entries[i].id = h]
Dropped(entries, h) == SelectSeq(entries, LAMBDA e : e.id # h)
Idle(entries)       == {i \in DOMAIN entries : entries[i].attempt = 0}

\* What prune_media_handoffs leaves when the first `old` sessions, the deliveries of the
\* first `slow` and the first `past` replay records are beyond their time.
Lapse == [old : 0..Len(sessions), slow : 0..Len(sessions), past : 0..Len(replays)]
NoLapse == [old |-> 0, slow |-> 0, past |-> 0]
Lapses == {NoLapse} \cup
  {l \in Lapse : mishaps < MaxMishaps /\ l.old <= l.slow}

PrunedSessions(l) ==
  SubSeq([i \in DOMAIN sessions |->
            IF i <= l.slow THEN [sessions[i] EXCEPT !.attempt = 0] ELSE sessions[i]],
         l.old + 1, Len(sessions))
PrunedReplays(l) == SubSeq(replays, l.past + 1, Len(replays))
LapsedAttempts(l) == {sessions[i].attempt : i \in 1..l.slow} \ {0}

\* The waiters of a delivery that lapsed are told to try again.
Failed(reqs, attempts) ==
  [r \in DOMAIN reqs |-> IF r \in attempts THEN [reqs[r] EXCEPT !.result = "failed"] ELSE reqs[r]]

\* A full registry gives up its oldest handoff that is not being delivered.
Registered(entries, h) ==
  LET new == [id |-> h, attempt |-> 0] IN
  IF Len(entries) < MaxSessions THEN Append(entries, new)
  ELSE IF Idle(entries) = {} THEN entries
  ELSE Append(RemoveAt(entries, CHOOSE i \in Idle(entries) : \A j \in Idle(entries) : i <= j), new)

\* An attempt settles its delivery only while it is the one that is recorded.
Settles(r) ==
  LET h == requests[r].id IN
  Known(sessions, h) /\ EntryOf(sessions, h).attempt = r

Recorded(h, c) ==
  LET all == Append(replays, [id |-> h, content |-> c]) IN
  IF Len(all) > MaxReplays THEN Tail(all) ELSE all

AckPending == Cardinality({r \in DOMAIN requests : requests[r].ack = "pending"})

-----------------------------------------------------------------------------
(* The extension, outside src/: it captures a page once, and again after a *)
(* refusal, and reports what it discovers on a page it has captured.       *)

Sent(kind, h) == {r \in DOMAIN requests : requests[r].kind = kind /\ requests[r].id = h}

\* Pages and contents are numbered in the order in which they first appear.
MaySend(kind, h, c) ==
  /\ Len(requests) < MaxRequests
  /\ (kind \in {"page", "discovery"}) = (h # None)
  /\ (kind = "discovery") = (c # None)
  /\ h <= 1 + Cardinality({requests[r].id : r \in DOMAIN requests} \ {None})
  /\ c <= Pages + 1 + Cardinality({requests[r].content : r \in DOMAIN requests} \ {None})
  /\ kind = "page" => \A r \in Sent("page", h) : requests[r].answer \notin {"none", "ok"}
  /\ kind = "discovery" => Sent("page", h) # {}

Arrived(kind, h, c) ==
  [kind |-> kind, id |-> h, content |-> c, pc |-> "waking", ack |-> "none", attempt |-> 0,
   result |-> "none", answer |-> "none"]
Answered(req, answer) == [req EXCEPT !.pc = "done", !.answer = answer]

\* Every mishap draws on one bound.
Mishap == mishaps < MaxMishaps /\ mishaps' = mishaps + 1

\* download_handler for a page or a torrent, as far as the wait for the renderer.
Capture(kind, h) ==
  /\ kind \in {"page", "torrent"} /\ MaySend(kind, h, None)
  /\ requests' = Append(requests, IF ready THEN Arrived(kind, h, None)
                                  ELSE Answered(Arrived(kind, h, None), "unavailable"))
  /\ torrentFiles' = IF ready /\ kind = "torrent"
                     THEN torrentFiles \cup {Len(requests) + 1} ELSE torrentFiles
  /\ UNCHANGED <<sessions, replays, ready, lineVars, storeVars, mishaps>>

\* A task that is first in its line runs before the renderer hears anything else.
CaptureIsDue == captureStep = "idle" /\ captures # <<>>
UpdateIsDue  == updateStep = "idle" /\ updates # <<>>
Quiet == ~CaptureIsDue /\ ~UpdateIsDue

\* The listeners keep an input back or put it in its line.
Hear(r) ==
  IF gated THEN early' = Append(early, r) /\ UNCHANGED <<captures, updates>>
  ELSE IF requests[r].kind = "discovery"
  THEN updates' = Append(updates, r) /\ UNCHANGED <<early, captures>>
  ELSE captures' = Append(captures, r) /\ UNCHANGED <<early, updates>>

\* A capture that never reached the renderer leaves neither handoff nor file.
Refuse(r, answer) ==
  /\ requests' = [requests EXCEPT ![r] = Answered(@, answer)]
  /\ sessions' = Dropped(sessions, requests[r].id)
  /\ replays' = Dropped(replays, requests[r].id)
  /\ torrentFiles' = torrentFiles \ {r}
  /\ UNCHANGED <<ready, lineVars, storeVars>>

CaptureGivesUp(r) ==
  /\ requests[r].kind \in {"page", "torrent"} /\ requests[r].pc = "waking"
  /\ ~ready /\ Refuse(r, "unavailable") /\ UNCHANGED mishaps

\* register_media_handoff, register_extension_ack and the event of a capture, which may fail.
EmitCapture(r) ==
  /\ ready /\ requests[r].kind \in {"page", "torrent"} /\ requests[r].pc = "waking"
  /\ Quiet
  /\ \E l \in IF requests[r].kind = "page" THEN Lapses ELSE {NoLapse}, fails \in BOOLEAN :
       LET h == requests[r].id
           reqs == Failed(requests, LapsedAttempts(l))
           left == PrunedSessions(l)
           again == h # None /\ (Known(left, h) \/ Known(PrunedReplays(l), h))
           full == AckPending >= MaxAcks
           answer == IF again THEN "conflict" ELSE IF full THEN "unavailable"
                     ELSE IF fails THEN "error" ELSE "none" IN
       /\ IF l = NoLapse /\ ~fails THEN UNCHANGED mishaps ELSE Mishap
       /\ sessions' = IF h = None \/ again THEN left
                      ELSE IF answer # "none" THEN Dropped(Registered(left, h), h)
                      ELSE Registered(left, h)
       /\ replays' = PrunedReplays(l)
       /\ IF answer # "none"
          THEN /\ requests' = [reqs EXCEPT ![r] = Answered(@, answer)]
               /\ torrentFiles' = torrentFiles \ {r}
               /\ UNCHANGED <<early, captures, updates>>
          ELSE /\ requests' = [reqs EXCEPT ![r].pc = "waiting", ![r].ack = "pending"]
               /\ Hear(r)
               /\ UNCHANGED torrentFiles
  /\ UNCHANGED <<ready, gated, captureStep, updateStep, storeVars>>

\* A capture that is not acknowledged in time is neither confirmed nor refused: its event
\* may have arrived, so its handoff and its file stay.
CaptureTimesOut(r) ==
  /\ requests[r].kind \in {"page", "torrent"} /\ requests[r].pc = "waiting" /\ Mishap
  /\ requests' = [requests EXCEPT ![r] = Answered([@ EXCEPT !.ack = "gone"], "timeout")]
  /\ UNCHANGED <<sessions, replays, ready, torrentFiles, lineVars, storeVars>>

-----------------------------------------------------------------------------
(* deliver_media_discovery_update.                                         *)

SharesAnyDelivery(attempt, c) == TRUE    \* mutant: the content is not compared
\* A delivery under way answers for the same content only.
SharesDelivery(attempt, c) == requests[attempt].content = c

Discover(h, c) ==
  /\ MaySend("discovery", h, c)
  /\ IF ~ready
     THEN /\ requests' = Append(requests, Answered(Arrived("discovery", h, c), "unavailable"))
          /\ UNCHANGED <<sessions, replays, mishaps>>
     ELSE \E l \in Lapses :
       LET new == Arrived("discovery", h, c)
           r == Len(requests) + 1
           reqs == Failed(requests, LapsedAttempts(l))
           left == PrunedSessions(l)
           past == PrunedReplays(l)
           attempt == EntryOf(left, h).attempt IN
       /\ mishaps' = IF l = NoLapse THEN mishaps ELSE mishaps + 1
       /\ replays' = past
       /\ CASE Known(past, h) ->
                 /\ requests' = Append(reqs, Answered(new,
                      IF EntryOf(past, h).content = c THEN "ok" ELSE "conflict"))
                 /\ sessions' = left
            [] ~Known(past, h) /\ ~Known(left, h) ->
                 /\ requests' = Append(reqs, Answered(new, "noop"))
                 /\ sessions' = left
            [] ~Known(past, h) /\ Known(left, h) /\ attempt = 0 ->
                 /\ requests' = Append(reqs, new)
                 /\ sessions' = Append(Dropped(left, h), [id |-> h, attempt |-> r])
            [] OTHER ->
                 /\ requests' = Append(reqs,
                      IF SharesDelivery(attempt, c)
                      THEN [new EXCEPT !.pc = "joined", !.attempt = attempt]
                      ELSE Answered(new, "conflict"))
                 /\ sessions' = left
  /\ UNCHANGED <<ready, torrentFiles, lineVars, storeVars>>

\* finish_media_discovery_attempt: a failed delivery leaves its handoff for a retry.
Finish(r, acknowledged, answer) ==
  /\ requests' = [requests EXCEPT ![r] =
       Answered([@ EXCEPT !.ack = IF @ = "pending" THEN "gone" ELSE @,
                          !.result = IF ~Settles(r) THEN @
                                     ELSE IF acknowledged THEN "acknowledged" ELSE "failed"],
                IF acknowledged /\ ~Settles(r) THEN "error" ELSE answer)]
  /\ IF ~Settles(r) THEN UNCHANGED <<sessions, replays>>
     ELSE IF acknowledged
     THEN /\ sessions' = Dropped(sessions, requests[r].id)
          /\ replays' = Recorded(requests[r].id, requests[r].content)
     ELSE /\ sessions' = Append(Dropped(sessions, requests[r].id),
                                [id |-> requests[r].id, attempt |-> 0])
          /\ UNCHANGED replays
  /\ UNCHANGED <<ready, torrentFiles, lineVars, storeVars>>

EmitUpdate(r) ==
  /\ requests[r].kind = "discovery" /\ requests[r].pc = "waking"
  /\ \/ ~ready /\ Finish(r, FALSE, "unavailable") /\ UNCHANGED mishaps
     \/ AckPending >= MaxAcks /\ Finish(r, FALSE, "unavailable") /\ UNCHANGED mishaps
     \/ AckPending < MaxAcks /\ Finish(r, FALSE, "error") /\ Mishap
     \/ /\ ready /\ AckPending < MaxAcks /\ Quiet /\ UNCHANGED mishaps
        /\ requests' = [requests EXCEPT ![r].pc = "waiting", ![r].ack = "pending"]
        /\ Hear(r)
        /\ UNCHANGED <<sessions, replays, ready, torrentFiles, gated, captureStep,
                       updateStep, storeVars>>

AnswerUpdate(r) ==
  /\ requests[r].kind = "discovery" /\ requests[r].pc = "waiting"
  /\ IF requests[r].ack = "sent" THEN Finish(r, TRUE, "ok") ELSE Finish(r, FALSE, "timeout")
  /\ IF requests[r].ack = "pending" THEN Mishap ELSE UNCHANGED mishaps

\* A second request for the same content shares the answer of the first, or gives up.
AnswerJoined(r) ==
  /\ requests[r].pc = "joined"
  /\ requests' = [requests EXCEPT ![r] =
       Answered(@, IF requests[@.attempt].result = "acknowledged" THEN "ok" ELSE "timeout")]
  /\ LET delivery == requests[requests[r].attempt] IN
     IF delivery.result = "none" /\ delivery.pc # "done" THEN Mishap ELSE UNCHANGED mishaps
  /\ UNCHANGED <<sessions, replays, ready, torrentFiles, lineVars, storeVars>>

-----------------------------------------------------------------------------
(* The renderer's listeners and lines (App.tsx).                           *)

\* A deep link comes by the same way as the captures, without a request.
DeepLink ==
  /\ MaySend("link", None, None) /\ Quiet
  /\ requests' = Append(requests, Answered(Arrived("link", None, None), "ok"))
  /\ LET r == Len(requests) + 1 IN
     IF gated THEN early' = Append(early, r) /\ UNCHANGED captures
     ELSE captures' = Append(captures, r) /\ UNCHANGED early
  /\ UNCHANGED <<sessions, replays, ready, torrentFiles, gated, captureStep, updates,
                 updateStep, storeVars, mishaps>>

\* The keychain dialog closes the renderer's gate; the server is told later.
CloseGate ==
  /\ ~gated /\ Quiet /\ gated' = TRUE /\ Mishap
  /\ UNCHANGED <<early, captures, captureStep, updates, updateStep, serverVars, storeVars>>

OpenGate ==
  /\ gated /\ Quiet /\ gated' = FALSE /\ early' = <<>>
  /\ captures' = captures \o SelectSeq(early, LAMBDA r : requests[r].kind # "discovery")
  /\ updates' = updates \o SelectSeq(early, LAMBDA r : requests[r].kind = "discovery")
  /\ UNCHANGED <<captureStep, updateStep, serverVars, storeVars, mishaps>>

TellServer ==
  /\ ready = gated /\ ready' = ~gated
  /\ UNCHANGED <<requests, sessions, replays, torrentFiles, lineVars, storeVars, mishaps>>

-----------------------------------------------------------------------------
(* The Add window (useDownloadStore.ts, AddDownloadsModal.tsx).            *)

RowOf(r) == [req |-> r, id |-> requests[r].id,
             url |-> IF requests[r].kind = "page" THEN requests[r].id ELSE None]

\* openAddModalWithUrls: a row per URL, a newer capture of a URL in the place of the older.
Opened(rs, r) ==
  LET same == {i \in DOMAIN rs : rs[i].url # None /\ rs[i].url = RowOf(r).url} IN
  IF same = {} THEN Append(rs, RowOf(r))
  ELSE [i \in DOMAIN rs |-> IF i \in same THEN RowOf(r) ELSE rs[i]]

\* What handleExtensionMediaDiscoveryUpdate does to the rows when nothing is submitted.
RowsFor(rs, h) == {i \in DOMAIN rs : rs[i].id = h}
Match(rs, h)   == CHOOSE i \in RowsFor(rs, h) : \A j \in RowsFor(rs, h) : i <= j
TakenElsewhere(rs, h, c) == \E i \in DOMAIN rs : rs[i].id # h /\ rs[i].url = c
Disposition(rs, r) ==
  LET h == requests[r].id  c == requests[r].content IN
  IF RowsFor(rs, h) = {} THEN "stale"
  ELSE IF rs[Match(rs, h)].url = c THEN "applied"
  ELSE IF TakenElsewhere(rs, h, c) THEN "stale" ELSE "applied"
Upgraded(rs, r) ==
  LET h == requests[r].id  c == requests[r].content IN
  IF Disposition(rs, r) = "stale" \/ rs[Match(rs, h)].url = c THEN rs
  ELSE Append(SelectSeq(rs, LAMBDA x : x # rs[Match(rs, h)] /\ x.url # c),
              [rs[Match(rs, h)] EXCEPT !.url = c])

\* The captures of a page that have not got to the window yet.
Underway(h) == {r \in Range(captures) \cup Range(early) :
                  requests[r].kind = "page" /\ requests[r].id = h} \ reviewed

\* History: what the row of r's handoff should show after the store has handled r.
Note(r, disposition) ==
  LET h == requests[r].id  c == requests[r].content
      overtakes == disposition = "stale" /\ Underway(h) # {} IN
  /\ taken' = IF disposition = "retryable" THEN taken ELSE taken \cup {<<h, c>>}
  /\ overtaken' = IF overtakes THEN overtaken \cup {h} ELSE overtaken
  /\ expected' = IF overtakes \/ disposition \in {"applied", "queued"}
                 THEN [expected EXCEPT ![h] = c] ELSE expected

BehindNothing(r) == FALSE    \* mutant: the store does not look at pendingAddModalBusy
\* A browser capture waits for the submission; a deep link does not.
Behind(r) == addWindow = "busy" /\ requests[r].kind # "link"

TakeCapture ==
  /\ CaptureIsDue
  /\ LET r == Head(captures) IN
     IF Behind(r)
     THEN /\ captureStep' = "held"
          /\ UNCHANGED <<captures, addWindow, addRows, reviewed>>
     ELSE /\ addRows' = Opened(addRows, r)
          /\ addWindow' = IF addWindow = "closed" THEN "open" ELSE addWindow
          /\ reviewed' = reviewed \cup {r}
          /\ IF requests[r].kind = "link"
             THEN captures' = Tail(captures) /\ UNCHANGED captureStep
             ELSE captureStep' = "acking" /\ UNCHANGED captures
  /\ UNCHANGED <<gated, early, updates, updateStep, heldUpdates, submitting, taken,
                 expected, overtaken, lostRows, submits, serverVars, mishaps>>

\* ack_extension_download: a request that still waits is confirmed.
AckCapture ==
  /\ captureStep = "acking" /\ Quiet /\ captureStep' = "idle" /\ captures' = Tail(captures)
  /\ LET r == Head(captures) IN
     requests' = IF requests[r].ack = "pending"
                 THEN [requests EXCEPT ![r] = Answered([@ EXCEPT !.ack = "sent"], "ok")]
                 ELSE requests
  /\ UNCHANGED <<sessions, replays, ready, torrentFiles, gated, early, updates,
                 updateStep, storeVars, mishaps>>

HeldFor(h) == {i \in DOMAIN heldUpdates : requests[heldUpdates[i]].id = h}

TakeUpdate ==
  /\ UpdateIsDue /\ ~CaptureIsDue
  /\ LET r == Head(updates)
         h == requests[r].id
         same == \E i \in HeldFor(h) : requests[heldUpdates[i]].content = requests[r].content
         disposition ==
           IF addWindow # "busy" THEN Disposition(addRows, r)
           ELSE IF HeldFor(h) # {} THEN IF same THEN "queued" ELSE "retryable"
           ELSE IF Len(heldUpdates) >= MaxHeld THEN "retryable" ELSE "queued" IN
     /\ heldUpdates' = IF disposition = "queued" /\ HeldFor(h) = {}
                       THEN Append(heldUpdates, r) ELSE heldUpdates
     /\ addRows' = IF addWindow = "busy" THEN addRows ELSE Upgraded(addRows, r)
     /\ updateStep' = IF disposition = "retryable" THEN "failing" ELSE "acking"
     /\ Note(r, disposition)
  /\ UNCHANGED <<addWindow, submitting, reviewed, lostRows, submits, gated, early, captures,
                 captureStep, updates, serverVars, mishaps>>

\* ack_extension_media_discovery wakes the handler; fail_extension_media_discovery drops the
\* sender, so that it stops waiting.
AckUpdate ==
  /\ updateStep # "idle" /\ Quiet /\ updateStep' = "idle" /\ updates' = Tail(updates)
  /\ LET r == Head(updates) IN
     requests' = IF requests[r].ack # "pending" THEN requests
                 ELSE [requests EXCEPT ![r].ack = IF updateStep = "acking" THEN "sent" ELSE "gone"]
  /\ UNCHANGED <<sessions, replays, ready, torrentFiles, gated, early, captures,
                 captureStep, storeVars, mishaps>>

OpenAdd ==
  /\ addWindow = "closed" /\ Quiet /\ submits < MaxSubmits /\ addWindow' = "open"
  /\ UNCHANGED <<addRows, heldUpdates, submitting, reviewed, taken, expected, overtaken,
                 lostRows, submits, serverVars, lineVars, mishaps>>

Submit ==
  /\ addWindow = "open" /\ Quiet /\ submits < MaxSubmits
  /\ addWindow' = "busy" /\ submits' = submits + 1
  /\ submitting' = {addRows[i].req : i \in DOMAIN addRows}
  /\ UNCHANGED <<addRows, heldUpdates, reviewed, taken, expected, overtaken, lostRows,
                 serverVars, lineVars, mishaps>>

Shown(rs) == {rs[i].id : i \in DOMAIN rs}

\* flushQueuedExtensionHandoffs: the capture held back is opened, then the updates are
\* applied; a submission that succeeds closes the window first.
UpdatesFirst(rs, opened) == FoldLeft(Opened, FoldLeft(Upgraded, rs, heldUpdates), opened)  \* mutant
Flushed(rs, opened) == FoldLeft(Upgraded, FoldLeft(Opened, rs, opened), heldUpdates)

EndSubmit(added) ==
  /\ addWindow = "busy" /\ Quiet
  /\ LET kept   == IF added THEN <<>> ELSE addRows
         held   == captureStep = "held"
         opened == IF held THEN <<Head(captures)>> ELSE <<>>
         rows   == FoldLeft(Opened, kept, opened)
         seen   == IF held THEN reviewed \cup {Head(captures)} ELSE reviewed
         pages  == {requests[r].id : r \in {q \in (Range(captures) \cup Range(early)) \ seen :
                                              requests[q].kind = "page"}}
         after  == Flushed(kept, opened)
         unseen == {h \in Handoffs : HeldFor(h) # {} /\ RowsFor(rows, h) = {}} IN
     /\ addRows' = after
     /\ addWindow' = IF after = <<>> /\ added THEN "closed" ELSE "open"
     /\ captureStep' = IF held THEN "acking" ELSE captureStep
     /\ reviewed' = seen
     /\ lostRows' = IF added THEN lostRows \cup ({addRows[i].req : i \in DOMAIN addRows} \ submitting)
                    ELSE lostRows
     /\ overtaken' = overtaken \cup (unseen \cap pages)
     /\ expected' = [h \in Handoffs |->
          IF \/ added /\ h \in Shown(addRows)
             \/ h \in unseen \ pages
             \/ HeldFor(h) # {} /\ TakenElsewhere(after, h, expected[h])
          THEN None ELSE expected[h]]
  /\ heldUpdates' = <<>> /\ submitting' = {}
  /\ UNCHANGED <<taken, submits, captures, gated, early, updates, updateStep, serverVars, mishaps>>

\* The user discards the window, and with it the torrent files of its rows.
Dismiss ==
  /\ addWindow = "open" /\ Quiet /\ addWindow' = "closed" /\ addRows' = <<>> /\ heldUpdates' = <<>>
  /\ expected' = [h \in Handoffs |-> IF h \in Shown(addRows) THEN None ELSE expected[h]]
  /\ torrentFiles' = torrentFiles \ {addRows[i].req : i \in DOMAIN addRows}
  /\ UNCHANGED <<requests, sessions, replays, ready, lineVars, submitting, reviewed,
                 taken, overtaken, lostRows, submits, mishaps>>

Next ==
  \/ \E h \in Handoffs : Capture("page", h)
  \/ Capture("torrent", None)
  \/ \E h \in Handoffs, c \in Contents : Discover(h, c)
  \/ \E r \in DOMAIN requests :
       \/ CaptureGivesUp(r) \/ EmitCapture(r) \/ CaptureTimesOut(r)
       \/ EmitUpdate(r) \/ AnswerUpdate(r) \/ AnswerJoined(r)
  \/ DeepLink \/ CloseGate \/ OpenGate \/ TellServer
  \/ TakeCapture \/ AckCapture \/ TakeUpdate \/ AckUpdate
  \/ OpenAdd \/ Submit \/ Dismiss
  \/ \E added \in BOOLEAN : EndSubmit(added)

Spec == Init /\ [][Next]_vars

-----------------------------------------------------------------------------
\* The extension is told the truth, however acknowledgements, timeouts, retries and expired
\* deliveries cross: a capture is confirmed only when its row was opened and refused as
\* unavailable only when it never will be; a discovery is confirmed only when the renderer
\* took that very content for that handoff.
AnswersAreEarned ==
  \A r \in DOMAIN requests :
    LET q == requests[r] IN
    /\ q.answer = "ok" /\ q.kind \in {"page", "torrent"} => r \in reviewed
    /\ q.answer = "unavailable" =>
         r \notin reviewed \cup Range(captures) \cup Range(updates) \cup Range(early)
    /\ q.answer = "ok" /\ q.kind = "discovery" => <<q.id, q.content>> \in taken

\* The row of a handoff shows the last discovery that the store accepted for it, held back by
\* a submission or not.
RowsShowUpdates ==
  addWindow # "busy" =>
    \A h \in Handoffs : expected[h] # None /\ RowsFor(addRows, h) # {} =>
      \E i \in RowsFor(addRows, h) : addRows[i].url = expected[h]

\* The same where no discovery ran before the capture of its page, which waits in a line of
\* its own.
RowsShowUpdatesInTurn ==
  addWindow # "busy" =>
    \A h \in Handoffs \ overtaken : expected[h] # None /\ RowsFor(addRows, h) # {} =>
      \E i \in RowsFor(addRows, h) : addRows[i].url = expected[h]

\* No browser capture is closed with a submission that did not include it, and a captured
\* torrent has its file for as long as it is under way or in the window.
CapturesSurvive ==
  /\ \A r \in lostRows : requests[r].kind = "link"
  /\ \A r \in ((Range(captures) \cup Range(early)) \ reviewed) \cup
             {addRows[i].req : i \in DOMAIN addRows} :
       requests[r].kind = "torrent" => r \in torrentFiles
=============================================================================
