---------------------------- MODULE ServiceProofs ----------------------------
(***************************************************************************)
(* Proofs about four services the queue relies on: the requests that ask   *)
(* a source what it offers (SourceProbes), for any bound on the redirects, *)
(* the assertions that keep the computer awake (PowerAssertions), for any  *)
(* set of downloads, the run of a media download (MediaRun), for any       *)
(* number of retries, and the resolution of a magnet link (MagnetProbe).   *)
(* Each is a state machine of its own; the runner's step and cookies, and  *)
(* the resolution's step and guard, have other names here.                 *)
(***************************************************************************)
EXTENDS Naturals, FiniteSets, Sequences, TLAPS

CONSTANTS
  Hops, MaxStrikes,                                    \* SourceProbes, and MediaRun
  Transfers, MaxShifts, MaxPreferences, MaxSetbacks,   \* PowerAssertions
  MaxResumes, MaxBreaks,                               \* MediaRun
  MaxProbeFaults, MaxMoments                           \* MagnetProbe

VARIABLES
  kind, known, sources, step, at, hops, cookies, strikes, allowed, plan, last, strayed,
  challenged, sends,
  combined, permits, sync, active, enabled, wanted, choice, call, worker, commands, goal,
  believed, held, owed, overtaken, shifts, preferences, setbacks,
  setup, runStep, strike, runCookies, processing, reason, result, proc, event, mute, stray,
  cancel, pausing, owned, outcome, row, output, parts, attempts, runs, breaks, broken, unseen,
  torn,
  probeStep, attempt, bytes, lease, probeHeld, left, request, transfer, unwatched, directory,
  daemon, reaper, probeFaults, moments

Probes == INSTANCE SourceProbes
Power == INSTANCE PowerAssertions
Runner == INSTANCE MediaRun WITH step <- runStep, cookies <- runCookies
Magnet == INSTANCE MagnetProbe WITH step <- probeStep, held <- probeHeld

-----------------------------------------------------------------------------
(* The requests to a source.                                               *)

Asked == {"head", "get", "range"}

ProbeShapes ==
  /\ kind \in {"metadata", "torrent", "transfer"}
  /\ known \in [login : BOOLEAN, cookies : BOOLEAN, site : BOOLEAN, deferred : BOOLEAN]
  /\ at \in Probes!Origins /\ hops \in 0 .. Hops
  /\ cookies \in [sent : BOOLEAN, retried : BOOLEAN]
  /\ strikes \in Nat /\ sends \in Nat
  /\ allowed \in BOOLEAN /\ strayed \in BOOLEAN /\ challenged \in BOOLEAN
  /\ plan \in [next : 1 .. 3, uris : SUBSET Probes!Uris, allowed : BOOLEAN, single : BOOLEAN]
  /\ last \in [to : Probes!Origins, login : BOOLEAN, cookie : {"none", "own", "site"}]
  /\ kind = "metadata" => step \in Asked \cup {"done", "failed"}
  /\ kind = "torrent" => step \in {"get", "body", "done", "failed"}
  /\ kind = "transfer" => /\ step \in {"probe", "done", "failed"}
                          /\ Len(sources) \in 1 .. 2
                          /\ \A n \in 1 .. Len(sources) : sources[n] \in Probes!Source
                          /\ sources[1].at = "home"
                          /\ step = "probe" => plan.next \in 1 .. Len(sources)

\* A chain begins at its origin, and a transfer that may still show its credentials has
\* not left its host.
ChainIsTraced ==
  /\ kind # "transfer" /\ hops = 0 => at = "home"
  /\ kind = "transfer" /\ allowed => Probes!MayForward(at)
  /\ strayed => ~allowed

\* Cookies that wait are sent after a challenge only.
CookiesAreDue ==
  kind # "transfer" /\ known.deferred /\ Probes!Available /\ cookies.sent => challenged

\* What the requests before the last redirect, in this pass or for this source, may have been.
BeforePass ==
  CASE kind = "metadata" -> IF cookies.retried THEN 3 * Hops ELSE 0
    [] kind = "torrent"  -> IF cookies.retried THEN Hops + 1 ELSE 0
    [] OTHER             -> IF plan.next = 2 THEN Hops + 1 ELSE 0
InPass ==
  CASE kind = "metadata" -> 3 * hops + (CASE step = "get" -> 1 [] step = "range" -> 2 [] OTHER -> 0)
    [] kind = "torrent"  -> hops + IF step = "get" THEN 0 ELSE 1
    [] OTHER             -> hops

\* Requests are counted by pass, redirect and step; a HEAD is sent only if there is room.
SendsAreCounted ==
  /\ step \in {"head", "get", "range", "body", "probe"} => sends <= strikes + BeforePass + InPass
  /\ kind = "metadata" /\ step \in {"get", "range"} => hops < Hops
  /\ Probes!SendsAreBounded

\* The plan speaks of the sources that are settled.
PlanIsTrue ==
  kind = "transfer" =>
    /\ Probes!Credentials /\ plan.allowed =>
         \A uri \in plan.uris : uri.verified /\ Probes!MayForward(uri.at)
    /\ plan.single <=> \E uri \in plan.uris : ~uri.ranges

ProbeInvariant ==
  /\ ProbeShapes /\ ChainIsTraced /\ CookiesAreDue /\ SendsAreCounted /\ PlanIsTrue
  /\ Probes!CredentialsStayHome /\ Probes!CookiesWait

-----------------------------------------------------------------------------
\* A step of the requests, by what it does with the answer: it goes on to a step, takes a
\* strike, follows a redirect or begins the second pass.
Grows == challenged' \in BOOLEAN /\ (challenged => challenged')
GoesTo(steps) == \E next \in steps : Probes!Goes(next)
Second(next) == Probes!SecondPass(next) /\ ~cookies.retried /\ challenged'

Heads ==
  /\ kind = "metadata" /\ step = "head" /\ hops < Hops
  /\ Probes!Sent /\ Grows /\ UNCHANGED <<kind, known, sources>>
  /\ GoesTo({"get", "range", "done", "failed"}) \/ Probes!Follow("head") \/ Second("head")
Gets ==
  /\ kind = "metadata" /\ step = "get"
  /\ Probes!Sent /\ Grows /\ UNCHANGED <<kind, known, sources>>
  /\ \/ GoesTo({"range", "done", "failed"}) \/ Probes!Strike("get")
     \/ Probes!Follow("head") \/ Second("head")
Ranges ==
  /\ kind = "metadata" /\ step = "range"
  /\ Probes!Sent /\ Grows /\ UNCHANGED <<kind, known, sources>>
  /\ \/ GoesTo({"done", "failed"}) \/ Probes!Strike("range")
     \/ Probes!Follow("head") \/ Second("head")
Fetches ==
  /\ kind = "torrent" /\ step = "get"
  /\ Probes!Sent /\ Grows /\ UNCHANGED <<kind, known, sources>>
  /\ \/ GoesTo({"body", "failed"}) \/ Probes!Strike("get")
     \/ hops < Hops /\ Probes!Follow("get")
     \/ Second("get")

\* What a source is taken as: with credentials that are allowed, it was verified.
Accepts ==
  \E uri \in Probes!Uris, permitted \in BOOLEAN :
    /\ Probes!Accept(uri, permitted)
    /\ Probes!Credentials /\ permitted => uri.verified /\ Probes!MayForward(uri.at)
Asks ==
  /\ kind = "transfer" /\ step = "probe"
  /\ Probes!Sent /\ UNCHANGED <<kind, known, sources, challenged>>
  /\ GoesTo({"failed"}) \/ (hops < Hops /\ Probes!Follow("probe")) \/ Accepts

\* These send nothing.
Silent ==
  /\ UNCHANGED <<kind, known, sources, last, sends, challenged>>
  /\ \/ kind = "metadata" /\ step = "head" /\ GoesTo({"failed"})
     \/ /\ kind = "torrent" /\ step = "body"
        /\ GoesTo({"done", "failed"}) \/ Probes!Strike("get")
     \/ kind = "transfer" /\ step = "probe" /\ Accepts

\* What is done about an answer to HEAD or GET.
LEMMA Weighed ==
  ASSUME NEW answer \in Probes!Answers, Probes!Weighs(answer),
         challenged' = (challenged \/ answer = "denied")
  PROVE  GoesTo({"range", "done", "failed"}) \/ Probes!Follow("head") \/ Second("head")
<1>1. CASE Probes!Challenges(answer)
  BY <1>1 DEF Probes!Weighs, Probes!Challenges, Second
<1>2. CASE ~Probes!Challenges(answer)
  <2>1. Probes!Follow("head") \/ Probes!Goes("done") \/ Probes!Goes("failed") \/ Probes!Goes("range")
    BY <1>2 DEF Probes!Weighs
  <2> QED
    BY <2>1 DEF GoesTo
<1> QED
  BY <1>1, <1>2

\* Every step of the requests is one of these.
LEMMA ProbeSteps ==
  ASSUME ProbeInvariant, [Probes!Next]_(Probes!svars)
  PROVE  Heads \/ Gets \/ Ranges \/ Fetches \/ Asks \/ Silent \/ UNCHANGED Probes!svars
<1> USE DEF ProbeInvariant, ProbeShapes, SendsAreCounted, Probes!caller, Grows
<1>1. CASE Probes!AskHead
  <2>1. PICK answer \in Probes!Answers :
          /\ challenged' = (challenged \/ answer = "denied")
          /\ IF answer \in {"lost", "broken"} THEN Probes!Goes("get") ELSE Probes!Weighs(answer)
    BY <1>1 DEF Probes!AskHead
  <2>2. GoesTo({"get", "range", "done", "failed"}) \/ Probes!Follow("head") \/ Second("head")
    BY <2>1, Weighed DEF GoesTo
  <2> QED
    BY <1>1, <2>1, <2>2 DEF Probes!AskHead, Heads
<1>2. CASE Probes!Get
  <2>1. PICK answer \in Probes!Answers :
          /\ challenged' = (challenged \/ answer = "denied")
          /\ IF Probes!Retryable(answer) THEN Probes!Strike("get")
             ELSE IF answer \in {"lost", "broken"} THEN Probes!Goes("failed")
                  ELSE Probes!Weighs(answer)
    BY <1>2 DEF Probes!Get
  <2>2. \/ GoesTo({"range", "done", "failed"}) \/ Probes!Strike("get")
        \/ Probes!Follow("head") \/ Second("head")
    BY <2>1, Weighed DEF GoesTo
  <2> QED
    BY <1>2, <2>1, <2>2 DEF Probes!Get, Gets
<1>3. CASE Probes!RangedGet
  <2>1. PICK answer \in Probes!Answers :
          /\ challenged' = (challenged \/ answer = "denied")
          /\ IF Probes!Retryable(answer) THEN Probes!Strike("range")
             ELSE IF Probes!Challenges(answer) THEN Probes!SecondPass("head")
             ELSE \/ Probes!Follow("head") \/ Probes!Goes("done") \/ Probes!Goes("failed")
    BY <1>3 DEF Probes!RangedGet
  <2>2. \/ GoesTo({"done", "failed"}) \/ Probes!Strike("range")
        \/ Probes!Follow("head") \/ Second("head")
    BY <2>1 DEF GoesTo, Second, Probes!Challenges
  <2> QED
    BY <1>3, <2>1, <2>2 DEF Probes!RangedGet, Ranges
<1>4. CASE Probes!FetchTorrent
  <2>1. PICK answer \in Probes!Answers :
          /\ challenged' = (challenged \/ answer = "denied")
          /\ IF Probes!Retryable(answer) THEN Probes!Strike("get")
             ELSE IF Probes!Challenges(answer) THEN Probes!SecondPass("get")
             ELSE \/ hops < Hops /\ Probes!Follow("get")
                  \/ Probes!Goes("body") \/ Probes!Goes("failed")
    BY <1>4 DEF Probes!FetchTorrent
  <2>2. \/ GoesTo({"body", "failed"}) \/ Probes!Strike("get")
        \/ hops < Hops /\ Probes!Follow("get")
        \/ Second("get")
    BY <2>1 DEF GoesTo, Second, Probes!Challenges
  <2> QED
    BY <1>4, <2>1, <2>2 DEF Probes!FetchTorrent, Fetches
<1>5. CASE Probes!ProbeRange
  <2>0. Probes!Now.at \in Probes!Origins
    BY <1>5 DEF Probes!ProbeRange, Probes!Now, Probes!Source, Probes!Origins
  <2>1. /\ kind = "transfer" /\ step = "probe"
        /\ Probes!Sent /\ UNCHANGED <<kind, known, sources, challenged>>
    BY <1>5 DEF Probes!ProbeRange
  <2>2. PICK answer \in Probes!Answers \ {"denied", "busy", "bare"} :
          \/ Probes!Unverified
          \/ hops < Hops /\ Probes!Follow("probe")
          \/ Probes!Goes("failed")
          \/ Probes!Accept([at |-> at, verified |-> TRUE, ranges |-> answer # "refused"], allowed)
    BY <1>5 DEF Probes!ProbeRange
  <2>3. CASE Probes!Unverified
    <3>1. CASE Probes!Credentials
      BY <2>1, <2>3, <3>1 DEF Probes!Unverified, Asks, GoesTo
    <3>2. CASE ~Probes!Credentials
      <4> DEFINE uri == [at |-> Probes!Now.at, verified |-> FALSE, ranges |-> TRUE]
      <4>1. Probes!Accept(uri, TRUE) /\ uri \in Probes!Uris
        BY <2>0, <2>3, <3>2 DEF Probes!Unverified, Probes!Uris
      <4>2. Accepts
        BY <3>2, <4>1 DEF Accepts
      <4> QED
        BY <2>1, <4>2 DEF Asks
    <3> QED
      BY <3>1, <3>2
  <2>4. CASE Probes!Accept([at |-> at, verified |-> TRUE, ranges |-> answer # "refused"], allowed)
    <3> DEFINE uri == [at |-> at, verified |-> TRUE, ranges |-> answer # "refused"]
    <3>1. Probes!Accept(uri, allowed) /\ uri \in Probes!Uris
      BY <2>4 DEF Probes!Uris
    <3>2. allowed => Probes!MayForward(uri.at)
      BY <2>1 DEF ChainIsTraced
    <3>3. Accepts
      BY <3>1, <3>2 DEF Accepts
    <3> QED
      BY <2>1, <3>3 DEF Asks
  <2> QED
    BY <2>1, <2>2, <2>3, <2>4 DEF Asks, GoesTo
<1>6. CASE Probes!TakePlain
  <2>0. Probes!Now.at \in Probes!Origins
    BY <1>6 DEF Probes!TakePlain, Probes!Now, Probes!Source, Probes!Origins
  <2> DEFINE uri == [at |-> Probes!Now.at, verified |-> TRUE, ranges |-> TRUE]
             permitted == Probes!MayForward(Probes!Now.at)
  <2>1. Probes!Accept(uri, permitted) /\ uri \in Probes!Uris /\ permitted \in BOOLEAN
    BY <1>6, <2>0 DEF Probes!TakePlain, Probes!Uris, Probes!MayForward
  <2>2. Accepts
    BY <2>1 DEF Accepts
  <2> QED
    BY <1>6, <2>2 DEF Probes!TakePlain, Silent
<1>7. CASE Probes!TooManyRedirects \/ Probes!ReadTorrent
  BY <1>7 DEF Probes!TooManyRedirects, Probes!ReadTorrent, Silent, GoesTo
<1> QED
  BY <1>1, <1>2, <1>3, <1>4, <1>5, <1>6, <1>7 DEF Probes!Next

-----------------------------------------------------------------------------
Works == Heads \/ Gets \/ Ranges \/ Fetches \/ Asks \/ Silent

\* What each of them does to the request itself.
Moves ==
  \/ GoesTo({"get", "range", "body", "done", "failed"})
  \/ \E next \in {"get", "range"} : Probes!Strike(next)
  \/ hops < Hops /\ \E next \in {"head", "get", "probe"} : Probes!Follow(next)
  \/ \E next \in {"head", "get"} : Second(next)
  \/ kind = "transfer" /\ step = "probe" /\ Accepts

LEMMA EveryWorkMoves ==
  ASSUME ProbeInvariant, Works
  PROVE  Moves
<1> USE DEF Moves, GoesTo
<1>1. CASE Heads
  BY <1>1 DEF Heads
<1>2. CASE Gets
  BY <1>2 DEF Gets, ProbeInvariant, SendsAreCounted
<1>3. CASE Ranges
  BY <1>3 DEF Ranges, ProbeInvariant, SendsAreCounted
<1>4. CASE Fetches
  BY <1>4 DEF Fetches
<1>5. CASE Asks
  BY <1>5 DEF Asks
<1>6. CASE Silent
  BY <1>6 DEF Silent
<1> QED
  BY <1>1, <1>2, <1>3, <1>4, <1>5, <1>6 DEF Works

\* What the source, the last request and the challenge become.
LEMMA WorkSends ==
  ASSUME ProbeInvariant, Works
  PROVE  /\ UNCHANGED <<kind, known, sources>>
         /\ challenged' \in BOOLEAN /\ (challenged => challenged')
         /\ Probes!Sent \/ UNCHANGED <<last, sends>>
<1> USE DEF ProbeInvariant, ProbeShapes, Grows
<1>1. CASE Silent
  BY <1>1 DEF Silent
<1>2. CASE ~Silent
  BY <1>2 DEF Works, Heads, Gets, Ranges, Fetches, Asks
<1> QED
  BY <1>1, <1>2

\* The next source of a transfer.
LEMMA NextSource ==
  ASSUME ProbeShapes, kind = "transfer", step = "probe", plan.next # Len(sources)
  PROVE  /\ plan.next = 1 /\ Len(sources) = 2
         /\ sources[plan.next + 1].at \in Probes!Origins
BY DEF ProbeShapes, Probes!Source, Probes!Origins

\* Each part of the invariant is kept by every step: the types.
LEMMA NextProbeShapes ==
  ASSUME Hops \in Nat, ProbeInvariant, Works
  PROVE  ProbeShapes'
<1> USE DEF ProbeInvariant, ProbeShapes
<1>1. /\ UNCHANGED <<kind, known, sources>> /\ challenged' \in BOOLEAN
  BY WorkSends
<1>2. sends' \in Nat /\ last' \in [to : Probes!Origins, login : BOOLEAN,
                                   cookie : {"none", "own", "site"}]
  <2>1. CASE UNCHANGED <<last, sends>>
    BY <2>1
  <2>2. CASE Probes!Sent
    <3>1. Probes!CookieFor \in {"none", "own", "site"} /\ Probes!SameOrigin \in BOOLEAN
      BY DEF Probes!CookieFor, Probes!SameOrigin
    <3>2. known.login \in BOOLEAN /\ known.cookies \in BOOLEAN
      OBVIOUS
    <3> QED
      BY <2>2, <3>1, <3>2 DEF Probes!Sent, Probes!TransferShows, Probes!ProbeShows
  <2> QED
    BY <2>1, <2>2, WorkSends
<1>3. /\ at' \in Probes!Origins /\ hops' \in 0 .. Hops
      /\ cookies' \in [sent : BOOLEAN, retried : BOOLEAN]
      /\ strikes' \in Nat
      /\ allowed' \in BOOLEAN /\ strayed' \in BOOLEAN
  <2>1. CASE GoesTo({"get", "range", "body", "done", "failed"})
    BY <2>1 DEF GoesTo, Probes!Goes
  <2>2. CASE \E next \in {"get", "range"} : Probes!Strike(next)
    BY <2>2 DEF Probes!Strike
  <2>3. CASE hops < Hops /\ \E next \in {"head", "get", "probe"} : Probes!Follow(next)
    <3>1. /\ at' \in Probes!Origins /\ hops' \in 0 .. Hops
          /\ UNCHANGED <<cookies, strikes>>
      BY <2>3 DEF Probes!Follow, Probes!Goes
    <3>2. allowed' \in BOOLEAN /\ strayed' \in BOOLEAN
      BY <2>3, Zenon DEF Probes!Follow, Probes!Goes, Probes!Forwarded
    <3> QED
      BY <3>1, <3>2
  <2>4. CASE \E next \in {"head", "get"} : Second(next)
    BY <2>4 DEF Second, Probes!SecondPass, Probes!Origins
  <2>5. CASE kind = "transfer" /\ step = "probe" /\ Accepts
    <3>1. PICK uri \in Probes!Uris, permitted \in BOOLEAN : Probes!Accept(uri, permitted)
      BY <2>5 DEF Accepts
    <3>2. /\ at' \in Probes!Origins /\ hops' \in 0 .. Hops
          /\ UNCHANGED <<cookies, strikes>>
      BY <2>5, <3>1, NextSource DEF Probes!Accept, Probes!Goes
    <3>3. allowed' \in BOOLEAN /\ strayed' \in BOOLEAN
      BY <3>1, Zenon DEF Probes!Accept, Probes!Goes
    <3> QED
      BY <3>2, <3>3
  <2> QED
    BY <2>1, <2>2, <2>3, <2>4, <2>5, EveryWorkMoves DEF Moves
<1>4. plan' \in [next : 1 .. 3, uris : SUBSET Probes!Uris, allowed : BOOLEAN, single : BOOLEAN]
  <2>1. CASE kind = "transfer" /\ step = "probe" /\ Accepts
    <3>1. PICK uri \in Probes!Uris, permitted \in BOOLEAN : Probes!Accept(uri, permitted)
      BY <2>1 DEF Accepts
    <3>2. plan.next + 1 \in 1 .. 3
      BY <2>1
    <3> DEFINE shown == plan.allowed /\ permitted
               alone == plan.single \/ ~uri.ranges
    <3>3. shown \in BOOLEAN /\ alone \in BOOLEAN
      OBVIOUS
    <3>4. \/ UNCHANGED plan
          \/ plan' = [next |-> plan.next + 1, uris |-> plan.uris \cup {uri},
                      allowed |-> shown, single |-> alone]
      BY <3>1 DEF Probes!Accept, Probes!Goes
    <3>5. plan.uris \cup {uri} \in SUBSET Probes!Uris
      OBVIOUS
    <3> HIDE DEF shown, alone
    <3> QED
      BY <3>2, <3>3, <3>4, <3>5
  <2>2. CASE ~(kind = "transfer" /\ step = "probe" /\ Accepts)
    BY <2>2, EveryWorkMoves
    DEF Moves, GoesTo, Second, Probes!Goes, Probes!Strike, Probes!Follow, Probes!SecondPass
  <2> QED
    BY <2>1, <2>2
<1>5. /\ kind = "metadata" => step' \in Asked \cup {"done", "failed"}
      /\ kind = "torrent" => step' \in {"get", "body", "done", "failed"}
      /\ kind = "transfer" => step' \in {"probe", "done", "failed"}
  BY DEF Works, Heads, Gets, Ranges, Fetches, Asks, Silent, Accepts, Asked, GoesTo, Second,
     Probes!Goes, Probes!Strike, Probes!Follow, Probes!SecondPass, Probes!Accept
<1>6. kind = "transfer" /\ step' = "probe" => plan'.next \in 1 .. Len(sources)
  <2> SUFFICES ASSUME kind = "transfer", step' = "probe" PROVE plan'.next \in 1 .. Len(sources)
    OBVIOUS
  <2>1. Accepts \/ Probes!Follow("probe")
    BY DEF Works, Heads, Gets, Ranges, Fetches, Asks, Silent, GoesTo, Probes!Goes
  <2>2. step = "probe"
    BY DEF Works, Heads, Gets, Ranges, Fetches, Asks, Silent
  <2>3. CASE Probes!Follow("probe")
    BY <2>2, <2>3 DEF Probes!Follow, Probes!Goes
  <2>4. CASE Accepts
    BY <2>2, <2>4, NextSource DEF Accepts, Probes!Accept, Probes!Goes
  <2> QED
    BY <2>1, <2>3, <2>4
<1> QED
  BY <1>1, <1>2, <1>3, <1>4, <1>5, <1>6

\* A chain is traced.
LEMMA NextChainIsTraced ==
  ASSUME Hops \in Nat, ProbeInvariant, Works
  PROVE  ChainIsTraced'
<1> USE DEF ProbeInvariant, ProbeShapes, ChainIsTraced
<1>1. UNCHANGED <<kind, known, sources>>
  BY WorkSends
<1>2. CASE GoesTo({"get", "range", "body", "done", "failed"})
  BY <1>1, <1>2 DEF GoesTo, Probes!Goes, Probes!MayForward
<1>3. CASE \E next \in {"get", "range"} : Probes!Strike(next)
  BY <1>1, <1>3 DEF Probes!Strike, Probes!MayForward
<1>4. CASE hops < Hops /\ \E next \in {"head", "get", "probe"} : Probes!Follow(next)
  BY <1>1, <1>4 DEF Probes!Follow, Probes!Goes, Probes!Forwarded, Probes!MayForward
<1>5. CASE \E next \in {"head", "get"} : Second(next)
  BY <1>1, <1>5 DEF Second, Probes!SecondPass, Probes!MayForward
<1>6. CASE kind = "transfer" /\ step = "probe" /\ Accepts
  BY <1>1, <1>6, NextSource DEF Accepts, Probes!Accept, Probes!Goes, Probes!MayForward
<1> QED
  BY <1>2, <1>3, <1>4, <1>5, <1>6, EveryWorkMoves DEF Moves

\* Nobody is shown what is not due to him.
LEMMA NextCredentials ==
  ASSUME ProbeInvariant, Works, ChainIsTraced'
  PROVE  Probes!CredentialsStayHome'
<1> USE DEF ProbeInvariant, ProbeShapes, Probes!CredentialsStayHome, ChainIsTraced
<1>1. UNCHANGED kind /\ (Probes!Sent \/ UNCHANGED last)
  BY WorkSends
<1>2. CASE UNCHANGED last
  BY <1>1, <1>2
<1>3. CASE Probes!Sent
  BY <1>1, <1>3 DEF Probes!Sent, Probes!TransferShows, Probes!ProbeShows, Probes!CookieFor,
     Probes!SameOrigin, Probes!MayForward
<1> QED
  BY <1>1, <1>2, <1>3

\* Cookies that wait.
LEMMA NextCookies ==
  ASSUME ProbeInvariant, Works
  PROVE  CookiesAreDue' /\ Probes!CookiesWait'
<1> USE DEF ProbeInvariant, ProbeShapes, CookiesAreDue, Probes!CookiesWait, Probes!Available
<1>1. /\ UNCHANGED <<kind, known, sources>> /\ (challenged => challenged')
      /\ Probes!Sent \/ UNCHANGED last
  BY WorkSends
<1>2. CookiesAreDue'
  BY <1>1, EveryWorkMoves
  DEF Moves, GoesTo, Second, Accepts, Probes!Goes, Probes!Strike, Probes!Follow, Probes!SecondPass,
      Probes!Accept
<1>3. CASE UNCHANGED last
  BY <1>1, <1>2, <1>3
<1>4. CASE Probes!Sent
  BY <1>1, <1>2, <1>4 DEF Probes!Sent, Probes!ProbeShows, Probes!CookieFor
<1> QED
  BY <1>1, <1>2, <1>3, <1>4

\* The plan.
LEMMA NextPlanIsTrue ==
  ASSUME ProbeInvariant, Works
  PROVE  PlanIsTrue'
<1> USE DEF ProbeInvariant, ProbeShapes, PlanIsTrue
<1>1. UNCHANGED <<kind, known, sources>>
  BY WorkSends
<1>2. CASE UNCHANGED plan
  BY <1>1, <1>2 DEF Probes!Credentials
<1>3. CASE kind = "transfer" /\ step = "probe" /\ Accepts
  <2>1. PICK uri \in Probes!Uris, permitted \in BOOLEAN :
          /\ Probes!Accept(uri, permitted)
          /\ Probes!Credentials /\ permitted => uri.verified /\ Probes!MayForward(uri.at)
    BY <1>3 DEF Accepts
  <2>2. CASE UNCHANGED plan
    BY <1>1, <2>2 DEF Probes!Credentials
  <2>3. CASE plan' = [next |-> plan.next + 1, uris |-> plan.uris \cup {uri},
                      allowed |-> plan.allowed /\ permitted,
                      single |-> plan.single \/ ~uri.ranges]
    <3>1. /\ plan'.uris = plan.uris \cup {uri}
          /\ plan'.allowed <=> plan.allowed /\ permitted
          /\ plan'.single <=> plan.single \/ ~uri.ranges
      BY <2>3
    <3>2. Probes!Credentials' <=> Probes!Credentials
      BY <1>1 DEF Probes!Credentials
    <3>3. Probes!Credentials' /\ plan'.allowed =>
            \A u \in plan'.uris : u.verified /\ Probes!MayForward(u.at)
      BY <1>3, <2>1, <3>1, <3>2
    <3>4. plan'.single <=> \E u \in plan'.uris : ~u.ranges
      BY <1>3, <3>1
    <3> QED
      BY <3>3, <3>4 DEF Probes!MayForward
  <2> QED
    BY <2>1, <2>2, <2>3 DEF Probes!Accept, Probes!Goes
<1> QED
  BY <1>2, <1>3, EveryWorkMoves
  DEF Moves, GoesTo, Second, Probes!Goes, Probes!Strike, Probes!Follow, Probes!SecondPass

\* The requests to a source and to the one before it.
LEMMA TwoSources ==
  ASSUME Hops \in Nat, NEW n, NEW h \in 0 .. Hops, NEW k \in Nat, NEW s \in Nat,
         s <= k + (IF n = 2 THEN Hops + 1 ELSE 0) + h
  PROVE  s + 1 <= k + 2 * (Hops + 1)
<1>1. CASE n = 2
  BY <1>1
<1>2. CASE n # 2
  BY <1>2
<1> QED
  BY <1>1, <1>2

\* The requests are counted.
LEMMA NextSends ==
  ASSUME Hops \in Nat, ProbeInvariant, Works
  PROVE  SendsAreCounted'
<1> USE DEF ProbeInvariant, ProbeShapes, SendsAreCounted, BeforePass, InPass,
        Probes!SendsAreBounded, Probes!Sent, GoesTo, Second, Probes!Goes, Probes!Strike,
        Probes!Follow, Probes!SecondPass
<1>1. CASE Heads
  BY <1>1 DEF Heads
<1>2. CASE Gets
  BY <1>2 DEF Gets
<1>3. CASE Ranges
  BY <1>3 DEF Ranges
<1>4. CASE Fetches
  BY <1>4 DEF Fetches
<1>5. CASE kind = "transfer" /\ step = "probe" /\ ~Accepts /\ Asks
  <2>1. UNCHANGED <<kind, strikes, plan, cookies>> /\ sends' = sends + 1
    BY <1>5 DEF Asks
  <2>2. CASE GoesTo({"failed"})
    BY <1>5, <2>1, <2>2
  <2>3. CASE hops < Hops /\ Probes!Follow("probe")
    <3>1. step' = "failed" \/ (step' = "probe" /\ hops' = hops + 1)
      BY <2>3
    <3>2. sends' <= strikes + 2 * (Hops + 1)
      BY <1>5, <2>1, TwoSources
    <3>3. step' = "probe" => sends' <= strikes + (IF plan.next = 2 THEN Hops + 1 ELSE 0) + hops'
      BY <1>5, <2>1, <2>3, <3>1
    <3> QED
      BY <1>5, <2>1, <3>1, <3>2, <3>3
  <2> QED
    BY <1>5, <2>2, <2>3 DEF Asks
<1>6. CASE kind = "transfer" /\ step = "probe" /\ Accepts
  <2>1. UNCHANGED kind /\ sends' \in {sends, sends + 1}
    BY WorkSends
  <2>2. PICK uri \in Probes!Uris, permitted \in BOOLEAN : Probes!Accept(uri, permitted)
    BY <1>6 DEF Accepts
  <2>3. /\ UNCHANGED strikes
        /\ \/ step' \in {"done", "failed"}
           \/ /\ step' = "probe" /\ plan.next # Len(sources) /\ hops' = 0
              /\ plan'.next = plan.next + 1
    BY <2>2 DEF Probes!Accept
  <2>4. sends' <= strikes + (IF plan.next = 2 THEN Hops + 1 ELSE 0) + Hops + 1
    BY SMTT(30), <1>6, <2>1
  <2>5. Probes!SendsAreBounded'
    <3>1. sends' <= strikes + 2 * (Hops + 1)
      BY <1>6, <2>1, TwoSources
    <3> QED
      BY <1>6, <2>1, <2>3, <3>1
  <2>6. CASE step' \in {"done", "failed"}
    BY <1>6, <2>1, <2>5, <2>6
  <2>7. CASE step' = "probe" /\ plan.next # Len(sources) /\ hops' = 0 /\ plan'.next = plan.next + 1
    <3>1. plan.next = 1 /\ plan'.next = 2
      BY <1>6, <2>7, NextSource
    <3> QED
      BY <1>6, <2>1, <2>3, <2>4, <2>5, <2>7, <3>1
  <2> QED
    BY <2>3, <2>6, <2>7
<1>7. CASE Silent /\ ~(kind = "transfer" /\ step = "probe")
  BY SMTT(30), <1>7 DEF Silent
<1> QED
  BY <1>1, <1>2, <1>3, <1>4, <1>5, <1>6, <1>7 DEF Works, Asks, Silent

LEMMA NextProbes ==
  ASSUME Hops \in Nat, ProbeInvariant, [Probes!Next]_(Probes!svars)
  PROVE  ProbeInvariant'
<1>1. CASE Works
  BY <1>1, NextProbeShapes, NextChainIsTraced, NextCredentials, NextCookies, NextPlanIsTrue,
     NextSends DEF ProbeInvariant
<1>2. CASE UNCHANGED Probes!svars
  BY <1>2
  DEF ProbeInvariant, ProbeShapes, ChainIsTraced, CookiesAreDue, SendsAreCounted, PlanIsTrue,
      BeforePass, InPass, Probes!svars, Probes!CredentialsStayHome, Probes!CookiesWait,
      Probes!SendsAreBounded, Probes!MayForward, Probes!Credentials, Probes!Available
<1> QED
  BY <1>1, <1>2, ProbeSteps DEF Works

\* The invariant is inductive and implies what is promised of the requests.
LEMMA InitProbes ==
  ASSUME Hops \in Nat, Probes!Init
  PROVE  ProbeInvariant
<1> USE DEF Probes!Init
<1>1. ProbeShapes
  <2>1. kind = "transfer" => /\ Len(sources) \in 1 .. 2
                             /\ \A n \in 1 .. Len(sources) : sources[n] \in Probes!Source
                             /\ sources[1].at = "home"
    BY DEF Probes!Chains
  <2>2. cookies \in [sent : BOOLEAN, retried : BOOLEAN]
    BY DEF Probes!Available
  <2>3. /\ plan \in [next : 1 .. 3, uris : SUBSET Probes!Uris, allowed : BOOLEAN, single : BOOLEAN]
        /\ last \in [to : Probes!Origins, login : BOOLEAN, cookie : {"none", "own", "site"}]
        /\ at \in Probes!Origins /\ hops \in 0 .. Hops
    BY DEF Probes!Unsent, Probes!Origins
  <2>4. /\ kind = "metadata" => step = "head"
        /\ kind = "torrent" => step = "get"
        /\ kind = "transfer" => step = "probe"
    OBVIOUS
  <2>5. kind = "transfer" => plan.next \in 1 .. Len(sources)
    BY <2>1
  <2> QED
    BY <2>1, <2>2, <2>3, <2>4, <2>5 DEF ProbeShapes, Asked
<1>2. ChainIsTraced /\ CookiesAreDue /\ Probes!CookiesWait /\ Probes!CredentialsStayHome
  BY DEF ChainIsTraced, CookiesAreDue, Probes!MayForward, Probes!Available, Probes!CookiesWait,
     Probes!CredentialsStayHome, Probes!Unsent
<1>3. SendsAreCounted
  BY DEF SendsAreCounted, BeforePass, InPass, Probes!SendsAreBounded
<1>4. PlanIsTrue
  BY DEF PlanIsTrue
<1> QED
  BY <1>1, <1>2, <1>3, <1>4 DEF ProbeInvariant

\* What the invariant says of the properties of the component.
LEMMA ProbeSafety ==
  ProbeInvariant => /\ Probes!CredentialsStayHome /\ Probes!CookiesWait
                    /\ Probes!SendsAreBounded /\ Probes!TransferIsPrepared
BY DEF ProbeInvariant, SendsAreCounted, PlanIsTrue, Probes!TransferIsPrepared

\* A source is shown the credentials of its own origin only, cookies that wait for a challenge are
\* sent after one only, the requests are bounded, and aria2 is given credentials and connections as
\* the sources were found (CredentialsStayHome, CookiesWait, SendsAreBounded, TransferIsPrepared).
THEOREM CredentialsAreSafe ==
  ASSUME Hops \in Nat
  PROVE  Probes!Spec => [](/\ Probes!CredentialsStayHome /\ Probes!CookiesWait
                           /\ Probes!SendsAreBounded /\ Probes!TransferIsPrepared)
<1>1. Probes!Init => ProbeInvariant
  BY InitProbes
<1>2. ProbeInvariant /\ [Probes!Next]_(Probes!svars) => ProbeInvariant'
  BY NextProbes
<1> QED
  BY <1>1, <1>2, ProbeSafety, PTL DEF Probes!Spec

-----------------------------------------------------------------------------
(* The assertions that keep the computer awake.                            *)

\* What a count of the permits may give.
Counts == {0} \cup {Power!Cardinality(S) : S \in SUBSET Transfers}
Report == [step : {"none", "count", "store"}, gate : BOOLEAN, read : Counts,
           newer : SUBSET Transfers, beaten : BOOLEAN]

PowerShapes ==
  /\ sync \in [Transfers -> Report] /\ enabled \in BOOLEAN /\ overtaken \in BOOLEAN
  /\ owed \in BOOLEAN
  /\ call \in [Power!Callers -> {"none", "second", "ensure", "send", "restart", "closing", "wait"}]
  /\ permits \in SUBSET Transfers
  /\ worker \in {"none", "running", "closing", "dead"}
  /\ commands \in Seq({"tell", "ask"})
  /\ goal \in [command : {"none", "tell", "ask"}, want : Power!Sleep]
  /\ wanted \in Power!Sleep /\ choice \in Power!Sleep

\* Of two counts on their way one is known to be the later, and once the latest has been stored
\* all others are beaten.
Latest(d) == sync[d].step = "store" /\ sync[d].newer = {}
CountsAreOrdered ==
  /\ \A d \in Transfers :
       sync[d].step = "count" => sync[d].newer = {} /\ ~sync[d].beaten
  /\ \A d, e \in Transfers :
       d # e /\ sync[d].step = "store" /\ sync[e].step = "store" =>
         d \in sync[e].newer \/ e \in sync[d].newer
  /\ \/ \E d \in Transfers : Latest(d)
     \/ \A d \in Transfers : sync[d].step = "store" => sync[d].beaten

\* When nobody has yet to count, the latest count is that of the permits.
LatestIsTrue ==
  (\A d \in Transfers : sync[d].step # "count") =>
    /\ \A d \in Transfers : Latest(d) => sync[d].read = Power!Cardinality(permits)
    /\ (\A d \in Transfers : ~Latest(d)) => active = Power!Cardinality(permits) \/ overtaken

\* Only a worker that has not ended has work.
NobodyWorks == worker \in {"none", "dead"} => commands = <<>> /\ goal.command = "none"

\* The main thread waits for the one question it has asked.
MainWaits ==
  /\ \A n \in 1 .. Len(commands) : commands[n] = "ask" =>
       /\ call["main"] = "wait" /\ goal.command # "ask"
       /\ \A m \in 1 .. Len(commands) : commands[m] = "ask" => m = n
  /\ goal.command = "ask" => call["main"] = "wait"

\* A change of the count or the preferences is followed by a command, unless a request fails.
Coming ==
  commands # <<>> \/ \E c \in Power!Callers : call[c] \in {"second", "ensure", "send"}
ChangesAreTold ==
  /\ believed = held
  /\ enabled /\ goal.command # "none" => Coming \/ goal.want = Power!Desired
  /\ enabled /\ ~owed /\ goal.command = "none" => Coming \/ believed = Power!Desired

PowerInvariant ==
  /\ PowerShapes /\ CountsAreOrdered /\ LatestIsTrue
  /\ NobodyWorks /\ MainWaits /\ ChangesAreTold

\* What is written into a report.
LEMMA ReportsAreBeaten ==
  ASSUME NEW r \in Report, NEW b
  PROVE  [r EXCEPT !.beaten = @ \/ b] \in Report
BY DEF Report

LEMMA ReportsAreCounted ==
  ASSUME NEW r \in Report, NEW n \in Counts, NEW d \in Transfers
  PROVE  /\ [r EXCEPT !.step = "store", !.read = n] \in Report
         /\ [r EXCEPT !.newer = @ \cup {d}] \in Report
<1>1. r.newer \cup {d} \in SUBSET Transfers
  BY DEF Report
<1> QED
  BY <1>1 DEF Report

LEMMA QuietReports ==
  ASSUME NEW g \in BOOLEAN
  PROVE  [Power!Quiet EXCEPT !.gate = g] \in Report
BY DEF Report, Counts, Power!Quiet

\* Each part of the invariant is kept by every step.
LEMMA PowerShapesHold ==
  ASSUME PowerInvariant, [Power!Next]_(Power!wvars)
  PROVE  PowerShapes'
<1> USE DEF PowerInvariant, PowerShapes, Power!report, Power!settings, Power!assertions, Power!Callers
<1>1. ASSUME NEW d \in Transfers, Power!Park(d) \/ Power!Release(d) PROVE PowerShapes'
  <2>1. permits' \in SUBSET Transfers
    BY <1>1 DEF Power!Park, Power!Release
  <2>2. \E new \in Report : sync' = [sync EXCEPT ![d] = new]
    <3>1. /\ [Power!Quiet EXCEPT !.step = "count"] \in Report
          /\ [Power!Quiet EXCEPT !.step = "count", !.gate = TRUE] \in Report
      BY DEF Report, Counts, Power!Quiet
    <3> QED
      BY <1>1, <3>1 DEF Power!Park, Power!Release
  <2>3. sync' \in [Transfers -> Report]
    BY <2>2
  <2> QED
    BY <1>1, <2>1, <2>3 DEF Power!Park, Power!Release
<1>2. ASSUME NEW d \in Transfers, Power!Count(d) PROVE PowerShapes'
  <2>1. Power!Cardinality(permits) \in Counts
    BY DEF Counts
  <2> DEFINE new(e) ==
        IF e = d THEN [sync[d] EXCEPT !.step = "store", !.read = Power!Cardinality(permits)]
        ELSE IF sync[e].step = "store" THEN [sync[e] EXCEPT !.newer = @ \cup {d}] ELSE sync[e]
  <2>2. ASSUME NEW e \in Transfers PROVE new(e) \in Report
    BY <2>1, ReportsAreCounted
  <2>3. sync' \in [Transfers -> Report]
    <3>1. sync' = [e \in Transfers |-> new(e)]
      BY <1>2 DEF Power!Count
    <3> HIDE DEF new
    <3> QED
      BY <2>2, <3>1
  <2> QED
    BY <1>2, <2>3 DEF Power!Count
<1>3. ASSUME NEW d \in Transfers, Power!Store(d) PROVE PowerShapes'
  <2>1. \A e \in Transfers : [sync[e] EXCEPT !.beaten = @ \/ d \in sync[e].newer] \in Report
    BY ReportsAreBeaten
  <2>2. [Power!Quiet EXCEPT !.gate = enabled /\ sync[d].gate] \in Report
    <3>1. (enabled /\ sync[d].gate) \in BOOLEAN
      BY Zenon
    <3> QED
      BY <3>1, QuietReports
  <2>3. sync' \in [Transfers -> Report]
    BY <1>3, <2>1, <2>2 DEF Power!Store
  <2>4. overtaken' \in BOOLEAN
    BY <1>3 DEF Power!Store, Report
  <2>5. call' \in [Power!Callers -> {"none", "second", "ensure", "send", "restart", "closing",
                                   "wait"}]
    BY <1>3 DEF Power!Store
  <2> QED
    BY <1>3, <2>3, <2>4, <2>5 DEF Power!Store
<1>4. CASE Power!Activate \/ Power!PreferSecond
  BY <1>4 DEF Power!Activate, Power!PreferSecond
<1>5. CASE Power!Prefer
  <2>1. choice' \in Power!Sleep /\ wanted' \in Power!Sleep
    BY <1>5 DEF Power!Prefer, Power!Sleep
  <2> QED
    BY <1>5, <2>1 DEF Power!Prefer
<1>6. ASSUME NEW c \in Power!Callers, Power!Ensure(c) \/ Power!Restart(c) PROVE PowerShapes'
  BY <1>6 DEF Power!Ensure, Power!Restart
<1>7. ASSUME NEW c \in Power!Callers, Power!Send(c) PROVE PowerShapes'
  <2>1. commands' \in Seq({"tell", "ask"})
    <3>1. (IF c = "main" THEN "ask" ELSE "tell") \in {"tell", "ask"}
      OBVIOUS
    <3>2. \/ commands' = commands
          \/ commands' = Append(commands, IF c = "main" THEN "ask" ELSE "tell")
      BY <1>7 DEF Power!Send
    <3> QED
      BY <3>1, <3>2
  <2>2. call' \in [Power!Callers -> {"none", "second", "ensure", "send", "restart", "closing",
                                   "wait"}]
    BY <1>7 DEF Power!Send
  <2> QED
    BY <1>7, <2>1, <2>2 DEF Power!Send
<1>8. CASE Power!Take
  <2>1. Power!Desired \in Power!Sleep
    BY DEF Power!Desired, Power!Nothing, Power!Sleep
  <2>2. commands # <<>> /\ goal' = [command |-> Head(commands), want |-> Power!Desired]
        /\ commands' = Tail(commands)
    BY <1>8 DEF Power!Take
  <2>3. Head(commands) \in {"tell", "ask"} /\ Tail(commands) \in Seq({"tell", "ask"})
    BY <2>2
  <2> QED
    BY <1>8, <2>1, <2>2, <2>3 DEF Power!Take
<1>9. CASE Power!Apply
  BY <1>9 DEF Power!Apply, Power!Answered
<1>10. CASE Power!Die \/ Power!End
  <2>1. Power!Nothing \in Power!Sleep /\ <<>> \in Seq({"tell", "ask"})
    BY DEF Power!Nothing, Power!Sleep
  <2>2. /\ goal' \in [command : {"none", "tell", "ask"}, want : Power!Sleep]
        /\ call' \in [Power!Callers -> {"none", "second", "ensure", "send", "restart", "closing",
                                       "wait"}]
    BY <1>10 DEF Power!Die, Power!End
  <2> QED
    BY <1>10, <2>1, <2>2 DEF Power!Die, Power!End
<1>11. CASE UNCHANGED Power!wvars
  BY <1>11 DEF Power!wvars
<1> QED
  BY <1>1, <1>2, <1>3, <1>4, <1>5, <1>6, <1>7, <1>8, <1>9, <1>10, <1>11 DEF Power!Next

\* Only these four steps change what is reported.
LEMMA OtherwiseNoReport ==
  ASSUME [Power!Next]_(Power!wvars),
         ~ \E d \in Transfers : \/ Power!Park(d) \/ Power!Release(d)
                               \/ Power!Count(d) \/ Power!Store(d)
  PROVE  UNCHANGED <<permits, sync, active, overtaken>>
BY DEF Power!Next, Power!Activate, Power!Prefer, Power!PreferSecond, Power!Ensure, Power!Send,
   Power!Restart, Power!Take, Power!Apply, Power!Die, Power!End, Power!wvars, Power!report

LEMMA ReportsHold ==
  ASSUME PowerInvariant, [Power!Next]_(Power!wvars)
  PROVE  CountsAreOrdered' /\ LatestIsTrue'
<1>0. sync \in [Transfers -> Report] /\ CountsAreOrdered /\ LatestIsTrue
  BY DEF PowerInvariant, PowerShapes
<1>1. ASSUME NEW d \in Transfers, Power!Park(d) \/ Power!Release(d)
      PROVE  CountsAreOrdered' /\ LatestIsTrue'
  <2>1. /\ sync'[d].step = "count" /\ sync'[d].newer = {} /\ ~sync'[d].beaten
        /\ \A e \in Transfers \ {d} : sync'[e] = sync[e]
        /\ sync[d].step = "none"
    <3>1. \E g \in BOOLEAN : sync' = [sync EXCEPT ![d] =
            [step |-> "count", gate |-> g, read |-> 0, newer |-> {}, beaten |-> FALSE]]
      BY <1>1 DEF Power!Park, Power!Release, Power!Quiet
    <3>2. sync[d].step = "none"
      BY <1>1 DEF Power!Park, Power!Release
    <3> QED
      BY <1>0, <3>1, <3>2
  <2> QED
    BY <1>0, <2>1 DEF CountsAreOrdered, LatestIsTrue, Latest
<1>2. ASSUME NEW d \in Transfers, Power!Count(d)
      PROVE  CountsAreOrdered' /\ LatestIsTrue'
  <2>1. /\ sync[d].step = "count" /\ sync'[d].step = "store" /\ sync'[d].newer = {}
        /\ ~sync'[d].beaten /\ sync'[d].read = Power!Cardinality(permits) /\ permits' = permits
        /\ \A e \in Transfers \ {d} :
             /\ sync'[e].step = sync[e].step /\ sync'[e].beaten = sync[e].beaten
             /\ sync[e].step = "store" => sync'[e].newer = sync[e].newer \cup {d}
             /\ sync[e].step # "store" => sync'[e].newer = sync[e].newer
    <3>1. /\ sync[d].step = "count" /\ permits' = permits
          /\ sync'[d] = [sync[d] EXCEPT !.step = "store", !.read = Power!Cardinality(permits)]
          /\ \A e \in Transfers \ {d} : sync'[e] =
               IF sync[e].step = "store" THEN [sync[e] EXCEPT !.newer = @ \cup {d}] ELSE sync[e]
      BY <1>2 DEF Power!Count
    <3>2. sync[d].newer = {} /\ ~sync[d].beaten
      BY <1>0, <3>1 DEF CountsAreOrdered
    <3>3. \A e \in Transfers : sync[e] \in Report
      BY <1>0
    <3>4. /\ sync'[d].step = "store" /\ sync'[d].read = Power!Cardinality(permits)
          /\ sync'[d].newer = {} /\ ~sync'[d].beaten
      BY <3>1, <3>2, <3>3 DEF Report
    <3>5. ASSUME NEW e \in Transfers \ {d}
          PROVE  /\ sync'[e].step = sync[e].step /\ sync'[e].beaten = sync[e].beaten
                 /\ sync[e].step = "store" => sync'[e].newer = sync[e].newer \cup {d}
                 /\ sync[e].step # "store" => sync'[e].newer = sync[e].newer
      <4>1. /\ sync[e] \in Report
            /\ sync'[e] = IF sync[e].step = "store" THEN [sync[e] EXCEPT !.newer = @ \cup {d}]
                          ELSE sync[e]
        BY <3>1, <3>3
      <4> QED
        BY <4>1 DEF Report
    <3> QED
      BY <3>1, <3>4, <3>5
  <2> QED
    BY <1>0, <2>1 DEF CountsAreOrdered, LatestIsTrue, Latest
<1>3. ASSUME NEW d \in Transfers, Power!Store(d)
      PROVE  CountsAreOrdered' /\ LatestIsTrue'
  <2>1. /\ sync[d].step = "store" /\ sync'[d].step = "none" /\ permits' = permits
        /\ active' = sync[d].read /\ overtaken' = sync[d].beaten
        /\ \A e \in Transfers \ {d} :
             /\ sync'[e].step = sync[e].step /\ sync'[e].newer = sync[e].newer
             /\ sync'[e].read = sync[e].read
             /\ sync'[e].beaten <=> sync[e].beaten \/ d \in sync[e].newer
    <3>1. /\ sync[d].step = "store" /\ permits' = permits
          /\ active' = sync[d].read /\ overtaken' = sync[d].beaten
          /\ sync'[d] = [Power!Quiet EXCEPT !.gate = enabled /\ sync[d].gate]
          /\ \A e \in Transfers \ {d} : sync'[e] =
               [sync[e] EXCEPT !.beaten = @ \/ d \in sync[e].newer]
      BY <1>3 DEF Power!Store
    <3>2. \A e \in Transfers : sync[e] \in Report
      BY <1>0
    <3>4. ASSUME NEW e \in Transfers \ {d}
          PROVE  /\ sync'[e].step = sync[e].step /\ sync'[e].newer = sync[e].newer
                 /\ sync'[e].read = sync[e].read
                 /\ sync'[e].beaten <=> sync[e].beaten \/ d \in sync[e].newer
      <4>1. sync[e] \in Report /\ sync'[e] = [sync[e] EXCEPT !.beaten = @ \/ d \in sync[e].newer]
        BY <3>1, <3>2
      <4> QED
        BY <4>1 DEF Report
    <3>5. sync'[d].step = "none"
      BY <3>1 DEF Power!Quiet
    <3> QED
      BY <3>1, <3>4, <3>5
  <2>2. \A e \in Transfers \ {d} : sync[e].step = "count" => sync[e].newer = {}
    BY <1>0 DEF CountsAreOrdered
  <2>3. CountsAreOrdered'
    <3>1. CASE Latest(d)
      <4>1. \A e \in Transfers \ {d} : sync[e].step = "store" => d \in sync[e].newer
        BY <1>0, <3>1 DEF CountsAreOrdered, Latest
      <4> QED
        BY <1>0, <2>1, <2>2, <4>1 DEF CountsAreOrdered, Latest
    <3>2. CASE ~Latest(d)
      BY <1>0, <2>1, <2>2, <3>2 DEF CountsAreOrdered, Latest
    <3> QED
      BY <3>1, <3>2
  <2>4. LatestIsTrue'
    BY <1>0, <2>1 DEF CountsAreOrdered, LatestIsTrue, Latest
  <2> QED
    BY <2>3, <2>4
<1>4. CASE ~ \E d \in Transfers : \/ Power!Park(d) \/ Power!Release(d)
                                 \/ Power!Count(d) \/ Power!Store(d)
  BY <1>0, <1>4, OtherwiseNoReport DEF CountsAreOrdered, LatestIsTrue, Latest
<1> QED
  BY <1>1, <1>2, <1>3, <1>4

LEMMA WorkersHold ==
  ASSUME PowerInvariant, [Power!Next]_(Power!wvars), "main" \notin Transfers
  PROVE  NobodyWorks' /\ MainWaits'
<1> DEFINE G == NobodyWorks' /\ MainWaits'
<1> USE DEF PowerInvariant, PowerShapes, NobodyWorks, MainWaits, Power!assertions, Power!Callers
<1>1. ASSUME NEW d \in Transfers, \/ Power!Park(d) \/ Power!Release(d)
                                 \/ Power!Count(d) \/ Power!Store(d)
      PROVE  G
  <2>1. UNCHANGED <<worker, commands, goal>> /\ call'["main"] = call["main"]
    BY <1>1 DEF Power!Park, Power!Release, Power!Count, Power!Store
  <2> QED
    BY <2>1
<1>2. CASE Power!Activate \/ Power!PreferSecond \/ Power!Prefer
  BY <1>2 DEF Power!Activate, Power!PreferSecond, Power!Prefer
<1>3. ASSUME NEW c \in Power!Callers, Power!Ensure(c) \/ Power!Restart(c) PROVE G
  BY <1>3 DEF Power!Ensure, Power!Restart, Power!Unlocked
<1>4. ASSUME NEW c \in Power!Callers, Power!Send(c) PROVE G
  <2>1. CASE worker # "running"
    BY <1>4, <2>1 DEF Power!Send
  <2>2. CASE worker = "running" /\ c # "main"
    <3>1. /\ commands' = Append(commands, "tell") /\ call'["main"] = call["main"]
          /\ goal' = goal /\ worker' = worker
      BY <1>4, <2>2 DEF Power!Send
    <3> QED
      BY <2>2, <3>1
  <2>3. CASE worker = "running" /\ c = "main"
    <3>1. /\ commands' = Append(commands, "ask") /\ call["main"] = "send"
          /\ call'["main"] = "wait" /\ goal' = goal /\ worker' = worker
      BY <1>4, <2>3 DEF Power!Send
    <3> QED
      BY <2>3, <3>1
  <2> QED
    BY <2>1, <2>2, <2>3
<1>5. CASE Power!Take
  <2>1. /\ commands # <<>> /\ goal'.command = commands[1] /\ commands' = Tail(commands)
        /\ call' = call /\ worker' = worker /\ worker \in {"running", "closing"}
    BY <1>5 DEF Power!Take
  <2>2. /\ Len(commands') = Len(commands) - 1
        /\ \A n \in 1 .. Len(commands') : commands'[n] = commands[n + 1]
    BY <2>1
  <2> QED
    BY <2>1, <2>2
<1>6. CASE Power!Apply
  BY <1>6 DEF Power!Apply, Power!Answered
<1>7. CASE Power!Die \/ Power!End
  BY <1>7 DEF Power!Die, Power!End
<1>8. CASE UNCHANGED Power!wvars
  BY <1>8 DEF Power!wvars
<1> QED
  BY <1>1, <1>2, <1>3, <1>4, <1>5, <1>6, <1>7, <1>8 DEF Power!Next

LEMMA ChangesHold ==
  ASSUME PowerInvariant, [Power!Next]_(Power!wvars), "main" \notin Transfers
  PROVE  ChangesAreTold'
<1> USE DEF PowerInvariant, PowerShapes, NobodyWorks, MainWaits, ChangesAreTold, Coming,
        Power!report, Power!settings, Power!assertions, Power!Callers
<1>1. ASSUME NEW d \in Transfers, Power!Park(d) \/ Power!Release(d) \/ Power!Count(d)
      PROVE  ChangesAreTold'
  BY <1>1 DEF Power!Park, Power!Release, Power!Count, Power!Desired
<1>2. ASSUME NEW d \in Transfers, Power!Store(d) PROVE ChangesAreTold'
  BY <1>2 DEF Power!Store
<1>3. CASE Power!Activate \/ Power!PreferSecond \/ Power!Prefer
  BY <1>3 DEF Power!Activate, Power!PreferSecond, Power!Prefer
<1>4. ASSUME NEW c \in Power!Callers, Power!Ensure(c) PROVE ChangesAreTold'
  BY <1>4 DEF Power!Ensure, Power!Desired
<1>5. ASSUME NEW c \in Power!Callers, Power!Restart(c) PROVE ChangesAreTold'
  BY <1>5 DEF Power!Restart, Power!Desired
<1>6. ASSUME NEW c \in Power!Callers, Power!Send(c) PROVE ChangesAreTold'
  BY <1>6 DEF Power!Send, Power!Desired, Power!Unlocked
<1>7. CASE Power!Take
  BY <1>7 DEF Power!Take, Power!Desired
<1>8. CASE Power!Apply
  <2>1. /\ believed' = held' /\ goal'.command = "none" /\ commands' = commands
        /\ UNCHANGED <<active, wanted, enabled>>
        /\ ~owed' => believed' = goal.want
    BY <1>8 DEF Power!Apply, Power!Together
  <2>2. goal.command # "none" /\ \A c \in Power!Callers :
          call[c] \in {"second", "ensure", "send"} => call'[c] = call[c]
    BY <1>8 DEF Power!Apply, Power!Answered
  <2> QED
    BY <2>1, <2>2 DEF Power!Desired
<1>9. CASE Power!Die \/ Power!End
  BY <1>9 DEF Power!Die, Power!End
<1>10. CASE UNCHANGED Power!wvars
  BY <1>10 DEF Power!wvars, Power!Desired
<1> QED
  BY <1>1, <1>2, <1>3, <1>4, <1>5, <1>6, <1>7, <1>8, <1>9, <1>10 DEF Power!Next

\* Nothing counts as nothing.
LEMMA EmptyCount == Power!Cardinality({}) = 0
BY DEF Power!Cardinality

\* The invariant is inductive and implies what is promised of the assertions.
LEMMA InitPower == Power!Init => PowerInvariant
<1> SUFFICES ASSUME Power!Init PROVE PowerInvariant
  OBVIOUS
<1> USE DEF Power!Init, Power!Quiet, Power!Nothing
<1>1. PowerShapes
  <2>1. Power!Quiet \in Report
    BY DEF Report, Counts
  <2>2. [command |-> "none", want |-> Power!Nothing]
          \in [command : {"none", "tell", "ask"}, want : Power!Sleep]
    BY DEF Power!Sleep
  <2>3. wanted \in Power!Sleep /\ choice \in Power!Sleep
    BY DEF Power!Sleep
  <2> HIDE DEF Power!Quiet
  <2>4. sync \in [Transfers -> Report]
    BY <2>1
  <2>5. <<>> \in Seq({"tell", "ask"}) /\ {} \in SUBSET Transfers
    OBVIOUS
  <2>6. goal \in [command : {"none", "tell", "ask"}, want : Power!Sleep]
    BY <2>2
  <2> HIDE DEF Power!Nothing
  <2> QED
    BY <2>3, <2>4, <2>5, <2>6 DEF PowerShapes
<1>2. CountsAreOrdered /\ LatestIsTrue
  BY EmptyCount DEF CountsAreOrdered, LatestIsTrue, Latest
<1>3. NobodyWorks /\ MainWaits /\ ChangesAreTold
  BY DEF NobodyWorks, MainWaits, ChangesAreTold
<1> QED
  BY <1>1, <1>2, <1>3 DEF PowerInvariant

LEMMA NextPower ==
  ASSUME "main" \notin Transfers, PowerInvariant, [Power!Next]_(Power!wvars)
  PROVE  PowerInvariant'
BY PowerShapesHold, ReportsHold, WorkersHold, ChangesHold DEF PowerInvariant

\* What the invariant says of the properties of the component.
LEMMA PowerSafety ==
  PowerInvariant => Power!CountFollowsPermits /\ Power!SleepFollowsTransfers
<1> SUFFICES ASSUME PowerInvariant PROVE Power!CountFollowsPermits /\ Power!SleepFollowsTransfers
  OBVIOUS
<1>1. Power!CountFollowsPermits
  <2> SUFFICES ASSUME \A d \in Transfers : sync[d].step = "none"
               PROVE  active = Power!Cardinality(permits) \/ overtaken
    BY DEF Power!CountFollowsPermits
  <2>1. \A d \in Transfers : sync[d].step # "count" /\ ~Latest(d)
    BY DEF Latest
  <2> QED
    BY <2>1 DEF PowerInvariant, PowerShapes, LatestIsTrue
<1>2. Power!SleepFollowsTransfers
  BY DEF PowerInvariant, ChangesAreTold, Coming, Power!SleepFollowsTransfers, Power!Settled
<1> QED
  BY <1>1, <1>2

\* Once the reports are in, the worker reads the number of permits, unless the last report had been
\* overtaken; once all is quiet the computer is kept awake exactly when a transfer is active and the
\* preferences ask for it, unless a request failed since the last that succeeded
\* (CountFollowsPermits, SleepFollowsTransfers).
THEOREM SleepFollows ==
  ASSUME "main" \notin Transfers
  PROVE  Power!Spec => [](Power!CountFollowsPermits /\ Power!SleepFollowsTransfers)
<1>1. Power!Init => PowerInvariant
  BY InitPower
<1>2. PowerInvariant /\ [Power!Next]_(Power!wvars) => PowerInvariant'
  BY NextPower
<1> QED
  BY <1>1, <1>2, PowerSafety, PTL DEF Power!Spec

-----------------------------------------------------------------------------
(* The run of a media download.                                            *)

\* What the variables of a run may hold.
CookieShapes ==
  /\ setup \in [browser : BOOLEAN, file : BOOLEAN]
  /\ runCookies \in [use : {"browser", "file", "none"}, fell : BOOLEAN, fileFell : BOOLEAN]

CountShapes == strike \in 0 .. MaxStrikes /\ attempts \in Nat

RunnerShapes ==
  /\ runStep \in {"idle", "ready", "watch", "grace", "kill", "drain", "unconfirmed", "decide",
               "clean", "wipe", "backoff", "publish", "finish", "reconcile"}
  /\ reason \in Runner!Reasons \cup {"none", "spawn"}
  /\ result \in Runner!Results /\ outcome \in Runner!Results

ChildShapes ==
  /\ proc \in {"none", "live", "zero", "nonzero", "killed"}
  /\ event \in {"none", "zero", "nonzero", "error"}
  /\ pausing \in {"no", "waiting", "acked"}
  /\ row \in {"active", "retrying", "processing", "paused", "completed", "failed"}
  /\ output \in {"none", "growing", "whole"}

FlagShapes ==
  /\ processing \in BOOLEAN /\ stray \in BOOLEAN /\ cancel \in BOOLEAN /\ owned \in BOOLEAN
  /\ broken \in BOOLEAN /\ unseen \in BOOLEAN /\ torn \in BOOLEAN

RunShapes == CookieShapes /\ CountShapes /\ RunnerShapes /\ ChildShapes /\ FlagShapes

Over == {"publish", "finish", "reconcile"}

\* An event is that of the process, unless the stream broke.
EventsAreTrue ==
  /\ event = "zero" => proc = "zero"
  /\ event = "nonzero" => proc \in {"nonzero", "killed"}
  /\ event = "error" => broken

\* Where the runner lets go of a process that may live its stream broke.
ProcessIsHeld ==
  /\ Runner!ProcessIsWatched
  /\ runStep = "ready" => proc = "none"
  /\ runStep \in {"drain", "wipe"} => proc # "live"
  /\ runStep \in {"decide", "backoff", "clean"} /\ proc = "live" => broken

\* A run owns its download to the end, unless a pause releases it after the acknowledgement.
RunOwns ==
  /\ runStep \notin {"idle", "reconcile"} => owned
  /\ runStep = "idle" => ~owned
  /\ runStep = "reconcile" /\ ~owned => result = "cancelled" /\ row = "paused"

\* Whatever ends a run early was asked for by a pause, which waits for its end.
PauseIsHeard ==
  /\ runStep \in {"grace", "kill", "drain", "unconfirmed", "wipe"} \/ result = "cancelled" => cancel
  /\ cancel /\ runStep \notin {"idle", "reconcile"} => pausing = "waiting"
  /\ pausing = "waiting" => runStep \notin {"idle", "reconcile"}
  /\ pausing = "acked" => runStep \in {"idle", "reconcile"}
  /\ runStep = "reconcile" /\ result = "cancelled" /\ owned => pausing = "acked"

\* The outcome on record is the result, and at the end the row shows it.
OutcomeIsResult ==
  /\ result # "none" <=> runStep \in Over
  /\ runStep \in {"finish", "reconcile"} => outcome = result
  /\ row = "completed" => runStep = "idle" /\ output = "whole" /\ outcome = "ok"
  /\ runStep = "idle" => \/ row \in {"paused", "completed", "failed"}
                         \/ pausing = "acked" /\ outcome = "cancelled"

\* A process that ended well left the whole output, and that is the result unless nobody saw it.
SuccessIsSeen ==
  /\ unseen => runStep \in Over \cup {"wipe", "idle"}
  /\ proc = "zero" => output = "whole" \/ unseen
  /\ result = "ok" => output = "whole"
  /\ runStep = "wipe" /\ proc = "zero" => unseen
  /\ proc = "zero" /\ ~unseen /\ ~broken =>
       /\ runStep \in Over => result = "ok"
       /\ runStep = "idle" => row = "completed"

\* Each attempt has a retry or a fallback of its own, after the first.
Fallbacks ==
  (IF runCookies.fell THEN 1 ELSE 0) + IF runCookies.fell /\ ~runCookies.fileFell THEN 1 ELSE 0
TriesAreCounted ==
  /\ runCookies.fileFell => runCookies.fell
  /\ runStep = "decide" /\ reason = "browser" => runCookies.use = "browser"
  /\ runStep = "backoff" => strike < MaxStrikes
  /\ runStep = "clean" \/ result = "failed" =>
       /\ reason = "transient" => strike = MaxStrikes
       /\ reason = "browser" => runCookies.fell
  /\ attempts <= strike + Fallbacks + IF runStep \in {"idle", "ready"} THEN 0 ELSE 1

RunInvariant ==
  /\ RunShapes /\ EventsAreTrue /\ ProcessIsHeld /\ RunOwns /\ PauseIsHeard
  /\ OutcomeIsResult /\ SuccessIsSeen /\ TriesAreCounted /\ Runner!CleanupIsSafe
\* What an attempt is to send is chosen by a run's start and by the two fallbacks.
LEMMA NextCookieShapes ==
  ASSUME MaxStrikes \in Nat, RunInvariant, [Runner!Next]_(Runner!mvars)
  PROVE  CookieShapes'
<1> USE DEF RunInvariant, RunShapes, CookieShapes, Runner!attempt, Runner!child, Runner!control,
   Runner!files, Runner!counts
<1>1. CASE Runner!Write
  BY <1>1 DEF Runner!Write
<1>2. CASE Runner!Exit
  BY <1>2 DEF Runner!Exit
<1>3. CASE Runner!Report \/ Runner!Break \/ Runner!StrayDies
  BY <1>3 DEF Runner!Report, Runner!Break, Runner!StrayDies
<1>4. CASE Runner!Start
  BY <1>4 DEF Runner!Start, Runner!Fresh, Runner!FirstCookies
<1>5. CASE Runner!Attempt
  BY <1>5 DEF Runner!Attempt, Runner!Return
<1>6. CASE Runner!Watch
  BY <1>6 DEF Runner!Watch, Runner!Return, Runner!Failures
<1>7. CASE Runner!Grace
  BY <1>7 DEF Runner!Grace, Runner!Return, Runner!Stopped
<1>8. CASE Runner!Kill
  BY <1>8 DEF Runner!Kill
<1>9. CASE Runner!Drain
  BY <1>9 DEF Runner!Drain, Runner!Return, Runner!Stopped
<1>10. CASE Runner!Unconfirmed
  BY <1>10 DEF Runner!Unconfirmed, Runner!Return, Runner!Stopped
<1>11. CASE Runner!Decide
  <2> USE <1>11 DEF Runner!Decide
  <2>1. CASE Runner!BrowserFallback
    <3>1. PICK usable \in BOOLEAN : runCookies' = [use |-> IF usable THEN "file" ELSE "none",
                                             fell |-> TRUE, fileFell |-> usable]
      BY <2>1, Zenon DEF Runner!FallbackCookies
    <3> QED
      BY <2>1, <3>1 DEF Runner!BrowserFallback, Runner!Drop
  <2>2. CASE ~Runner!BrowserFallback /\ Runner!FileFallback
    BY <2>2 DEF Runner!FileFallback, Runner!Drop
  <2>3. CASE ~Runner!BrowserFallback /\ ~Runner!FileFallback
    BY <2>3 DEF Runner!BrowserFallback, Runner!FileFallback, Runner!Retriable
  <2> QED
    BY <2>1, <2>2, <2>3
<1>12. CASE Runner!Backoff
  BY <1>12 DEF Runner!Backoff, Runner!Waited, Runner!Aborted, Runner!Return, Runner!Drop
<1>13. CASE Runner!Clean
  BY <1>13 DEF Runner!Clean, Runner!Delete, Runner!AllOurs, Runner!Return, Runner!Drop
<1>14. CASE Runner!Wipe
  BY <1>14 DEF Runner!Wipe, Runner!Delete, Runner!AllOurs, Runner!Return
<1>15. CASE Runner!Publish \/ Runner!Finish
  BY <1>15 DEF Runner!Publish, Runner!Finish
<1>16. CASE Runner!Reconcile
  BY <1>16 DEF Runner!Reconcile, Runner!Fresh, Runner!FirstCookies
<1>17. CASE Runner!Pause \/ Runner!FinishPause
  BY <1>17 DEF Runner!Pause, Runner!FinishPause
<1>18. CASE UNCHANGED Runner!mvars
  BY <1>18 DEF Runner!mvars
<1> QED
  BY <1>1, <1>2, <1>3, <1>4, <1>5, <1>6, <1>7, <1>8, <1>9, <1>10, <1>11, <1>12, <1>13, <1>14,
     <1>15, <1>16, <1>17, <1>18 DEF Runner!Next

\* A strike is added only below the limit: that is why the runner waits.
LEMMA NextCountShapes ==
  ASSUME MaxStrikes \in Nat, RunInvariant, [Runner!Next]_(Runner!mvars)
  PROVE  CountShapes'
<1> USE DEF RunInvariant, RunShapes, CountShapes, TriesAreCounted, Runner!attempt, Runner!child,
   Runner!control, Runner!files, Runner!counts
<1>1. CASE Runner!Write
  BY <1>1 DEF Runner!Write
<1>2. CASE Runner!Exit
  BY <1>2 DEF Runner!Exit
<1>3. CASE Runner!Report \/ Runner!Break \/ Runner!StrayDies
  BY <1>3 DEF Runner!Report, Runner!Break, Runner!StrayDies
<1>4. CASE Runner!Start
  BY <1>4 DEF Runner!Start, Runner!Fresh, Runner!FirstCookies
<1>5. CASE Runner!Attempt
  BY <1>5 DEF Runner!Attempt, Runner!Return
<1>6. CASE Runner!Watch
  BY <1>6 DEF Runner!Watch, Runner!Return, Runner!Failures
<1>7. CASE Runner!Grace
  BY <1>7 DEF Runner!Grace, Runner!Return, Runner!Stopped
<1>8. CASE Runner!Kill
  BY <1>8 DEF Runner!Kill
<1>9. CASE Runner!Drain
  BY <1>9 DEF Runner!Drain, Runner!Return, Runner!Stopped
<1>10. CASE Runner!Unconfirmed
  BY <1>10 DEF Runner!Unconfirmed, Runner!Return, Runner!Stopped
<1>11. CASE Runner!Decide
  <2> USE <1>11 DEF Runner!Decide
  <2>1. CASE Runner!BrowserFallback
    <3>1. PICK usable \in BOOLEAN : runCookies' = [use |-> IF usable THEN "file" ELSE "none",
                                             fell |-> TRUE, fileFell |-> usable]
      BY <2>1, Zenon DEF Runner!FallbackCookies
    <3> QED
      BY <2>1, <3>1 DEF Runner!BrowserFallback, Runner!Drop
  <2>2. CASE ~Runner!BrowserFallback /\ Runner!FileFallback
    BY <2>2 DEF Runner!FileFallback, Runner!Drop
  <2>3. CASE ~Runner!BrowserFallback /\ ~Runner!FileFallback
    BY <2>3 DEF Runner!BrowserFallback, Runner!FileFallback, Runner!Retriable
  <2> QED
    BY <2>1, <2>2, <2>3
<1>12. CASE Runner!Backoff
  BY <1>12 DEF Runner!Backoff, Runner!Waited, Runner!Aborted, Runner!Return, Runner!Drop
<1>13. CASE Runner!Clean
  BY <1>13 DEF Runner!Clean, Runner!Delete, Runner!AllOurs, Runner!Return, Runner!Drop
<1>14. CASE Runner!Wipe
  BY <1>14 DEF Runner!Wipe, Runner!Delete, Runner!AllOurs, Runner!Return
<1>15. CASE Runner!Publish \/ Runner!Finish
  BY <1>15 DEF Runner!Publish, Runner!Finish
<1>16. CASE Runner!Reconcile
  BY <1>16 DEF Runner!Reconcile, Runner!Fresh, Runner!FirstCookies
<1>17. CASE Runner!Pause \/ Runner!FinishPause
  BY <1>17 DEF Runner!Pause, Runner!FinishPause
<1>18. CASE UNCHANGED Runner!mvars
  BY <1>18 DEF Runner!mvars
<1> QED
  BY <1>1, <1>2, <1>3, <1>4, <1>5, <1>6, <1>7, <1>8, <1>9, <1>10, <1>11, <1>12, <1>13, <1>14,
     <1>15, <1>16, <1>17, <1>18 DEF Runner!Next

\* The runner's step, its reasons and its results keep their types.
LEMMA NextRunnerShapes ==
  ASSUME MaxStrikes \in Nat, RunInvariant, [Runner!Next]_(Runner!mvars)
  PROVE  RunnerShapes'
<1> USE DEF RunInvariant, RunShapes, CookieShapes, RunnerShapes, Runner!attempt, Runner!child,
   Runner!control, Runner!files, Runner!counts, Runner!Reasons, Runner!Results
<1>1. CASE Runner!Write
  BY <1>1 DEF Runner!Write
<1>2. CASE Runner!Exit
  BY <1>2 DEF Runner!Exit
<1>3. CASE Runner!Report \/ Runner!Break \/ Runner!StrayDies
  BY <1>3 DEF Runner!Report, Runner!Break, Runner!StrayDies
<1>4. CASE Runner!Start
  BY <1>4 DEF Runner!Start, Runner!Fresh, Runner!FirstCookies
<1>5. CASE Runner!Attempt
  BY <1>5 DEF Runner!Attempt, Runner!Return
<1>6. CASE Runner!Watch
  BY <1>6 DEF Runner!Watch, Runner!Return, Runner!Failures
<1>7. CASE Runner!Grace
  BY <1>7 DEF Runner!Grace, Runner!Return, Runner!Stopped
<1>8. CASE Runner!Kill
  BY <1>8 DEF Runner!Kill
<1>9. CASE Runner!Drain
  BY <1>9 DEF Runner!Drain, Runner!Return, Runner!Stopped
<1>10. CASE Runner!Unconfirmed
  BY <1>10 DEF Runner!Unconfirmed, Runner!Return, Runner!Stopped
<1>11. CASE Runner!Decide
  <2> USE <1>11 DEF Runner!Decide
  <2>1. CASE Runner!BrowserFallback
    <3>1. PICK usable \in BOOLEAN : runCookies' = [use |-> IF usable THEN "file" ELSE "none",
                                             fell |-> TRUE, fileFell |-> usable]
      BY <2>1, Zenon DEF Runner!FallbackCookies
    <3> QED
      BY <2>1, <3>1 DEF Runner!BrowserFallback, Runner!Drop
  <2>2. CASE ~Runner!BrowserFallback /\ Runner!FileFallback
    BY <2>2 DEF Runner!FileFallback, Runner!Drop
  <2>3. CASE ~Runner!BrowserFallback /\ ~Runner!FileFallback
    BY <2>3 DEF Runner!BrowserFallback, Runner!FileFallback, Runner!Retriable
  <2> QED
    BY <2>1, <2>2, <2>3
<1>12. CASE Runner!Backoff
  BY <1>12 DEF Runner!Backoff, Runner!Waited, Runner!Aborted, Runner!Return, Runner!Drop
<1>13. CASE Runner!Clean
  BY <1>13 DEF Runner!Clean, Runner!Delete, Runner!AllOurs, Runner!Return, Runner!Drop
<1>14. CASE Runner!Wipe
  BY <1>14 DEF Runner!Wipe, Runner!Delete, Runner!AllOurs, Runner!Return
<1>15. CASE Runner!Publish \/ Runner!Finish
  BY <1>15 DEF Runner!Publish, Runner!Finish
<1>16. CASE Runner!Reconcile
  BY <1>16 DEF Runner!Reconcile, Runner!Fresh, Runner!FirstCookies
<1>17. CASE Runner!Pause \/ Runner!FinishPause
  BY <1>17 DEF Runner!Pause, Runner!FinishPause
<1>18. CASE UNCHANGED Runner!mvars
  BY <1>18 DEF Runner!mvars
<1> QED
  BY <1>1, <1>2, <1>3, <1>4, <1>5, <1>6, <1>7, <1>8, <1>9, <1>10, <1>11, <1>12, <1>13, <1>14,
     <1>15, <1>16, <1>17, <1>18 DEF Runner!Next

\* So do the process, its events, the pause, the row and the output.
LEMMA NextChildShapes ==
  ASSUME MaxStrikes \in Nat, RunInvariant, [Runner!Next]_(Runner!mvars)
  PROVE  ChildShapes'
<1> USE DEF RunInvariant, RunShapes, ChildShapes, Runner!attempt, Runner!child, Runner!control,
   Runner!files, Runner!counts
<1>1. CASE Runner!Write
  BY <1>1 DEF Runner!Write
<1>2. CASE Runner!Exit
  BY <1>2 DEF Runner!Exit
<1>3. CASE Runner!Report \/ Runner!Break \/ Runner!StrayDies
  BY <1>3 DEF Runner!Report, Runner!Break, Runner!StrayDies
<1>4. CASE Runner!Start
  BY <1>4 DEF Runner!Start, Runner!Fresh, Runner!FirstCookies
<1>5. CASE Runner!Attempt
  BY <1>5 DEF Runner!Attempt, Runner!Return
<1>6. CASE Runner!Watch
  BY <1>6 DEF Runner!Watch, Runner!Return, Runner!Failures
<1>7. CASE Runner!Grace
  BY <1>7 DEF Runner!Grace, Runner!Return, Runner!Stopped
<1>8. CASE Runner!Kill
  BY <1>8 DEF Runner!Kill
<1>9. CASE Runner!Drain
  BY <1>9 DEF Runner!Drain, Runner!Return, Runner!Stopped
<1>10. CASE Runner!Unconfirmed
  BY <1>10 DEF Runner!Unconfirmed, Runner!Return, Runner!Stopped
<1>11. CASE Runner!Decide
  <2> USE <1>11 DEF Runner!Decide
  <2>1. CASE Runner!BrowserFallback
    <3>1. PICK usable \in BOOLEAN : runCookies' = [use |-> IF usable THEN "file" ELSE "none",
                                             fell |-> TRUE, fileFell |-> usable]
      BY <2>1, Zenon DEF Runner!FallbackCookies
    <3> QED
      BY <2>1, <3>1 DEF Runner!BrowserFallback, Runner!Drop
  <2>2. CASE ~Runner!BrowserFallback /\ Runner!FileFallback
    BY <2>2 DEF Runner!FileFallback, Runner!Drop
  <2>3. CASE ~Runner!BrowserFallback /\ ~Runner!FileFallback
    BY <2>3 DEF Runner!BrowserFallback, Runner!FileFallback, Runner!Retriable
  <2> QED
    BY <2>1, <2>2, <2>3
<1>12. CASE Runner!Backoff
  BY <1>12 DEF Runner!Backoff, Runner!Waited, Runner!Aborted, Runner!Return, Runner!Drop
<1>13. CASE Runner!Clean
  BY <1>13 DEF Runner!Clean, Runner!Delete, Runner!AllOurs, Runner!Return, Runner!Drop
<1>14. CASE Runner!Wipe
  BY <1>14 DEF Runner!Wipe, Runner!Delete, Runner!AllOurs, Runner!Return
<1>15. CASE Runner!Publish \/ Runner!Finish
  BY <1>15 DEF Runner!Publish, Runner!Finish
<1>16. CASE Runner!Reconcile
  BY <1>16 DEF Runner!Reconcile, Runner!Fresh, Runner!FirstCookies
<1>17. CASE Runner!Pause \/ Runner!FinishPause
  BY <1>17 DEF Runner!Pause, Runner!FinishPause
<1>18. CASE UNCHANGED Runner!mvars
  BY <1>18 DEF Runner!mvars
<1> QED
  BY <1>1, <1>2, <1>3, <1>4, <1>5, <1>6, <1>7, <1>8, <1>9, <1>10, <1>11, <1>12, <1>13, <1>14,
     <1>15, <1>16, <1>17, <1>18 DEF Runner!Next

\* And so does every flag.
LEMMA NextFlagShapes ==
  ASSUME MaxStrikes \in Nat, RunInvariant, [Runner!Next]_(Runner!mvars)
  PROVE  FlagShapes'
<1> USE DEF RunInvariant, RunShapes, FlagShapes, Runner!attempt, Runner!child, Runner!control,
   Runner!files, Runner!counts
<1>1. CASE Runner!Write
  BY <1>1 DEF Runner!Write
<1>2. CASE Runner!Exit
  BY <1>2 DEF Runner!Exit
<1>3. CASE Runner!Report \/ Runner!Break \/ Runner!StrayDies
  BY <1>3 DEF Runner!Report, Runner!Break, Runner!StrayDies
<1>4. CASE Runner!Start
  BY <1>4 DEF Runner!Start, Runner!Fresh, Runner!FirstCookies
<1>5. CASE Runner!Attempt
  BY <1>5 DEF Runner!Attempt, Runner!Return
<1>6. CASE Runner!Watch
  BY <1>6 DEF Runner!Watch, Runner!Return, Runner!Failures
<1>7. CASE Runner!Grace
  BY <1>7 DEF Runner!Grace, Runner!Return, Runner!Stopped
<1>8. CASE Runner!Kill
  BY <1>8 DEF Runner!Kill
<1>9. CASE Runner!Drain
  BY <1>9 DEF Runner!Drain, Runner!Return, Runner!Stopped
<1>10. CASE Runner!Unconfirmed
  BY <1>10 DEF Runner!Unconfirmed, Runner!Return, Runner!Stopped
<1>11. CASE Runner!Decide
  <2> USE <1>11 DEF Runner!Decide
  <2>1. CASE Runner!BrowserFallback
    <3>1. PICK usable \in BOOLEAN : runCookies' = [use |-> IF usable THEN "file" ELSE "none",
                                             fell |-> TRUE, fileFell |-> usable]
      BY <2>1, Zenon DEF Runner!FallbackCookies
    <3> QED
      BY <2>1, <3>1 DEF Runner!BrowserFallback, Runner!Drop
  <2>2. CASE ~Runner!BrowserFallback /\ Runner!FileFallback
    BY <2>2 DEF Runner!FileFallback, Runner!Drop
  <2>3. CASE ~Runner!BrowserFallback /\ ~Runner!FileFallback
    BY <2>3 DEF Runner!BrowserFallback, Runner!FileFallback, Runner!Retriable
  <2> QED
    BY <2>1, <2>2, <2>3
<1>12. CASE Runner!Backoff
  BY <1>12 DEF Runner!Backoff, Runner!Waited, Runner!Aborted, Runner!Return, Runner!Drop
<1>13. CASE Runner!Clean
  BY <1>13 DEF Runner!Clean, Runner!Delete, Runner!AllOurs, Runner!Return, Runner!Drop
<1>14. CASE Runner!Wipe
  BY <1>14 DEF Runner!Wipe, Runner!Delete, Runner!AllOurs, Runner!Return
<1>15. CASE Runner!Publish \/ Runner!Finish
  BY <1>15 DEF Runner!Publish, Runner!Finish
<1>16. CASE Runner!Reconcile
  BY <1>16 DEF Runner!Reconcile, Runner!Fresh, Runner!FirstCookies
<1>17. CASE Runner!Pause \/ Runner!FinishPause
  BY <1>17 DEF Runner!Pause, Runner!FinishPause
<1>18. CASE UNCHANGED Runner!mvars
  BY <1>18 DEF Runner!mvars
<1> QED
  BY <1>1, <1>2, <1>3, <1>4, <1>5, <1>6, <1>7, <1>8, <1>9, <1>10, <1>11, <1>12, <1>13, <1>14,
     <1>15, <1>16, <1>17, <1>18 DEF Runner!Next

\* The runner takes an event before the process it is about can be replaced.
LEMMA NextEventsAreTrue ==
  ASSUME MaxStrikes \in Nat, RunInvariant, [Runner!Next]_(Runner!mvars)
  PROVE  EventsAreTrue'
<1> USE DEF RunInvariant, EventsAreTrue, RunShapes, Runner!attempt, Runner!child, Runner!control,
   Runner!files, Runner!counts, RunnerShapes, ChildShapes, FlagShapes
<1>1. CASE Runner!Write
  BY <1>1 DEF Runner!Write
<1>2. CASE Runner!Exit
  BY <1>2 DEF Runner!Exit
<1>3. CASE Runner!Report \/ Runner!Break \/ Runner!StrayDies
  BY <1>3 DEF Runner!Report, Runner!Break, Runner!StrayDies
<1>4. CASE Runner!Start
  BY <1>4 DEF Runner!Start, Runner!Fresh, Runner!FirstCookies
<1>5. CASE Runner!Attempt
  BY <1>5 DEF Runner!Attempt, Runner!Return
<1>6. CASE Runner!Watch
  BY <1>6 DEF Runner!Watch, Runner!Return, Runner!Failures
<1>7. CASE Runner!Grace
  BY <1>7 DEF Runner!Grace, Runner!Return, Runner!Stopped
<1>8. CASE Runner!Kill
  BY <1>8 DEF Runner!Kill
<1>9. CASE Runner!Drain
  BY <1>9 DEF Runner!Drain, Runner!Return, Runner!Stopped
<1>10. CASE Runner!Unconfirmed
  BY <1>10 DEF Runner!Unconfirmed, Runner!Return, Runner!Stopped
<1>11. CASE Runner!Decide
  <2> USE <1>11 DEF Runner!Decide
  <2>1. CASE Runner!BrowserFallback
    <3>1. PICK usable \in BOOLEAN : runCookies' = [use |-> IF usable THEN "file" ELSE "none",
                                             fell |-> TRUE, fileFell |-> usable]
      BY <2>1, Zenon DEF Runner!FallbackCookies
    <3> QED
      BY <2>1, <3>1 DEF Runner!BrowserFallback, Runner!Drop
  <2>2. CASE ~Runner!BrowserFallback /\ Runner!FileFallback
    BY <2>2 DEF Runner!FileFallback, Runner!Drop
  <2>3. CASE ~Runner!BrowserFallback /\ ~Runner!FileFallback
    BY <2>3 DEF Runner!BrowserFallback, Runner!FileFallback, Runner!Retriable
  <2> QED
    BY <2>1, <2>2, <2>3
<1>12. CASE Runner!Backoff
  BY <1>12 DEF Runner!Backoff, Runner!Waited, Runner!Aborted, Runner!Return, Runner!Drop
<1>13. CASE Runner!Clean
  BY <1>13 DEF Runner!Clean, Runner!Delete, Runner!AllOurs, Runner!Return, Runner!Drop
<1>14. CASE Runner!Wipe
  BY <1>14 DEF Runner!Wipe, Runner!Delete, Runner!AllOurs, Runner!Return
<1>15. CASE Runner!Publish \/ Runner!Finish
  BY <1>15 DEF Runner!Publish, Runner!Finish
<1>16. CASE Runner!Reconcile
  BY <1>16 DEF Runner!Reconcile, Runner!Fresh, Runner!FirstCookies
<1>17. CASE Runner!Pause \/ Runner!FinishPause
  BY <1>17 DEF Runner!Pause, Runner!FinishPause
<1>18. CASE UNCHANGED Runner!mvars
  BY <1>18 DEF Runner!mvars
<1> QED
  BY <1>1, <1>2, <1>3, <1>4, <1>5, <1>6, <1>7, <1>8, <1>9, <1>10, <1>11, <1>12, <1>13, <1>14,
     <1>15, <1>16, <1>17, <1>18 DEF Runner!Next

\* The runner goes on without its process only after a kill it waited for, a reported exit or a
\* broken stream.
LEMMA NextProcessIsHeld ==
  ASSUME MaxStrikes \in Nat, RunInvariant, [Runner!Next]_(Runner!mvars)
  PROVE  ProcessIsHeld'
<1> USE DEF RunInvariant, ProcessIsHeld, RunShapes, EventsAreTrue, RunOwns, PauseIsHeard,
   Runner!ProcessIsWatched, Runner!attempt, Runner!child, Runner!control, Runner!files,
   Runner!counts, RunnerShapes, ChildShapes, FlagShapes
<1>1. CASE Runner!Write
  BY <1>1 DEF Runner!Write
<1>2. CASE Runner!Exit
  BY <1>2 DEF Runner!Exit
<1>3. CASE Runner!Report \/ Runner!Break \/ Runner!StrayDies
  BY <1>3 DEF Runner!Report, Runner!Break, Runner!StrayDies
<1>4. CASE Runner!Start
  BY <1>4 DEF Runner!Start, Runner!Fresh, Runner!FirstCookies
<1>5. CASE Runner!Attempt
  BY <1>5 DEF Runner!Attempt, Runner!Return
<1>6. CASE Runner!Watch
  BY <1>6 DEF Runner!Watch, Runner!Return, Runner!Failures
<1>7. CASE Runner!Grace
  BY <1>7 DEF Runner!Grace, Runner!Return, Runner!Stopped
<1>8. CASE Runner!Kill
  BY <1>8 DEF Runner!Kill
<1>9. CASE Runner!Drain
  BY <1>9 DEF Runner!Drain, Runner!Return, Runner!Stopped
<1>10. CASE Runner!Unconfirmed
  BY <1>10 DEF Runner!Unconfirmed, Runner!Return, Runner!Stopped
<1>11. CASE Runner!Decide
  <2> USE <1>11 DEF Runner!Decide
  <2>1. CASE Runner!BrowserFallback
    <3>1. PICK usable \in BOOLEAN : runCookies' = [use |-> IF usable THEN "file" ELSE "none",
                                             fell |-> TRUE, fileFell |-> usable]
      BY <2>1, Zenon DEF Runner!FallbackCookies
    <3> QED
      BY <2>1, <3>1 DEF Runner!BrowserFallback, Runner!Drop
  <2>2. CASE ~Runner!BrowserFallback /\ Runner!FileFallback
    BY <2>2 DEF Runner!FileFallback, Runner!Drop
  <2>3. CASE ~Runner!BrowserFallback /\ ~Runner!FileFallback
    BY <2>3 DEF Runner!BrowserFallback, Runner!FileFallback, Runner!Retriable
  <2> QED
    BY <2>1, <2>2, <2>3
<1>12. CASE Runner!Backoff
  BY <1>12 DEF Runner!Backoff, Runner!Waited, Runner!Aborted, Runner!Return, Runner!Drop
<1>13. CASE Runner!Clean
  BY <1>13 DEF Runner!Clean, Runner!Delete, Runner!AllOurs, Runner!Return, Runner!Drop
<1>14. CASE Runner!Wipe
  BY <1>14 DEF Runner!Wipe, Runner!Delete, Runner!AllOurs, Runner!Return
<1>15. CASE Runner!Publish \/ Runner!Finish
  BY <1>15 DEF Runner!Publish, Runner!Finish
<1>16. CASE Runner!Reconcile
  BY <1>16 DEF Runner!Reconcile, Runner!Fresh, Runner!FirstCookies
<1>17. CASE Runner!Pause \/ Runner!FinishPause
  BY <1>17 DEF Runner!Pause, Runner!FinishPause
<1>18. CASE UNCHANGED Runner!mvars
  BY <1>18 DEF Runner!mvars
<1> QED
  BY <1>1, <1>2, <1>3, <1>4, <1>5, <1>6, <1>7, <1>8, <1>9, <1>10, <1>11, <1>12, <1>13, <1>14,
     <1>15, <1>16, <1>17, <1>18 DEF Runner!Next

\* Only the pause and the end of the run release the download.
LEMMA NextRunOwns ==
  ASSUME MaxStrikes \in Nat, RunInvariant, [Runner!Next]_(Runner!mvars)
  PROVE  RunOwns'
<1> USE DEF RunInvariant, RunOwns, RunShapes, PauseIsHeard, OutcomeIsResult, Over, Runner!attempt,
   Runner!child, Runner!control, Runner!files, Runner!counts, RunnerShapes, ChildShapes,
   FlagShapes, Runner!Results
<1>1. CASE Runner!Write
  BY <1>1 DEF Runner!Write
<1>2. CASE Runner!Exit
  BY <1>2 DEF Runner!Exit
<1>3. CASE Runner!Report \/ Runner!Break \/ Runner!StrayDies
  BY <1>3 DEF Runner!Report, Runner!Break, Runner!StrayDies
<1>4. CASE Runner!Start
  BY <1>4 DEF Runner!Start, Runner!Fresh, Runner!FirstCookies
<1>5. CASE Runner!Attempt
  BY <1>5 DEF Runner!Attempt, Runner!Return
<1>6. CASE Runner!Watch
  BY <1>6 DEF Runner!Watch, Runner!Return, Runner!Failures
<1>7. CASE Runner!Grace
  BY <1>7 DEF Runner!Grace, Runner!Return, Runner!Stopped
<1>8. CASE Runner!Kill
  BY <1>8 DEF Runner!Kill
<1>9. CASE Runner!Drain
  BY <1>9 DEF Runner!Drain, Runner!Return, Runner!Stopped
<1>10. CASE Runner!Unconfirmed
  BY <1>10 DEF Runner!Unconfirmed, Runner!Return, Runner!Stopped
<1>11. CASE Runner!Decide
  <2> USE <1>11 DEF Runner!Decide
  <2>1. CASE Runner!BrowserFallback
    <3>1. PICK usable \in BOOLEAN : runCookies' = [use |-> IF usable THEN "file" ELSE "none",
                                             fell |-> TRUE, fileFell |-> usable]
      BY <2>1, Zenon DEF Runner!FallbackCookies
    <3> QED
      BY <2>1, <3>1 DEF Runner!BrowserFallback, Runner!Drop
  <2>2. CASE ~Runner!BrowserFallback /\ Runner!FileFallback
    BY <2>2 DEF Runner!FileFallback, Runner!Drop
  <2>3. CASE ~Runner!BrowserFallback /\ ~Runner!FileFallback
    BY <2>3 DEF Runner!BrowserFallback, Runner!FileFallback, Runner!Retriable
  <2> QED
    BY <2>1, <2>2, <2>3
<1>12. CASE Runner!Backoff
  BY <1>12 DEF Runner!Backoff, Runner!Waited, Runner!Aborted, Runner!Return, Runner!Drop
<1>13. CASE Runner!Clean
  BY <1>13 DEF Runner!Clean, Runner!Delete, Runner!AllOurs, Runner!Return, Runner!Drop
<1>14. CASE Runner!Wipe
  BY <1>14 DEF Runner!Wipe, Runner!Delete, Runner!AllOurs, Runner!Return
<1>15. CASE Runner!Publish \/ Runner!Finish
  BY <1>15 DEF Runner!Publish, Runner!Finish
<1>16. CASE Runner!Reconcile
  BY <1>16 DEF Runner!Reconcile, Runner!Fresh, Runner!FirstCookies
<1>17. CASE Runner!Pause \/ Runner!FinishPause
  BY <1>17 DEF Runner!Pause, Runner!FinishPause
<1>18. CASE UNCHANGED Runner!mvars
  BY <1>18 DEF Runner!mvars
<1> QED
  BY <1>1, <1>2, <1>3, <1>4, <1>5, <1>6, <1>7, <1>8, <1>9, <1>10, <1>11, <1>12, <1>13, <1>14,
     <1>15, <1>16, <1>17, <1>18 DEF Runner!Next

\* The coordinator hears of the end between the outcome and the release.
LEMMA NextPauseIsHeard ==
  ASSUME MaxStrikes \in Nat, RunInvariant, [Runner!Next]_(Runner!mvars)
  PROVE  PauseIsHeard'
<1> USE DEF RunInvariant, PauseIsHeard, RunShapes, RunOwns, OutcomeIsResult, Over, Runner!attempt,
   Runner!child, Runner!control, Runner!files, Runner!counts, RunnerShapes, ChildShapes,
   FlagShapes
<1>1. CASE Runner!Write
  BY <1>1 DEF Runner!Write
<1>2. CASE Runner!Exit
  BY <1>2 DEF Runner!Exit
<1>3. CASE Runner!Report \/ Runner!Break \/ Runner!StrayDies
  BY <1>3 DEF Runner!Report, Runner!Break, Runner!StrayDies
<1>4. CASE Runner!Start
  BY <1>4 DEF Runner!Start, Runner!Fresh, Runner!FirstCookies
<1>5. CASE Runner!Attempt
  BY <1>5 DEF Runner!Attempt, Runner!Return
<1>6. CASE Runner!Watch
  BY <1>6 DEF Runner!Watch, Runner!Return, Runner!Failures
<1>7. CASE Runner!Grace
  BY <1>7 DEF Runner!Grace, Runner!Return, Runner!Stopped
<1>8. CASE Runner!Kill
  BY <1>8 DEF Runner!Kill
<1>9. CASE Runner!Drain
  BY <1>9 DEF Runner!Drain, Runner!Return, Runner!Stopped
<1>10. CASE Runner!Unconfirmed
  BY <1>10 DEF Runner!Unconfirmed, Runner!Return, Runner!Stopped
<1>11. CASE Runner!Decide
  <2> USE <1>11 DEF Runner!Decide
  <2>1. CASE Runner!BrowserFallback
    <3>1. PICK usable \in BOOLEAN : runCookies' = [use |-> IF usable THEN "file" ELSE "none",
                                             fell |-> TRUE, fileFell |-> usable]
      BY <2>1, Zenon DEF Runner!FallbackCookies
    <3> QED
      BY <2>1, <3>1 DEF Runner!BrowserFallback, Runner!Drop
  <2>2. CASE ~Runner!BrowserFallback /\ Runner!FileFallback
    BY <2>2 DEF Runner!FileFallback, Runner!Drop
  <2>3. CASE ~Runner!BrowserFallback /\ ~Runner!FileFallback
    BY <2>3 DEF Runner!BrowserFallback, Runner!FileFallback, Runner!Retriable
  <2> QED
    BY <2>1, <2>2, <2>3
<1>12. CASE Runner!Backoff
  BY <1>12 DEF Runner!Backoff, Runner!Waited, Runner!Aborted, Runner!Return, Runner!Drop
<1>13. CASE Runner!Clean
  BY <1>13 DEF Runner!Clean, Runner!Delete, Runner!AllOurs, Runner!Return, Runner!Drop
<1>14. CASE Runner!Wipe
  BY <1>14 DEF Runner!Wipe, Runner!Delete, Runner!AllOurs, Runner!Return
<1>15. CASE Runner!Publish \/ Runner!Finish
  BY <1>15 DEF Runner!Publish, Runner!Finish
<1>16. CASE Runner!Reconcile
  BY <1>16 DEF Runner!Reconcile, Runner!Fresh, Runner!FirstCookies
<1>17. CASE Runner!Pause \/ Runner!FinishPause
  BY <1>17 DEF Runner!Pause, Runner!FinishPause
<1>18. CASE UNCHANGED Runner!mvars
  BY <1>18 DEF Runner!mvars
<1> QED
  BY <1>1, <1>2, <1>3, <1>4, <1>5, <1>6, <1>7, <1>8, <1>9, <1>10, <1>11, <1>12, <1>13, <1>14,
     <1>15, <1>16, <1>17, <1>18 DEF Runner!Next

\* The outcome is written under the lock and shown by the end of the run or by the pause.
LEMMA NextOutcomeIsResult ==
  ASSUME MaxStrikes \in Nat, RunInvariant, [Runner!Next]_(Runner!mvars)
  PROVE  OutcomeIsResult'
<1> USE DEF RunInvariant, OutcomeIsResult, RunShapes, RunOwns, PauseIsHeard, SuccessIsSeen,
   ProcessIsHeld, Runner!ProcessIsWatched, Over, Runner!attempt, Runner!child, Runner!control,
   Runner!files, Runner!counts, RunnerShapes, ChildShapes, FlagShapes, Runner!Results
<1>1. CASE Runner!Write
  BY <1>1 DEF Runner!Write
<1>2. CASE Runner!Exit
  BY <1>2 DEF Runner!Exit
<1>3. CASE Runner!Report \/ Runner!Break \/ Runner!StrayDies
  BY <1>3 DEF Runner!Report, Runner!Break, Runner!StrayDies
<1>4. CASE Runner!Start
  BY <1>4 DEF Runner!Start, Runner!Fresh, Runner!FirstCookies
<1>5. CASE Runner!Attempt
  BY <1>5 DEF Runner!Attempt, Runner!Return
<1>6. CASE Runner!Watch
  BY <1>6 DEF Runner!Watch, Runner!Return, Runner!Failures
<1>7. CASE Runner!Grace
  BY <1>7 DEF Runner!Grace, Runner!Return, Runner!Stopped
<1>8. CASE Runner!Kill
  BY <1>8 DEF Runner!Kill
<1>9. CASE Runner!Drain
  BY <1>9 DEF Runner!Drain, Runner!Return, Runner!Stopped
<1>10. CASE Runner!Unconfirmed
  BY <1>10 DEF Runner!Unconfirmed, Runner!Return, Runner!Stopped
<1>11. CASE Runner!Decide
  <2> USE <1>11 DEF Runner!Decide
  <2>1. CASE Runner!BrowserFallback
    <3>1. PICK usable \in BOOLEAN : runCookies' = [use |-> IF usable THEN "file" ELSE "none",
                                             fell |-> TRUE, fileFell |-> usable]
      BY <2>1, Zenon DEF Runner!FallbackCookies
    <3> QED
      BY <2>1, <3>1 DEF Runner!BrowserFallback, Runner!Drop
  <2>2. CASE ~Runner!BrowserFallback /\ Runner!FileFallback
    BY <2>2 DEF Runner!FileFallback, Runner!Drop
  <2>3. CASE ~Runner!BrowserFallback /\ ~Runner!FileFallback
    BY <2>3 DEF Runner!BrowserFallback, Runner!FileFallback, Runner!Retriable
  <2> QED
    BY <2>1, <2>2, <2>3
<1>12. CASE Runner!Backoff
  BY <1>12 DEF Runner!Backoff, Runner!Waited, Runner!Aborted, Runner!Return, Runner!Drop
<1>13. CASE Runner!Clean
  BY <1>13 DEF Runner!Clean, Runner!Delete, Runner!AllOurs, Runner!Return, Runner!Drop
<1>14. CASE Runner!Wipe
  BY <1>14 DEF Runner!Wipe, Runner!Delete, Runner!AllOurs, Runner!Return
<1>15. CASE Runner!Publish \/ Runner!Finish
  BY <1>15 DEF Runner!Publish, Runner!Finish
<1>16. CASE Runner!Reconcile
  BY <1>16 DEF Runner!Reconcile, Runner!Fresh, Runner!FirstCookies
<1>17. CASE Runner!Pause \/ Runner!FinishPause
  BY <1>17 DEF Runner!Pause, Runner!FinishPause
<1>18. CASE UNCHANGED Runner!mvars
  BY <1>18 DEF Runner!mvars
<1> QED
  BY <1>1, <1>2, <1>3, <1>4, <1>5, <1>6, <1>7, <1>8, <1>9, <1>10, <1>11, <1>12, <1>13, <1>14,
     <1>15, <1>16, <1>17, <1>18 DEF Runner!Next

\* A success that was reported is the result, wherever the cancellation found the runner.
LEMMA NextSuccessIsSeen ==
  ASSUME MaxStrikes \in Nat, RunInvariant, [Runner!Next]_(Runner!mvars)
  PROVE  SuccessIsSeen'
<1> USE DEF RunInvariant, SuccessIsSeen, RunShapes, EventsAreTrue, ProcessIsHeld, RunOwns,
   OutcomeIsResult, Runner!ProcessIsWatched, Over, Runner!attempt, Runner!child, Runner!control,
   Runner!files, Runner!counts, RunnerShapes, ChildShapes, FlagShapes, Runner!Results
<1>1. CASE Runner!Write
  BY <1>1 DEF Runner!Write
<1>2. CASE Runner!Exit
  BY <1>2 DEF Runner!Exit
<1>3. CASE Runner!Report \/ Runner!Break \/ Runner!StrayDies
  BY <1>3 DEF Runner!Report, Runner!Break, Runner!StrayDies
<1>4. CASE Runner!Start
  BY <1>4 DEF Runner!Start, Runner!Fresh, Runner!FirstCookies
<1>5. CASE Runner!Attempt
  BY <1>5 DEF Runner!Attempt, Runner!Return
<1>6. CASE Runner!Watch
  BY <1>6 DEF Runner!Watch, Runner!Return, Runner!Failures
<1>7. CASE Runner!Grace
  BY <1>7 DEF Runner!Grace, Runner!Return, Runner!Stopped
<1>8. CASE Runner!Kill
  BY <1>8 DEF Runner!Kill
<1>9. CASE Runner!Drain
  BY <1>9 DEF Runner!Drain, Runner!Return, Runner!Stopped
<1>10. CASE Runner!Unconfirmed
  BY <1>10 DEF Runner!Unconfirmed, Runner!Return, Runner!Stopped
<1>11. CASE Runner!Decide
  <2> USE <1>11 DEF Runner!Decide
  <2>1. CASE Runner!BrowserFallback
    <3>1. PICK usable \in BOOLEAN : runCookies' = [use |-> IF usable THEN "file" ELSE "none",
                                             fell |-> TRUE, fileFell |-> usable]
      BY <2>1, Zenon DEF Runner!FallbackCookies
    <3> QED
      BY <2>1, <3>1 DEF Runner!BrowserFallback, Runner!Drop
  <2>2. CASE ~Runner!BrowserFallback /\ Runner!FileFallback
    BY <2>2 DEF Runner!FileFallback, Runner!Drop
  <2>3. CASE ~Runner!BrowserFallback /\ ~Runner!FileFallback
    BY <2>3 DEF Runner!BrowserFallback, Runner!FileFallback, Runner!Retriable
  <2> QED
    BY <2>1, <2>2, <2>3
<1>12. CASE Runner!Backoff
  BY <1>12 DEF Runner!Backoff, Runner!Waited, Runner!Aborted, Runner!Return, Runner!Drop
<1>13. CASE Runner!Clean
  BY <1>13 DEF Runner!Clean, Runner!Delete, Runner!AllOurs, Runner!Return, Runner!Drop
<1>14. CASE Runner!Wipe
  BY <1>14 DEF Runner!Wipe, Runner!Delete, Runner!AllOurs, Runner!Return
<1>15. CASE Runner!Publish \/ Runner!Finish
  BY <1>15 DEF Runner!Publish, Runner!Finish
<1>16. CASE Runner!Reconcile
  BY <1>16 DEF Runner!Reconcile, Runner!Fresh, Runner!FirstCookies
<1>17. CASE Runner!Pause \/ Runner!FinishPause
  BY <1>17 DEF Runner!Pause, Runner!FinishPause
<1>18. CASE UNCHANGED Runner!mvars
  BY <1>18 DEF Runner!mvars
<1> QED
  BY <1>1, <1>2, <1>3, <1>4, <1>5, <1>6, <1>7, <1>8, <1>9, <1>10, <1>11, <1>12, <1>13, <1>14,
     <1>15, <1>16, <1>17, <1>18 DEF Runner!Next

\* A new attempt costs a strike or one of the two fallbacks.
LEMMA NextTriesAreCounted ==
  ASSUME MaxStrikes \in Nat, RunInvariant, [Runner!Next]_(Runner!mvars)
  PROVE  TriesAreCounted'
<1> USE DEF RunInvariant, TriesAreCounted, RunShapes, OutcomeIsResult, Fallbacks, Over,
   Runner!attempt, Runner!child, Runner!control, Runner!files, Runner!counts, RunnerShapes,
   ChildShapes, FlagShapes, CountShapes, CookieShapes, Runner!Results, Runner!Reasons
<1>1. CASE Runner!Write
  BY <1>1 DEF Runner!Write
<1>2. CASE Runner!Exit
  BY <1>2 DEF Runner!Exit
<1>3. CASE Runner!Report \/ Runner!Break \/ Runner!StrayDies
  BY <1>3 DEF Runner!Report, Runner!Break, Runner!StrayDies
<1>4. CASE Runner!Start
  BY <1>4 DEF Runner!Start, Runner!Fresh, Runner!FirstCookies
<1>5. CASE Runner!Attempt
  BY <1>5 DEF Runner!Attempt, Runner!Return
<1>6. CASE Runner!Watch
  BY <1>6 DEF Runner!Watch, Runner!Return, Runner!Failures
<1>7. CASE Runner!Grace
  BY <1>7 DEF Runner!Grace, Runner!Return, Runner!Stopped
<1>8. CASE Runner!Kill
  BY <1>8 DEF Runner!Kill
<1>9. CASE Runner!Drain
  BY <1>9 DEF Runner!Drain, Runner!Return, Runner!Stopped
<1>10. CASE Runner!Unconfirmed
  BY <1>10 DEF Runner!Unconfirmed, Runner!Return, Runner!Stopped
<1>11. CASE Runner!Decide
  <2> USE <1>11 DEF Runner!Decide
  <2>1. CASE Runner!BrowserFallback
    <3>1. PICK usable \in BOOLEAN : runCookies' = [use |-> IF usable THEN "file" ELSE "none",
                                             fell |-> TRUE, fileFell |-> usable]
      BY <2>1, Zenon DEF Runner!FallbackCookies
    <3> QED
      BY <2>1, <3>1 DEF Runner!BrowserFallback, Runner!Drop
  <2>2. CASE ~Runner!BrowserFallback /\ Runner!FileFallback
    <3>1. runCookies.fell /\ runCookies.fileFell
      BY <2>2 DEF Runner!FileFallback
    <3>2. runCookies'.fell /\ ~runCookies'.fileFell /\ runCookies'.use = "none"
      BY <2>2, <3>1 DEF Runner!FileFallback
    <3>3. runStep' = "ready" /\ attempts' = attempts /\ strike' = strike /\ result' = "none"
      BY <2>2 DEF Runner!FileFallback
    <3>4. attempts <= strike + 2
      BY <2>2, <3>1
    <3> QED
      BY <3>2, <3>3, <3>4
  <2>3. CASE ~Runner!BrowserFallback /\ ~Runner!FileFallback
    BY <2>3 DEF Runner!BrowserFallback, Runner!FileFallback, Runner!Retriable
  <2> QED
    BY <2>1, <2>2, <2>3
<1>12. CASE Runner!Backoff
  BY <1>12 DEF Runner!Backoff, Runner!Waited, Runner!Aborted, Runner!Return, Runner!Drop
<1>13. CASE Runner!Clean
  BY <1>13 DEF Runner!Clean, Runner!Delete, Runner!AllOurs, Runner!Return, Runner!Drop
<1>14. CASE Runner!Wipe
  BY <1>14 DEF Runner!Wipe, Runner!Delete, Runner!AllOurs, Runner!Return
<1>15. CASE Runner!Publish \/ Runner!Finish
  BY <1>15 DEF Runner!Publish, Runner!Finish
<1>16. CASE Runner!Reconcile
  BY <1>16 DEF Runner!Reconcile, Runner!Fresh, Runner!FirstCookies
<1>17. CASE Runner!Pause \/ Runner!FinishPause
  BY <1>17 DEF Runner!Pause, Runner!FinishPause
<1>18. CASE UNCHANGED Runner!mvars
  BY <1>18 DEF Runner!mvars
<1> QED
  BY <1>1, <1>2, <1>3, <1>4, <1>5, <1>6, <1>7, <1>8, <1>9, <1>10, <1>11, <1>12, <1>13, <1>14,
     <1>15, <1>16, <1>17, <1>18 DEF Runner!Next

\* Files go only when the process is gone, and only if all of them are ours.
LEMMA CleanupStaysSafe ==
  ASSUME MaxStrikes \in Nat, RunInvariant, [Runner!Next]_(Runner!mvars)
  PROVE  Runner!CleanupIsSafe'
<1> USE DEF RunInvariant, Runner!CleanupIsSafe, RunShapes, ProcessIsHeld, Runner!attempt,
   Runner!child, Runner!control, Runner!files, Runner!counts, RunnerShapes, ChildShapes,
   FlagShapes
<1>1. CASE Runner!Write
  BY <1>1 DEF Runner!Write
<1>2. CASE Runner!Exit
  BY <1>2 DEF Runner!Exit
<1>3. CASE Runner!Report \/ Runner!Break \/ Runner!StrayDies
  BY <1>3 DEF Runner!Report, Runner!Break, Runner!StrayDies
<1>4. CASE Runner!Start
  BY <1>4 DEF Runner!Start, Runner!Fresh, Runner!FirstCookies
<1>5. CASE Runner!Attempt
  BY <1>5 DEF Runner!Attempt, Runner!Return
<1>6. CASE Runner!Watch
  BY <1>6 DEF Runner!Watch, Runner!Return, Runner!Failures
<1>7. CASE Runner!Grace
  BY <1>7 DEF Runner!Grace, Runner!Return, Runner!Stopped
<1>8. CASE Runner!Kill
  BY <1>8 DEF Runner!Kill
<1>9. CASE Runner!Drain
  BY <1>9 DEF Runner!Drain, Runner!Return, Runner!Stopped
<1>10. CASE Runner!Unconfirmed
  BY <1>10 DEF Runner!Unconfirmed, Runner!Return, Runner!Stopped
<1>11. CASE Runner!Decide
  <2> USE <1>11 DEF Runner!Decide
  <2>1. CASE Runner!BrowserFallback
    <3>1. PICK usable \in BOOLEAN : runCookies' = [use |-> IF usable THEN "file" ELSE "none",
                                             fell |-> TRUE, fileFell |-> usable]
      BY <2>1, Zenon DEF Runner!FallbackCookies
    <3> QED
      BY <2>1, <3>1 DEF Runner!BrowserFallback, Runner!Drop
  <2>2. CASE ~Runner!BrowserFallback /\ Runner!FileFallback
    BY <2>2 DEF Runner!FileFallback, Runner!Drop
  <2>3. CASE ~Runner!BrowserFallback /\ ~Runner!FileFallback
    BY <2>3 DEF Runner!BrowserFallback, Runner!FileFallback, Runner!Retriable
  <2> QED
    BY <2>1, <2>2, <2>3
<1>12. CASE Runner!Backoff
  BY <1>12 DEF Runner!Backoff, Runner!Waited, Runner!Aborted, Runner!Return, Runner!Drop
<1>13. CASE Runner!Clean
  BY <1>13 DEF Runner!Clean, Runner!Delete, Runner!AllOurs, Runner!Return, Runner!Drop
<1>14. CASE Runner!Wipe
  BY <1>14 DEF Runner!Wipe, Runner!Delete, Runner!AllOurs, Runner!Return
<1>15. CASE Runner!Publish \/ Runner!Finish
  BY <1>15 DEF Runner!Publish, Runner!Finish
<1>16. CASE Runner!Reconcile
  BY <1>16 DEF Runner!Reconcile, Runner!Fresh, Runner!FirstCookies
<1>17. CASE Runner!Pause \/ Runner!FinishPause
  BY <1>17 DEF Runner!Pause, Runner!FinishPause
<1>18. CASE UNCHANGED Runner!mvars
  BY <1>18 DEF Runner!mvars
<1> QED
  BY <1>1, <1>2, <1>3, <1>4, <1>5, <1>6, <1>7, <1>8, <1>9, <1>10, <1>11, <1>12, <1>13, <1>14,
     <1>15, <1>16, <1>17, <1>18 DEF Runner!Next

\* A download that nobody has run yet.
LEMMA InitRun ==
  ASSUME MaxStrikes \in Nat, Runner!Init
  PROVE  RunInvariant
<1> USE DEF Runner!Init, Runner!FirstCookies
<1>1. RunShapes
  <2>1. CookieShapes
    BY DEF CookieShapes
  <2>2. RunnerShapes
    BY DEF RunnerShapes, Runner!Reasons, Runner!Results
  <2>3. ChildShapes
    BY DEF ChildShapes
  <2>4. CountShapes
    BY DEF CountShapes
  <2>5. FlagShapes
    BY DEF FlagShapes
  <2> QED
    BY <2>1, <2>2, <2>3, <2>4, <2>5 DEF RunShapes
<1>2. EventsAreTrue /\ ProcessIsHeld /\ RunOwns /\ PauseIsHeard
  BY DEF EventsAreTrue, ProcessIsHeld, Runner!ProcessIsWatched, RunOwns, PauseIsHeard
<1>3. OutcomeIsResult /\ SuccessIsSeen /\ TriesAreCounted /\ Runner!CleanupIsSafe
  BY DEF OutcomeIsResult, SuccessIsSeen, TriesAreCounted, Fallbacks, Over, Runner!CleanupIsSafe
<1> QED
  BY <1>1, <1>2, <1>3 DEF RunInvariant

\* The invariant is inductive.
LEMMA NextRun ==
  ASSUME MaxStrikes \in Nat, RunInvariant, [Runner!Next]_(Runner!mvars)
  PROVE  RunInvariant'
BY NextCookieShapes, NextCountShapes, NextRunnerShapes, NextChildShapes, NextFlagShapes,
   NextEventsAreTrue, NextProcessIsHeld, NextRunOwns, NextPauseIsHeard, NextOutcomeIsResult,
   NextSuccessIsSeen, NextTriesAreCounted, CleanupStaysSafe
DEF RunInvariant, RunShapes

\* What the invariant says of the properties of the component.
LEMMA RunSafety ==
  ASSUME MaxStrikes \in Nat, RunInvariant
  PROVE  /\ Runner!ProcessIsWatched /\ Runner!SuccessIsKept /\ Runner!RetriesAreSpent
         /\ Runner!CleanupIsSafe /\ Runner!PauseIsShown
<1> USE DEF RunInvariant, RunShapes, CookieShapes, CountShapes, RunnerShapes, ChildShapes,
   FlagShapes
<1>1. Runner!ProcessIsWatched /\ Runner!CleanupIsSafe
  BY DEF ProcessIsHeld
<1>2. Runner!SuccessIsKept
  BY DEF Runner!SuccessIsKept, OutcomeIsResult, SuccessIsSeen
<1>3. Runner!RetriesAreSpent
  BY DEF Runner!RetriesAreSpent, TriesAreCounted, Fallbacks
<1>4. Runner!PauseIsShown
  BY DEF Runner!PauseIsShown, OutcomeIsResult
<1> QED
  BY <1>1, <1>2, <1>3, <1>4

\* However the exit of the process, its report, a broken stream, a refused kill and a pause come
\* between each other, a process is watched to its end, a reported success is kept, no retry is
\* left unspent, and nothing is deleted under a process or of another download
\* (ProcessIsWatched, SuccessIsKept, RetriesAreSpent, CleanupIsSafe, PauseIsShown).
THEOREM RunsStayWhole ==
  ASSUME MaxStrikes \in Nat
  PROVE  Runner!Spec => [](/\ Runner!ProcessIsWatched /\ Runner!SuccessIsKept
                           /\ Runner!RetriesAreSpent /\ Runner!CleanupIsSafe
                           /\ Runner!PauseIsShown)
<1>1. Runner!Init => RunInvariant
  BY InitRun
<1>2. RunInvariant /\ [Runner!Next]_(Runner!mvars) => RunInvariant'
  BY NextRun
<1> QED
  BY <1>1, <1>2, RunSafety, PTL DEF Runner!Spec

-----------------------------------------------------------------------------
(* The resolution of a magnet link.                                        *)

\* The types: of the command, of the guard and what it left, of the daemon, and of the rest.
ProberShapes ==
  probeStep \in Magnet!Steps /\ attempt \in {1, 2} /\ bytes \in BOOLEAN /\ lease \in BOOLEAN

GuardShapes ==
  /\ probeHeld \in {"none", "pending", "planned", "known"}
  /\ left \in [what : {"none", "pending", "planned", "known", "dir"}, of : {1, 2}]

AriaShapes ==
  /\ request \in [{1, 2} -> {"none", "sent", "lost", "done"}]
  /\ transfer \in [{1, 2} -> {"none", "other", "running", "ended", "seized"}]

PlaceShapes ==
  /\ unwatched \subseteq {1, 2} /\ directory \in {0, 1, 2}
  /\ daemon \in {"up", "exited", "replaced"} /\ reaper \in {"due", "removing", "done", "reaped"}

MagnetShapes == ProberShapes /\ GuardShapes /\ AriaShapes /\ PlaceShapes

\* What the guard of the attempt holds follows from where the command is, and only a command
\* that is over has left something to its clean-up.
GuardFollowsStep ==
  /\ probeStep \in {"start", "leased", "failed", "remake", "finish", "over"} => probeHeld = "none"
  /\ probeStep \in {"add", "settle"} => probeHeld = "pending"
  /\ probeStep = "verify" => probeHeld = "planned"
  /\ probeStep \in {"poll", "clean", "purge"} => probeHeld = "known"
  /\ left.what # "none" => probeStep = "over" /\ left.of = attempt

\* What is known to be the probe's is not the transfer of somebody else.
KnownIsOurs ==
  /\ Magnet!OthersAreSpared
  /\ probeHeld = "known" => transfer[attempt] # "other"
  /\ left.what = "known" => transfer[left.of] # "other"

\* The command's directory is leased, and the sweep finds nothing before the command is over.
DirectoryIsHeld ==
  /\ probeStep \notin {"start", "over"} => lease
  /\ probeStep # "over" => reaper \in {"due", "done"}
  /\ probeStep \in {"start", "leased"} => attempt = 1 /\ directory = 0
  /\ probeStep = "remake" => attempt = 1
  /\ probeStep \notin {"start", "leased", "remake", "over"} => directory = attempt
  /\ left.what \in {"pending", "planned", "known"} =>
       directory = attempt \/ reaper = "reaped" \/ daemon # "up"
  /\ reaper = "reaped" => directory = 0

\* A transfer of the probe's is one whose request has been answered.
TransfersAreAnswered ==
  /\ \A a \in {1, 2} : transfer[a] \in {"running", "ended"} => request[a] = "done"
  /\ probeStep \in {"start", "leased"} => request[1] = "none"
  /\ attempt = 1 /\ probeStep # "over" => request[2] = "none"

\* Whatever runs is watched and has its directory; the other attempt is over, or to come.
RunningIsWatched ==
  /\ Magnet!DirectoryOutlivesGid
  /\ daemon # "up" => \A a \in {1, 2} : transfer[a] # "running"
  /\ \A a \in {1, 2} \ unwatched :
       /\ a # attempt => transfer[a] # "running"
       /\ probeStep \in {"start", "leased", "failed", "remake", "finish"} \/ left.what = "dir" =>
            transfer[a] # "running"

\* The metadata are those of an attempt whose transfer has ended.
BytesAreOfTheEnded ==
  bytes => /\ probeStep \in {"clean", "kept", "finish", "over"}
           /\ request[attempt] = "done"
           /\ \A a \in {1, 2} \ unwatched : transfer[a] # "running"

\* The inductive invariant of the resolution of a magnet link.
MagnetInvariant ==
  /\ MagnetShapes /\ GuardFollowsStep /\ KnownIsOurs /\ DirectoryIsHeld
  /\ TransfersAreAnswered /\ RunningIsWatched /\ BytesAreOfTheEnded

\* The command keeps its types.
LEMMA NextProberShapes ==
  ASSUME MagnetInvariant, [Magnet!Next]_(Magnet!pvars)
  PROVE  ProberShapes'
<1> USE DEF MagnetInvariant, MagnetShapes, ProberShapes, Magnet!Steps, Magnet!world,
   Magnet!Attempts
<1>1. CASE \E a \in {1, 2} : Magnet!Accept(a) \/ Magnet!End(a)
  BY <1>1 DEF Magnet!Accept, Magnet!End, Magnet!Watched
<1>2. CASE Magnet!DaemonExits \/ Magnet!DaemonReplaced
  BY <1>2 DEF Magnet!DaemonExits, Magnet!Moment, Magnet!Attempts, Magnet!DaemonReplaced
<1>3. CASE Magnet!Start \/ Magnet!MakeDirectory
  BY <1>3 DEF Magnet!Start, Magnet!Begin, Magnet!Attempts, Magnet!MakeDirectory
<1>4. CASE Magnet!Added \/ Magnet!NotAdded \/ Magnet!AddOverdue
  BY <1>4 DEF Magnet!Added, Magnet!Answered, Magnet!Unanswered, Magnet!Attempts, Magnet!NotAdded,
     Magnet!GivenUp, Magnet!AddOverdue
<1>5. CASE Magnet!Polled
  BY <1>5 DEF Magnet!Polled, Magnet!Answered, Magnet!Unanswered, Magnet!Attempts
<1>6. CASE Magnet!Clean \/ Magnet!Purge
  BY <1>6 DEF Magnet!Clean, Magnet!Answered, Magnet!Unanswered, Magnet!CleanWorks,
       Magnet!CleanFails, Magnet!Removed, Magnet!Attempts, Magnet!Purge
<1>7. CASE Magnet!Settle
  BY <1>7 DEF Magnet!Settle, Magnet!Answered, Magnet!Unanswered, Magnet!GivenUp, Magnet!Attempts
<1>8. CASE Magnet!Verify
  BY <1>8 DEF Magnet!Verify, Magnet!Answered, Magnet!Unanswered, Magnet!Owns, Magnet!Attempts
<1>9. CASE Magnet!Retry \/ Magnet!Remake
  BY <1>9 DEF Magnet!Retry, Magnet!FallsBack, Magnet!Attempts, Magnet!Remake
<1>10. CASE Magnet!GiveUp \/ Magnet!Succeed \/ Magnet!Keep
  BY <1>10 DEF Magnet!GiveUp, Magnet!Dropped, Magnet!Attempts, Magnet!Succeed, Magnet!Keep
<1>11. CASE Magnet!Cancel
  BY <1>11 DEF Magnet!Cancel, Magnet!Dropped, Magnet!Moment, Magnet!Attempts
<1>12. CASE Magnet!LeftPending
  BY <1>12 DEF Magnet!LeftPending, Magnet!Answered, Magnet!Unanswered, Magnet!Leave, Magnet!Quit,
     Magnet!GivenUp, Magnet!Nothing, Magnet!Attempts
<1>13. CASE Magnet!LeftPlanned
  BY <1>13 DEF Magnet!LeftPlanned, Magnet!Answered, Magnet!Unanswered, Magnet!Leave, Magnet!Quit,
     Magnet!Nothing, Magnet!Owns, Magnet!Attempts
<1>14. CASE Magnet!LeftKnown
  BY <1>14 DEF Magnet!LeftKnown, Magnet!Answered, Magnet!Unanswered, Magnet!Leave, Magnet!Quit,
     Magnet!Nothing, Magnet!LeftOver, Magnet!CleanWorks, Magnet!CleanFails, Magnet!Removed,
     Magnet!Attempts
<1>15. CASE Magnet!LeftDirectory
  BY <1>15 DEF Magnet!LeftDirectory, Magnet!Quit, Magnet!Nothing, Magnet!Attempts
<1>16. CASE Magnet!Inspect \/ Magnet!Skip \/ Magnet!Reap
  BY <1>16 DEF Magnet!Inspect, Magnet!Skip, Magnet!Reap
<1>17. CASE Magnet!Restart
  BY <1>17 DEF Magnet!Restart, Magnet!Moment, Magnet!Nothing, Magnet!Attempts
<1>18. CASE UNCHANGED Magnet!pvars
  BY <1>18 DEF Magnet!pvars
<1> QED
  BY <1>1, <1>2, <1>3, <1>4, <1>5, <1>6, <1>7, <1>8, <1>9, <1>10, <1>11, <1>12, <1>13, <1>14,
     <1>15, <1>16, <1>17, <1>18 DEF Magnet!Next

\* So does the guard, with what it left to a clean-up.
LEMMA NextGuardShapes ==
  ASSUME MagnetInvariant, [Magnet!Next]_(Magnet!pvars)
  PROVE  GuardShapes'
<1> USE DEF MagnetInvariant, MagnetShapes, ProberShapes, GuardShapes, Magnet!world,
   Magnet!Attempts
<1>1. CASE \E a \in {1, 2} : Magnet!Accept(a) \/ Magnet!End(a)
  BY <1>1 DEF Magnet!Accept, Magnet!End, Magnet!Watched
<1>2. CASE Magnet!DaemonExits \/ Magnet!DaemonReplaced
  BY <1>2 DEF Magnet!DaemonExits, Magnet!Moment, Magnet!Attempts, Magnet!DaemonReplaced
<1>3. CASE Magnet!Start \/ Magnet!MakeDirectory
  BY <1>3 DEF Magnet!Start, Magnet!Begin, Magnet!Attempts, Magnet!MakeDirectory
<1>4. CASE Magnet!Added \/ Magnet!NotAdded \/ Magnet!AddOverdue
  BY <1>4 DEF Magnet!Added, Magnet!Answered, Magnet!Unanswered, Magnet!Attempts, Magnet!NotAdded,
     Magnet!GivenUp, Magnet!AddOverdue
<1>5. CASE Magnet!Polled
  BY <1>5 DEF Magnet!Polled, Magnet!Answered, Magnet!Unanswered, Magnet!Attempts
<1>6. CASE Magnet!Clean \/ Magnet!Purge
  BY <1>6 DEF Magnet!Clean, Magnet!Answered, Magnet!Unanswered, Magnet!CleanWorks,
       Magnet!CleanFails, Magnet!Removed, Magnet!Attempts, Magnet!Purge
<1>7. CASE Magnet!Settle
  BY <1>7 DEF Magnet!Settle, Magnet!Answered, Magnet!Unanswered, Magnet!GivenUp, Magnet!Attempts
<1>8. CASE Magnet!Verify
  BY <1>8 DEF Magnet!Verify, Magnet!Answered, Magnet!Unanswered, Magnet!Owns, Magnet!Attempts
<1>9. CASE Magnet!Retry \/ Magnet!Remake
  BY <1>9 DEF Magnet!Retry, Magnet!FallsBack, Magnet!Attempts, Magnet!Remake
<1>10. CASE Magnet!GiveUp \/ Magnet!Succeed \/ Magnet!Keep
  BY <1>10 DEF Magnet!GiveUp, Magnet!Dropped, Magnet!Attempts, Magnet!Succeed, Magnet!Keep
<1>11. CASE Magnet!Cancel
  BY <1>11 DEF Magnet!Cancel, Magnet!Dropped, Magnet!Moment, Magnet!Attempts
<1>12. CASE Magnet!LeftPending
  BY <1>12 DEF Magnet!LeftPending, Magnet!Answered, Magnet!Unanswered, Magnet!Leave, Magnet!Quit,
     Magnet!GivenUp, Magnet!Nothing, Magnet!Attempts
<1>13. CASE Magnet!LeftPlanned
  BY <1>13 DEF Magnet!LeftPlanned, Magnet!Answered, Magnet!Unanswered, Magnet!Leave, Magnet!Quit,
     Magnet!Nothing, Magnet!Owns, Magnet!Attempts
<1>14. CASE Magnet!LeftKnown
  BY <1>14 DEF Magnet!LeftKnown, Magnet!Answered, Magnet!Unanswered, Magnet!Leave, Magnet!Quit,
     Magnet!Nothing, Magnet!LeftOver, Magnet!CleanWorks, Magnet!CleanFails, Magnet!Removed,
     Magnet!Attempts
<1>15. CASE Magnet!LeftDirectory
  BY <1>15 DEF Magnet!LeftDirectory, Magnet!Quit, Magnet!Nothing, Magnet!Attempts
<1>16. CASE Magnet!Inspect \/ Magnet!Skip \/ Magnet!Reap
  BY <1>16 DEF Magnet!Inspect, Magnet!Skip, Magnet!Reap
<1>17. CASE Magnet!Restart
  BY <1>17 DEF Magnet!Restart, Magnet!Moment, Magnet!Nothing, Magnet!Attempts
<1>18. CASE UNCHANGED Magnet!pvars
  BY <1>18 DEF Magnet!pvars
<1> QED
  BY <1>1, <1>2, <1>3, <1>4, <1>5, <1>6, <1>7, <1>8, <1>9, <1>10, <1>11, <1>12, <1>13, <1>14,
     <1>15, <1>16, <1>17, <1>18 DEF Magnet!Next

\* So do the requests and the transfers in aria2.
LEMMA NextAriaShapes ==
  ASSUME MagnetInvariant, [Magnet!Next]_(Magnet!pvars)
  PROVE  AriaShapes'
<1> USE DEF MagnetInvariant, MagnetShapes, ProberShapes, GuardShapes, AriaShapes, PlaceShapes,
   Magnet!world, Magnet!Attempts
<1>1. CASE \E a \in {1, 2} : Magnet!Accept(a) \/ Magnet!End(a)
  BY <1>1 DEF Magnet!Accept, Magnet!End, Magnet!Watched
<1>2. CASE Magnet!DaemonExits \/ Magnet!DaemonReplaced
  BY <1>2 DEF Magnet!DaemonExits, Magnet!Moment, Magnet!Attempts, Magnet!DaemonReplaced
<1>3. CASE Magnet!Start \/ Magnet!MakeDirectory
  BY <1>3 DEF Magnet!Start, Magnet!Begin, Magnet!Attempts, Magnet!MakeDirectory
<1>4. CASE Magnet!Added \/ Magnet!NotAdded \/ Magnet!AddOverdue
  BY <1>4 DEF Magnet!Added, Magnet!Answered, Magnet!Unanswered, Magnet!Attempts, Magnet!NotAdded,
     Magnet!GivenUp, Magnet!AddOverdue
<1>5. CASE Magnet!Polled
  BY <1>5 DEF Magnet!Polled, Magnet!Answered, Magnet!Unanswered, Magnet!Attempts
<1>6. CASE Magnet!Clean \/ Magnet!Purge
  BY <1>6 DEF Magnet!Clean, Magnet!Answered, Magnet!Unanswered, Magnet!CleanWorks,
       Magnet!CleanFails, Magnet!Removed, Magnet!Attempts, Magnet!Purge
<1>7. CASE Magnet!Settle
  BY <1>7 DEF Magnet!Settle, Magnet!Answered, Magnet!Unanswered, Magnet!GivenUp, Magnet!Attempts
<1>8. CASE Magnet!Verify
  BY <1>8 DEF Magnet!Verify, Magnet!Answered, Magnet!Unanswered, Magnet!Owns, Magnet!Attempts
<1>9. CASE Magnet!Retry \/ Magnet!Remake
  BY <1>9 DEF Magnet!Retry, Magnet!FallsBack, Magnet!Attempts, Magnet!Remake
<1>10. CASE Magnet!GiveUp \/ Magnet!Succeed \/ Magnet!Keep
  BY <1>10 DEF Magnet!GiveUp, Magnet!Dropped, Magnet!Attempts, Magnet!Succeed, Magnet!Keep
<1>11. CASE Magnet!Cancel
  BY <1>11 DEF Magnet!Cancel, Magnet!Dropped, Magnet!Moment, Magnet!Attempts
<1>12. CASE Magnet!LeftPending
  BY <1>12 DEF Magnet!LeftPending, Magnet!Answered, Magnet!Unanswered, Magnet!Leave, Magnet!Quit,
     Magnet!GivenUp, Magnet!Nothing, Magnet!Attempts
<1>13. CASE Magnet!LeftPlanned
  BY <1>13 DEF Magnet!LeftPlanned, Magnet!Answered, Magnet!Unanswered, Magnet!Leave, Magnet!Quit,
     Magnet!Nothing, Magnet!Owns, Magnet!Attempts
<1>14. CASE Magnet!LeftKnown
  BY <1>14 DEF Magnet!LeftKnown, Magnet!Answered, Magnet!Unanswered, Magnet!Leave, Magnet!Quit,
     Magnet!Nothing, Magnet!LeftOver, Magnet!CleanWorks, Magnet!CleanFails, Magnet!Removed,
     Magnet!Attempts
<1>15. CASE Magnet!LeftDirectory
  BY <1>15 DEF Magnet!LeftDirectory, Magnet!Quit, Magnet!Nothing, Magnet!Attempts
<1>16. CASE Magnet!Inspect \/ Magnet!Skip \/ Magnet!Reap
  BY <1>16 DEF Magnet!Inspect, Magnet!Skip, Magnet!Reap
<1>17. CASE Magnet!Restart
  BY <1>17 DEF Magnet!Restart, Magnet!Moment, Magnet!Nothing, Magnet!Attempts
<1>18. CASE UNCHANGED Magnet!pvars
  BY <1>18 DEF Magnet!pvars
<1> QED
  BY <1>1, <1>2, <1>3, <1>4, <1>5, <1>6, <1>7, <1>8, <1>9, <1>10, <1>11, <1>12, <1>13, <1>14,
     <1>15, <1>16, <1>17, <1>18 DEF Magnet!Next

\* So do the directory, the daemon and the sweep.
LEMMA NextPlaceShapes ==
  ASSUME MagnetInvariant, [Magnet!Next]_(Magnet!pvars)
  PROVE  PlaceShapes'
<1> USE DEF MagnetInvariant, MagnetShapes, PlaceShapes, ProberShapes, GuardShapes, Magnet!world,
   Magnet!Attempts
<1>1. CASE \E a \in {1, 2} : Magnet!Accept(a) \/ Magnet!End(a)
  BY <1>1 DEF Magnet!Accept, Magnet!End, Magnet!Watched
<1>2. CASE Magnet!DaemonExits \/ Magnet!DaemonReplaced
  BY <1>2 DEF Magnet!DaemonExits, Magnet!Moment, Magnet!Attempts, Magnet!DaemonReplaced
<1>3. CASE Magnet!Start \/ Magnet!MakeDirectory
  BY <1>3 DEF Magnet!Start, Magnet!Begin, Magnet!Attempts, Magnet!MakeDirectory
<1>4. CASE Magnet!Added \/ Magnet!NotAdded \/ Magnet!AddOverdue
  BY <1>4 DEF Magnet!Added, Magnet!Answered, Magnet!Unanswered, Magnet!Attempts, Magnet!NotAdded,
     Magnet!GivenUp, Magnet!AddOverdue
<1>5. CASE Magnet!Polled
  BY <1>5 DEF Magnet!Polled, Magnet!Answered, Magnet!Unanswered, Magnet!Attempts
<1>6. CASE Magnet!Clean \/ Magnet!Purge
  BY <1>6 DEF Magnet!Clean, Magnet!Answered, Magnet!Unanswered, Magnet!CleanWorks,
       Magnet!CleanFails, Magnet!Removed, Magnet!Attempts, Magnet!Purge
<1>7. CASE Magnet!Settle
  BY <1>7 DEF Magnet!Settle, Magnet!Answered, Magnet!Unanswered, Magnet!GivenUp, Magnet!Attempts
<1>8. CASE Magnet!Verify
  BY <1>8 DEF Magnet!Verify, Magnet!Answered, Magnet!Unanswered, Magnet!Owns, Magnet!Attempts
<1>9. CASE Magnet!Retry \/ Magnet!Remake
  BY <1>9 DEF Magnet!Retry, Magnet!FallsBack, Magnet!Attempts, Magnet!Remake
<1>10. CASE Magnet!GiveUp \/ Magnet!Succeed \/ Magnet!Keep
  BY <1>10 DEF Magnet!GiveUp, Magnet!Dropped, Magnet!Attempts, Magnet!Succeed, Magnet!Keep
<1>11. CASE Magnet!Cancel
  BY <1>11 DEF Magnet!Cancel, Magnet!Dropped, Magnet!Moment, Magnet!Attempts
<1>12. CASE Magnet!LeftPending
  BY <1>12 DEF Magnet!LeftPending, Magnet!Answered, Magnet!Unanswered, Magnet!Leave, Magnet!Quit,
     Magnet!GivenUp, Magnet!Nothing, Magnet!Attempts
<1>13. CASE Magnet!LeftPlanned
  BY <1>13 DEF Magnet!LeftPlanned, Magnet!Answered, Magnet!Unanswered, Magnet!Leave, Magnet!Quit,
     Magnet!Nothing, Magnet!Owns, Magnet!Attempts
<1>14. CASE Magnet!LeftKnown
  BY <1>14 DEF Magnet!LeftKnown, Magnet!Answered, Magnet!Unanswered, Magnet!Leave, Magnet!Quit,
     Magnet!Nothing, Magnet!LeftOver, Magnet!CleanWorks, Magnet!CleanFails, Magnet!Removed,
     Magnet!Attempts
<1>15. CASE Magnet!LeftDirectory
  BY <1>15 DEF Magnet!LeftDirectory, Magnet!Quit, Magnet!Nothing, Magnet!Attempts
<1>16. CASE Magnet!Inspect \/ Magnet!Skip \/ Magnet!Reap
  BY <1>16 DEF Magnet!Inspect, Magnet!Skip, Magnet!Reap
<1>17. CASE Magnet!Restart
  BY <1>17 DEF Magnet!Restart, Magnet!Moment, Magnet!Nothing, Magnet!Attempts
<1>18. CASE UNCHANGED Magnet!pvars
  BY <1>18 DEF Magnet!pvars
<1> QED
  BY <1>1, <1>2, <1>3, <1>4, <1>5, <1>6, <1>7, <1>8, <1>9, <1>10, <1>11, <1>12, <1>13, <1>14,
     <1>15, <1>16, <1>17, <1>18 DEF Magnet!Next

\* The guard is rewritten only where the command goes on, and emptied where it ends.
LEMMA NextGuardFollowsStep ==
  ASSUME MagnetInvariant, [Magnet!Next]_(Magnet!pvars)
  PROVE  GuardFollowsStep'
<1> USE DEF MagnetInvariant, GuardFollowsStep, MagnetShapes, GuardShapes, ProberShapes,
   Magnet!world, Magnet!Attempts
<1>1. CASE \E a \in {1, 2} : Magnet!Accept(a) \/ Magnet!End(a)
  BY <1>1 DEF Magnet!Accept, Magnet!End, Magnet!Watched
<1>2. CASE Magnet!DaemonExits \/ Magnet!DaemonReplaced
  BY <1>2 DEF Magnet!DaemonExits, Magnet!Moment, Magnet!Attempts, Magnet!DaemonReplaced
<1>3. CASE Magnet!Start \/ Magnet!MakeDirectory
  BY <1>3 DEF Magnet!Start, Magnet!Begin, Magnet!Attempts, Magnet!MakeDirectory
<1>4. CASE Magnet!Added \/ Magnet!NotAdded \/ Magnet!AddOverdue
  BY <1>4 DEF Magnet!Added, Magnet!Answered, Magnet!Unanswered, Magnet!Attempts, Magnet!NotAdded,
     Magnet!GivenUp, Magnet!AddOverdue
<1>5. CASE Magnet!Polled
  BY <1>5 DEF Magnet!Polled, Magnet!Answered, Magnet!Unanswered, Magnet!Attempts
<1>6. CASE Magnet!Clean \/ Magnet!Purge
  BY <1>6 DEF Magnet!Clean, Magnet!Answered, Magnet!Unanswered, Magnet!CleanWorks,
       Magnet!CleanFails, Magnet!Removed, Magnet!Attempts, Magnet!Purge
<1>7. CASE Magnet!Settle
  BY <1>7 DEF Magnet!Settle, Magnet!Answered, Magnet!Unanswered, Magnet!GivenUp, Magnet!Attempts
<1>8. CASE Magnet!Verify
  BY <1>8 DEF Magnet!Verify, Magnet!Answered, Magnet!Unanswered, Magnet!Owns, Magnet!Attempts
<1>9. CASE Magnet!Retry \/ Magnet!Remake
  BY <1>9 DEF Magnet!Retry, Magnet!FallsBack, Magnet!Attempts, Magnet!Remake
<1>10. CASE Magnet!GiveUp \/ Magnet!Succeed \/ Magnet!Keep
  BY <1>10 DEF Magnet!GiveUp, Magnet!Dropped, Magnet!Attempts, Magnet!Succeed, Magnet!Keep
<1>11. CASE Magnet!Cancel
  BY <1>11 DEF Magnet!Cancel, Magnet!Dropped, Magnet!Moment, Magnet!Attempts
<1>12. CASE Magnet!LeftPending
  BY <1>12 DEF Magnet!LeftPending, Magnet!Answered, Magnet!Unanswered, Magnet!Leave, Magnet!Quit,
     Magnet!GivenUp, Magnet!Nothing, Magnet!Attempts
<1>13. CASE Magnet!LeftPlanned
  BY <1>13 DEF Magnet!LeftPlanned, Magnet!Answered, Magnet!Unanswered, Magnet!Leave, Magnet!Quit,
     Magnet!Nothing, Magnet!Owns, Magnet!Attempts
<1>14. CASE Magnet!LeftKnown
  BY <1>14 DEF Magnet!LeftKnown, Magnet!Answered, Magnet!Unanswered, Magnet!Leave, Magnet!Quit,
     Magnet!Nothing, Magnet!LeftOver, Magnet!CleanWorks, Magnet!CleanFails, Magnet!Removed,
     Magnet!Attempts
<1>15. CASE Magnet!LeftDirectory
  BY <1>15 DEF Magnet!LeftDirectory, Magnet!Quit, Magnet!Nothing, Magnet!Attempts
<1>16. CASE Magnet!Inspect \/ Magnet!Skip \/ Magnet!Reap
  BY <1>16 DEF Magnet!Inspect, Magnet!Skip, Magnet!Reap
<1>17. CASE Magnet!Restart
  BY <1>17 DEF Magnet!Restart, Magnet!Moment, Magnet!Nothing, Magnet!Attempts
<1>18. CASE UNCHANGED Magnet!pvars
  BY <1>18 DEF Magnet!pvars
<1> QED
  BY <1>1, <1>2, <1>3, <1>4, <1>5, <1>6, <1>7, <1>8, <1>9, <1>10, <1>11, <1>12, <1>13, <1>14,
     <1>15, <1>16, <1>17, <1>18 DEF Magnet!Next

\* A GID is known to be the probe's from the answer to its add or from the files it is given.
LEMMA NextKnownIsOurs ==
  ASSUME MagnetInvariant, [Magnet!Next]_(Magnet!pvars)
  PROVE  KnownIsOurs'
<1> USE DEF MagnetInvariant, KnownIsOurs, GuardFollowsStep, Magnet!OthersAreSpared, MagnetShapes,
   ProberShapes, GuardShapes, AriaShapes, PlaceShapes, Magnet!world, Magnet!Attempts
<1>1. CASE \E a \in {1, 2} : Magnet!Accept(a) \/ Magnet!End(a)
  BY <1>1 DEF Magnet!Accept, Magnet!End, Magnet!Watched
<1>2. CASE Magnet!DaemonExits \/ Magnet!DaemonReplaced
  BY <1>2 DEF Magnet!DaemonExits, Magnet!Moment, Magnet!Attempts, Magnet!DaemonReplaced
<1>3. CASE Magnet!Start \/ Magnet!MakeDirectory
  BY <1>3 DEF Magnet!Start, Magnet!Begin, Magnet!Attempts, Magnet!MakeDirectory
<1>4. CASE Magnet!Added \/ Magnet!NotAdded \/ Magnet!AddOverdue
  BY <1>4 DEF Magnet!Added, Magnet!Answered, Magnet!Unanswered, Magnet!Attempts, Magnet!NotAdded,
     Magnet!GivenUp, Magnet!AddOverdue
<1>5. CASE Magnet!Polled
  BY <1>5 DEF Magnet!Polled, Magnet!Answered, Magnet!Unanswered, Magnet!Attempts
<1>6. CASE Magnet!Clean \/ Magnet!Purge
  BY <1>6 DEF Magnet!Clean, Magnet!Answered, Magnet!Unanswered, Magnet!CleanWorks,
       Magnet!CleanFails, Magnet!Removed, Magnet!Attempts, Magnet!Purge
<1>7. CASE Magnet!Settle
  BY <1>7 DEF Magnet!Settle, Magnet!Answered, Magnet!Unanswered, Magnet!GivenUp, Magnet!Attempts
<1>8. CASE Magnet!Verify
  BY <1>8 DEF Magnet!Verify, Magnet!Answered, Magnet!Unanswered, Magnet!Owns, Magnet!Attempts
<1>9. CASE Magnet!Retry \/ Magnet!Remake
  BY <1>9 DEF Magnet!Retry, Magnet!FallsBack, Magnet!Attempts, Magnet!Remake
<1>10. CASE Magnet!GiveUp \/ Magnet!Succeed \/ Magnet!Keep
  BY <1>10 DEF Magnet!GiveUp, Magnet!Dropped, Magnet!Attempts, Magnet!Succeed, Magnet!Keep
<1>11. CASE Magnet!Cancel
  BY <1>11 DEF Magnet!Cancel, Magnet!Dropped, Magnet!Moment, Magnet!Attempts
<1>12. CASE Magnet!LeftPending
  BY <1>12 DEF Magnet!LeftPending, Magnet!Answered, Magnet!Unanswered, Magnet!Leave, Magnet!Quit,
     Magnet!GivenUp, Magnet!Nothing, Magnet!Attempts
<1>13. CASE Magnet!LeftPlanned
  BY <1>13 DEF Magnet!LeftPlanned, Magnet!Answered, Magnet!Unanswered, Magnet!Leave, Magnet!Quit,
     Magnet!Nothing, Magnet!Owns, Magnet!Attempts
<1>14. CASE Magnet!LeftKnown
  BY <1>14 DEF Magnet!LeftKnown, Magnet!Answered, Magnet!Unanswered, Magnet!Leave, Magnet!Quit,
     Magnet!Nothing, Magnet!LeftOver, Magnet!CleanWorks, Magnet!CleanFails, Magnet!Removed,
     Magnet!Attempts
<1>15. CASE Magnet!LeftDirectory
  BY <1>15 DEF Magnet!LeftDirectory, Magnet!Quit, Magnet!Nothing, Magnet!Attempts
<1>16. CASE Magnet!Inspect \/ Magnet!Skip \/ Magnet!Reap
  BY <1>16 DEF Magnet!Inspect, Magnet!Skip, Magnet!Reap
<1>17. CASE Magnet!Restart
  BY <1>17 DEF Magnet!Restart, Magnet!Moment, Magnet!Nothing, Magnet!Attempts
<1>18. CASE UNCHANGED Magnet!pvars
  BY <1>18 DEF Magnet!pvars
<1> QED
  BY <1>1, <1>2, <1>3, <1>4, <1>5, <1>6, <1>7, <1>8, <1>9, <1>10, <1>11, <1>12, <1>13, <1>14,
     <1>15, <1>16, <1>17, <1>18 DEF Magnet!Next

\* The lease goes with the command, and only then does the sweep find the directory.
LEMMA NextDirectoryIsHeld ==
  ASSUME MagnetInvariant, [Magnet!Next]_(Magnet!pvars)
  PROVE  DirectoryIsHeld'
<1> USE DEF MagnetInvariant, DirectoryIsHeld, GuardFollowsStep, MagnetShapes, ProberShapes,
   GuardShapes, AriaShapes, PlaceShapes, Magnet!world, Magnet!Attempts
<1>1. CASE \E a \in {1, 2} : Magnet!Accept(a) \/ Magnet!End(a)
  BY <1>1 DEF Magnet!Accept, Magnet!End, Magnet!Watched
<1>2. CASE Magnet!DaemonExits \/ Magnet!DaemonReplaced
  BY <1>2 DEF Magnet!DaemonExits, Magnet!Moment, Magnet!Attempts, Magnet!DaemonReplaced
<1>3. CASE Magnet!Start \/ Magnet!MakeDirectory
  BY <1>3 DEF Magnet!Start, Magnet!Begin, Magnet!Attempts, Magnet!MakeDirectory
<1>4. CASE Magnet!Added \/ Magnet!NotAdded \/ Magnet!AddOverdue
  BY <1>4 DEF Magnet!Added, Magnet!Answered, Magnet!Unanswered, Magnet!Attempts, Magnet!NotAdded,
     Magnet!GivenUp, Magnet!AddOverdue
<1>5. CASE Magnet!Polled
  BY <1>5 DEF Magnet!Polled, Magnet!Answered, Magnet!Unanswered, Magnet!Attempts
<1>6. CASE Magnet!Clean \/ Magnet!Purge
  BY <1>6 DEF Magnet!Clean, Magnet!Answered, Magnet!Unanswered, Magnet!CleanWorks,
       Magnet!CleanFails, Magnet!Removed, Magnet!Attempts, Magnet!Purge
<1>7. CASE Magnet!Settle
  BY <1>7 DEF Magnet!Settle, Magnet!Answered, Magnet!Unanswered, Magnet!GivenUp, Magnet!Attempts
<1>8. CASE Magnet!Verify
  BY <1>8 DEF Magnet!Verify, Magnet!Answered, Magnet!Unanswered, Magnet!Owns, Magnet!Attempts
<1>9. CASE Magnet!Retry \/ Magnet!Remake
  BY <1>9 DEF Magnet!Retry, Magnet!FallsBack, Magnet!Attempts, Magnet!Remake
<1>10. CASE Magnet!GiveUp \/ Magnet!Succeed \/ Magnet!Keep
  BY <1>10 DEF Magnet!GiveUp, Magnet!Dropped, Magnet!Attempts, Magnet!Succeed, Magnet!Keep
<1>11. CASE Magnet!Cancel
  BY <1>11 DEF Magnet!Cancel, Magnet!Dropped, Magnet!Moment, Magnet!Attempts
<1>12. CASE Magnet!LeftPending
  BY <1>12 DEF Magnet!LeftPending, Magnet!Answered, Magnet!Unanswered, Magnet!Leave, Magnet!Quit,
     Magnet!GivenUp, Magnet!Nothing, Magnet!Attempts
<1>13. CASE Magnet!LeftPlanned
  BY <1>13 DEF Magnet!LeftPlanned, Magnet!Answered, Magnet!Unanswered, Magnet!Leave, Magnet!Quit,
     Magnet!Nothing, Magnet!Owns, Magnet!Attempts
<1>14. CASE Magnet!LeftKnown
  BY <1>14 DEF Magnet!LeftKnown, Magnet!Answered, Magnet!Unanswered, Magnet!Leave, Magnet!Quit,
     Magnet!Nothing, Magnet!LeftOver, Magnet!CleanWorks, Magnet!CleanFails, Magnet!Removed,
     Magnet!Attempts
<1>15. CASE Magnet!LeftDirectory
  BY <1>15 DEF Magnet!LeftDirectory, Magnet!Quit, Magnet!Nothing, Magnet!Attempts
<1>16. CASE Magnet!Inspect \/ Magnet!Skip \/ Magnet!Reap
  BY <1>16 DEF Magnet!Inspect, Magnet!Skip, Magnet!Reap
<1>17. CASE Magnet!Restart
  BY <1>17 DEF Magnet!Restart, Magnet!Moment, Magnet!Nothing, Magnet!Attempts
<1>18. CASE UNCHANGED Magnet!pvars
  BY <1>18 DEF Magnet!pvars
<1> QED
  BY <1>1, <1>2, <1>3, <1>4, <1>5, <1>6, <1>7, <1>8, <1>9, <1>10, <1>11, <1>12, <1>13, <1>14,
     <1>15, <1>16, <1>17, <1>18 DEF Magnet!Next

\* A transfer of the probe begins with the answer to its request.
LEMMA NextTransfersAreAnswered ==
  ASSUME MagnetInvariant, [Magnet!Next]_(Magnet!pvars)
  PROVE  TransfersAreAnswered'
<1> USE DEF MagnetInvariant, TransfersAreAnswered, DirectoryIsHeld, GuardFollowsStep,
   MagnetShapes, ProberShapes, GuardShapes, AriaShapes, PlaceShapes, Magnet!world, Magnet!Attempts
<1>1. CASE \E a \in {1, 2} : Magnet!Accept(a) \/ Magnet!End(a)
  BY <1>1 DEF Magnet!Accept, Magnet!End, Magnet!Watched
<1>2. CASE Magnet!DaemonExits \/ Magnet!DaemonReplaced
  BY <1>2 DEF Magnet!DaemonExits, Magnet!Moment, Magnet!Attempts, Magnet!DaemonReplaced
<1>3. CASE Magnet!Start \/ Magnet!MakeDirectory
  BY <1>3 DEF Magnet!Start, Magnet!Begin, Magnet!Attempts, Magnet!MakeDirectory
<1>4. CASE Magnet!Added \/ Magnet!NotAdded \/ Magnet!AddOverdue
  BY <1>4 DEF Magnet!Added, Magnet!Answered, Magnet!Unanswered, Magnet!Attempts, Magnet!NotAdded,
     Magnet!GivenUp, Magnet!AddOverdue
<1>5. CASE Magnet!Polled
  BY <1>5 DEF Magnet!Polled, Magnet!Answered, Magnet!Unanswered, Magnet!Attempts
<1>6. CASE Magnet!Clean \/ Magnet!Purge
  BY <1>6 DEF Magnet!Clean, Magnet!Answered, Magnet!Unanswered, Magnet!CleanWorks,
       Magnet!CleanFails, Magnet!Removed, Magnet!Attempts, Magnet!Purge
<1>7. CASE Magnet!Settle
  BY <1>7 DEF Magnet!Settle, Magnet!Answered, Magnet!Unanswered, Magnet!GivenUp, Magnet!Attempts
<1>8. CASE Magnet!Verify
  BY <1>8 DEF Magnet!Verify, Magnet!Answered, Magnet!Unanswered, Magnet!Owns, Magnet!Attempts
<1>9. CASE Magnet!Retry \/ Magnet!Remake
  BY <1>9 DEF Magnet!Retry, Magnet!FallsBack, Magnet!Attempts, Magnet!Remake
<1>10. CASE Magnet!GiveUp \/ Magnet!Succeed \/ Magnet!Keep
  BY <1>10 DEF Magnet!GiveUp, Magnet!Dropped, Magnet!Attempts, Magnet!Succeed, Magnet!Keep
<1>11. CASE Magnet!Cancel
  BY <1>11 DEF Magnet!Cancel, Magnet!Dropped, Magnet!Moment, Magnet!Attempts
<1>12. CASE Magnet!LeftPending
  BY <1>12 DEF Magnet!LeftPending, Magnet!Answered, Magnet!Unanswered, Magnet!Leave, Magnet!Quit,
     Magnet!GivenUp, Magnet!Nothing, Magnet!Attempts
<1>13. CASE Magnet!LeftPlanned
  BY <1>13 DEF Magnet!LeftPlanned, Magnet!Answered, Magnet!Unanswered, Magnet!Leave, Magnet!Quit,
     Magnet!Nothing, Magnet!Owns, Magnet!Attempts
<1>14. CASE Magnet!LeftKnown
  BY <1>14 DEF Magnet!LeftKnown, Magnet!Answered, Magnet!Unanswered, Magnet!Leave, Magnet!Quit,
     Magnet!Nothing, Magnet!LeftOver, Magnet!CleanWorks, Magnet!CleanFails, Magnet!Removed,
     Magnet!Attempts
<1>15. CASE Magnet!LeftDirectory
  BY <1>15 DEF Magnet!LeftDirectory, Magnet!Quit, Magnet!Nothing, Magnet!Attempts
<1>16. CASE Magnet!Inspect \/ Magnet!Skip \/ Magnet!Reap
  BY <1>16 DEF Magnet!Inspect, Magnet!Skip, Magnet!Reap
<1>17. CASE Magnet!Restart
  BY <1>17 DEF Magnet!Restart, Magnet!Moment, Magnet!Nothing, Magnet!Attempts
<1>18. CASE UNCHANGED Magnet!pvars
  BY <1>18 DEF Magnet!pvars
<1> QED
  BY <1>1, <1>2, <1>3, <1>4, <1>5, <1>6, <1>7, <1>8, <1>9, <1>10, <1>11, <1>12, <1>13, <1>14,
     <1>15, <1>16, <1>17, <1>18 DEF Magnet!Next

\* Whoever takes a GID out of the guard has seen it end, or leaves it to a clean-up.
LEMMA NextRunningIsWatched ==
  ASSUME MagnetInvariant, [Magnet!Next]_(Magnet!pvars)
  PROVE  RunningIsWatched'
<1> USE DEF MagnetInvariant, RunningIsWatched, DirectoryIsHeld, GuardFollowsStep,
   Magnet!DirectoryOutlivesGid, MagnetShapes, ProberShapes, GuardShapes, AriaShapes, PlaceShapes,
   Magnet!world, Magnet!Attempts
<1>1. CASE \E a \in {1, 2} : Magnet!Accept(a) \/ Magnet!End(a)
  BY <1>1 DEF Magnet!Accept, Magnet!End, Magnet!Watched
<1>2. CASE Magnet!DaemonExits \/ Magnet!DaemonReplaced
  BY <1>2 DEF Magnet!DaemonExits, Magnet!Moment, Magnet!Attempts, Magnet!DaemonReplaced
<1>3. CASE Magnet!Start \/ Magnet!MakeDirectory
  BY <1>3 DEF Magnet!Start, Magnet!Begin, Magnet!Attempts, Magnet!MakeDirectory
<1>4. CASE Magnet!Added \/ Magnet!NotAdded \/ Magnet!AddOverdue
  BY <1>4 DEF Magnet!Added, Magnet!Answered, Magnet!Unanswered, Magnet!Attempts, Magnet!NotAdded,
     Magnet!GivenUp, Magnet!AddOverdue
<1>5. CASE Magnet!Polled
  BY <1>5 DEF Magnet!Polled, Magnet!Answered, Magnet!Unanswered, Magnet!Attempts
<1>6. CASE Magnet!Clean \/ Magnet!Purge
  BY <1>6 DEF Magnet!Clean, Magnet!Answered, Magnet!Unanswered, Magnet!CleanWorks,
       Magnet!CleanFails, Magnet!Removed, Magnet!Attempts, Magnet!Purge
<1>7. CASE Magnet!Settle
  BY <1>7 DEF Magnet!Settle, Magnet!Answered, Magnet!Unanswered, Magnet!GivenUp, Magnet!Attempts
<1>8. CASE Magnet!Verify
  BY <1>8 DEF Magnet!Verify, Magnet!Answered, Magnet!Unanswered, Magnet!Owns, Magnet!Attempts
<1>9. CASE Magnet!Retry \/ Magnet!Remake
  BY <1>9 DEF Magnet!Retry, Magnet!FallsBack, Magnet!Attempts, Magnet!Remake
<1>10. CASE Magnet!GiveUp \/ Magnet!Succeed \/ Magnet!Keep
  BY <1>10 DEF Magnet!GiveUp, Magnet!Dropped, Magnet!Attempts, Magnet!Succeed, Magnet!Keep
<1>11. CASE Magnet!Cancel
  BY <1>11 DEF Magnet!Cancel, Magnet!Dropped, Magnet!Moment, Magnet!Attempts
<1>12. CASE Magnet!LeftPending
  BY <1>12 DEF Magnet!LeftPending, Magnet!Answered, Magnet!Unanswered, Magnet!Leave, Magnet!Quit,
     Magnet!GivenUp, Magnet!Nothing, Magnet!Attempts
<1>13. CASE Magnet!LeftPlanned
  <2> USE DEF Magnet!LeftPlanned, Magnet!Answered, Magnet!Unanswered, Magnet!Leave, Magnet!Quit
  <2>1. UNCHANGED <<probeStep, attempt, transfer, unwatched, directory, daemon, reaper>>
    BY <1>13
  <2>2. left'.what = "dir" => transfer[left.of] # "running" /\ left.of = attempt
    <3>1. left.of = attempt /\ (daemon = "up" => directory \in {0, left.of})
      BY <1>13
    <3>2. CASE Magnet!Owns(left.of) \/ ~Magnet!Answered
      BY <1>13, <3>2 DEF Magnet!Nothing
    <3>3. CASE ~Magnet!Owns(left.of) /\ Magnet!Answered
      BY <3>1, <3>3 DEF Magnet!Owns
    <3> QED
      BY <3>2, <3>3
  <2>3. left'.what # "dir" => left'.what \in {"none", "known"}
    BY <1>13 DEF Magnet!Nothing
  <2>4. left.what # "dir"
    BY <1>13
  <2> QED
    BY <2>1, <2>2, <2>3, <2>4
<1>14. CASE Magnet!LeftKnown
  BY <1>14 DEF Magnet!LeftKnown, Magnet!Answered, Magnet!Unanswered, Magnet!Leave, Magnet!Quit,
     Magnet!Nothing, Magnet!LeftOver, Magnet!CleanWorks, Magnet!CleanFails, Magnet!Removed,
     Magnet!Attempts
<1>15. CASE Magnet!LeftDirectory
  BY <1>15 DEF Magnet!LeftDirectory, Magnet!Quit, Magnet!Nothing, Magnet!Attempts
<1>16. CASE Magnet!Inspect \/ Magnet!Skip \/ Magnet!Reap
  BY <1>16 DEF Magnet!Inspect, Magnet!Skip, Magnet!Reap
<1>17. CASE Magnet!Restart
  BY <1>17 DEF Magnet!Restart, Magnet!Moment, Magnet!Nothing, Magnet!Attempts
<1>18. CASE UNCHANGED Magnet!pvars
  BY <1>18 DEF Magnet!pvars
<1> QED
  BY <1>1, <1>2, <1>3, <1>4, <1>5, <1>6, <1>7, <1>8, <1>9, <1>10, <1>11, <1>12, <1>13, <1>14,
     <1>15, <1>16, <1>17, <1>18 DEF Magnet!Next

\* The metadata are read after the transfer was seen to end.
LEMMA NextBytesAreOfTheEnded ==
  ASSUME MagnetInvariant, [Magnet!Next]_(Magnet!pvars)
  PROVE  BytesAreOfTheEnded'
<1> USE DEF MagnetInvariant, TransfersAreAnswered, RunningIsWatched, BytesAreOfTheEnded,
   GuardFollowsStep, MagnetShapes, ProberShapes, GuardShapes, AriaShapes, PlaceShapes,
   Magnet!world, Magnet!Attempts
<1>1. CASE \E a \in {1, 2} : Magnet!Accept(a) \/ Magnet!End(a)
  <2> PICK a \in {1, 2} : Magnet!Accept(a) \/ Magnet!End(a)
    BY <1>1
  <2>1. CASE Magnet!Accept(a)
    <3>1. UNCHANGED <<bytes, probeStep, attempt>> /\ request' = [request EXCEPT ![a] = "done"]
      BY <2>1 DEF Magnet!Accept
    <3>2. bytes => a \in unwatched'
      BY <2>1 DEF Magnet!Accept, Magnet!Watched
    <3>3. /\ unwatched \subseteq unwatched'
          /\ \A b \in {1, 2} : b # a => transfer'[b] = transfer[b]
      BY <2>1 DEF Magnet!Accept
    <3> QED
      BY <3>1, <3>2, <3>3
  <2>2. CASE Magnet!End(a)
    BY <2>2 DEF Magnet!End
  <2> QED
    BY <2>1, <2>2
<1>2. CASE Magnet!DaemonExits \/ Magnet!DaemonReplaced
  <2>1. probeStep' = probeStep /\ bytes' = bytes /\ attempt' = attempt /\ unwatched' = unwatched
    BY <1>2 DEF Magnet!DaemonExits, Magnet!DaemonReplaced
  <2>2. \A a \in {1, 2} : transfer'[a] = "running" => transfer[a] = "running"
    BY <1>2 DEF Magnet!DaemonExits, Magnet!DaemonReplaced
  <2>3. \A a \in {1, 2} : request[a] = "done" => request'[a] = "done"
    BY <1>2 DEF Magnet!DaemonExits, Magnet!DaemonReplaced
  <2> QED
    BY <2>1, <2>2, <2>3
<1>3. CASE Magnet!Start \/ Magnet!MakeDirectory
  BY <1>3 DEF Magnet!Start, Magnet!Begin, Magnet!Attempts, Magnet!MakeDirectory
<1>4. CASE Magnet!Added \/ Magnet!NotAdded \/ Magnet!AddOverdue
  BY <1>4 DEF Magnet!Added, Magnet!Answered, Magnet!Unanswered, Magnet!Attempts, Magnet!NotAdded,
     Magnet!GivenUp, Magnet!AddOverdue
<1>5. CASE Magnet!Polled
  <2>1. probeStep' = "clean" /\ UNCHANGED <<attempt, request, transfer, unwatched>>
    BY <1>5 DEF Magnet!Polled
  <2>0. bytes = FALSE
    BY <1>5 DEF Magnet!Polled
  <2>2. bytes' => transfer[attempt] = "ended"
    BY <1>5, <2>0 DEF Magnet!Polled
  <2>3. transfer[attempt] = "ended" => request[attempt] = "done"
    BY <1>5 DEF Magnet!Polled
  <2> QED
    BY <2>1, <2>2, <2>3
<1>6. CASE Magnet!Clean \/ Magnet!Purge
  BY <1>6 DEF Magnet!Clean, Magnet!Answered, Magnet!Unanswered, Magnet!CleanWorks,
       Magnet!CleanFails, Magnet!Removed, Magnet!Attempts, Magnet!Purge
<1>7. CASE Magnet!Settle
  BY <1>7 DEF Magnet!Settle, Magnet!Answered, Magnet!Unanswered, Magnet!GivenUp, Magnet!Attempts
<1>8. CASE Magnet!Verify
  BY <1>8 DEF Magnet!Verify, Magnet!Answered, Magnet!Unanswered, Magnet!Owns, Magnet!Attempts
<1>9. CASE Magnet!Retry \/ Magnet!Remake
  BY <1>9 DEF Magnet!Retry, Magnet!FallsBack, Magnet!Attempts, Magnet!Remake
<1>10. CASE Magnet!GiveUp \/ Magnet!Succeed \/ Magnet!Keep
  BY <1>10 DEF Magnet!GiveUp, Magnet!Dropped, Magnet!Attempts, Magnet!Succeed, Magnet!Keep
<1>11. CASE Magnet!Cancel
  BY <1>11 DEF Magnet!Cancel, Magnet!Dropped, Magnet!Moment, Magnet!Attempts
<1>12. CASE Magnet!LeftPending
  BY <1>12 DEF Magnet!LeftPending, Magnet!Answered, Magnet!Unanswered, Magnet!Leave, Magnet!Quit,
     Magnet!GivenUp, Magnet!Nothing, Magnet!Attempts
<1>13. CASE Magnet!LeftPlanned
  BY <1>13 DEF Magnet!LeftPlanned, Magnet!Answered, Magnet!Unanswered, Magnet!Leave, Magnet!Quit,
     Magnet!Nothing, Magnet!Owns, Magnet!Attempts
<1>14. CASE Magnet!LeftKnown
  BY <1>14 DEF Magnet!LeftKnown, Magnet!Answered, Magnet!Unanswered, Magnet!Leave, Magnet!Quit,
     Magnet!Nothing, Magnet!LeftOver, Magnet!CleanWorks, Magnet!CleanFails, Magnet!Removed,
     Magnet!Attempts
<1>15. CASE Magnet!LeftDirectory
  BY <1>15 DEF Magnet!LeftDirectory, Magnet!Quit, Magnet!Nothing, Magnet!Attempts
<1>16. CASE Magnet!Inspect \/ Magnet!Skip \/ Magnet!Reap
  BY <1>16 DEF Magnet!Inspect, Magnet!Skip, Magnet!Reap
<1>17. CASE Magnet!Restart
  BY <1>17 DEF Magnet!Restart, Magnet!Moment, Magnet!Nothing, Magnet!Attempts
<1>18. CASE UNCHANGED Magnet!pvars
  BY <1>18 DEF Magnet!pvars
<1> QED
  BY <1>1, <1>2, <1>3, <1>4, <1>5, <1>6, <1>7, <1>8, <1>9, <1>10, <1>11, <1>12, <1>13, <1>14,
     <1>15, <1>16, <1>17, <1>18 DEF Magnet!Next

\* It holds before the command is called.
LEMMA InitMagnet ==
  ASSUME Magnet!Init
  PROVE  MagnetInvariant
<1> USE DEF Magnet!Init, Magnet!Nothing, Magnet!Attempts
<1>1. MagnetShapes
  BY DEF MagnetShapes, ProberShapes, GuardShapes, AriaShapes, PlaceShapes, Magnet!Steps
<1>2. GuardFollowsStep /\ KnownIsOurs /\ DirectoryIsHeld /\ TransfersAreAnswered
  BY DEF GuardFollowsStep, TransfersAreAnswered, KnownIsOurs, DirectoryIsHeld,
       Magnet!OthersAreSpared
<1>3. RunningIsWatched /\ BytesAreOfTheEnded
  BY DEF RunningIsWatched, BytesAreOfTheEnded, Magnet!DirectoryOutlivesGid
<1> QED
  BY <1>1, <1>2, <1>3 DEF MagnetInvariant

\* Every step keeps it.
LEMMA NextMagnet ==
  ASSUME MagnetInvariant, [Magnet!Next]_(Magnet!pvars)
  PROVE  MagnetInvariant'
BY NextProberShapes, NextGuardShapes, NextAriaShapes, NextPlaceShapes, NextGuardFollowsStep,
   NextKnownIsOurs, NextDirectoryIsHeld, NextTransfersAreAnswered,
   NextRunningIsWatched, NextBytesAreOfTheEnded
   DEF MagnetInvariant, MagnetShapes

\* What the invariant says of the properties of the component.
LEMMA MagnetSafety ==
  ASSUME MagnetInvariant
  PROVE  Magnet!OthersAreSpared /\ Magnet!DirectoryOutlivesGid /\ Magnet!ProbeIsWhole
<1> USE DEF MagnetInvariant
<1>1. Magnet!OthersAreSpared /\ Magnet!DirectoryOutlivesGid
  BY DEF KnownIsOurs, RunningIsWatched
<1>2. Magnet!ProbeIsWhole
  BY DEF Magnet!ProbeIsWhole, Magnet!Attempts, DirectoryIsHeld, BytesAreOfTheEnded
<1> QED
  BY <1>1, <1>2

\* However the daemon, the answers and a cancellation fall, a probe stops no transfer but its own,
\* its directory outlives its GID, and it succeeds with nothing left behind (OthersAreSpared,
\* DirectoryOutlivesGid, ProbeIsWhole).
THEOREM ProbesLeaveNothingBehind ==
  Magnet!Spec => [](Magnet!OthersAreSpared /\ Magnet!DirectoryOutlivesGid /\ Magnet!ProbeIsWhole)
<1>1. Magnet!Init => MagnetInvariant
  BY InitMagnet
<1>2. MagnetInvariant /\ [Magnet!Next]_(Magnet!pvars) => MagnetInvariant'
  BY NextMagnet
<1> QED
  BY <1>1, <1>2, MagnetSafety, PTL DEF Magnet!Spec
=============================================================================
