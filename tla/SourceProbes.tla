----------------------------- MODULE SourceProbes -----------------------------
(***************************************************************************)
(* The requests that Firelink itself sends to a source before aria2 does:  *)
(* for the name and the size of a file (fetch_metadata of lib.rs), for a   *)
(* remote .torrent (fetch_remote_torrent_bytes), and for the address that  *)
(* each source of a transfer redirects to (prepare_normal_transfer of      *)
(* queue.rs).  Each follows redirects by itself, and decides at each hop   *)
(* what of the login, the captured headers and the cookies it may show.    *)
(*                                                                         *)
(* An address is what the policies tell apart: the origin of the source,   *)
(* its https upgrade, a site that the browser gave cookies for, any other. *)
(* External: the servers.  Bounds: Hops redirects, MaxStrikes retries and  *)
(* one mirror.                                                             *)
(***************************************************************************)
EXTENDS Naturals, Sequences

CONSTANTS Hops, MaxStrikes

VARIABLES
  kind,        \* what is asked for
  known,       \* what the caller has to show, and whether its cookies wait
  sources,     \* the addresses of a transfer, the primary one first
  step,
  at, hops,    \* where the request goes, after how many redirects
  cookies,     \* they are sent; they have been asked for
  strikes,     \* the retries that are used up
  allowed,     \* the credentials of a transfer may still go with it
  plan,        \* what aria2 will be given
  last,        \* the last request that was sent
  strayed,     \* the chain has been at an address that may not have the credentials
  challenged,  \* a server has asked for a login
  sends        \* how many requests there were

svars == <<kind, known, sources, step, at, hops, cookies, strikes, allowed, plan, last, strayed,
           challenged, sends>>
caller == <<kind, known, sources>>

Origins == {"home", "secure", "site", "away"}
Source == [at : {"home", "secure", "away"}, http : BOOLEAN]
Uris == [at : Origins, verified : BOOLEAN, ranges : BOOLEAN]
Unsent == [to |-> "home", login |-> FALSE, cookie |-> "none"]

\* Every variable keeps its type.
TypeOK ==
  /\ kind \in {"metadata", "torrent", "transfer"}
  /\ known \in [login : BOOLEAN, cookies : BOOLEAN, site : BOOLEAN, deferred : BOOLEAN]
  /\ sources \in Seq(Source) /\ at \in Origins /\ hops \in 0 .. Hops
  /\ step \in {"head", "get", "range", "body", "probe", "done", "failed"}
  /\ cookies \in [sent : BOOLEAN, retried : BOOLEAN] /\ strikes \in 0 .. MaxStrikes
  /\ allowed \in BOOLEAN
  /\ plan \in [next : 1 .. 3, uris : SUBSET Uris, allowed : BOOLEAN, single : BOOLEAN]
  /\ last \in [to : Origins, login : BOOLEAN, cookie : {"none", "own", "site"}]
  /\ strayed \in BOOLEAN /\ challenged \in BOOLEAN /\ sends \in Nat

\* A mirror has the origin of the primary only if it has its scheme.
Chains ==
  {<<p>> : p \in {s \in Source : s.at = "home"}} \cup
  {<<p, m>> : p \in {s \in Source : s.at = "home"},
              m \in {s \in Source : ~s.http => s.at # "secure"}}
WellFormed(chain) ==
  Len(chain) = 2 /\ chain[1].http # chain[2].http => chain[2].at = "away"

Available == known.cookies \/ known.site

Init ==
  /\ kind \in {"metadata", "torrent", "transfer"}
  /\ known \in [login : BOOLEAN, cookies : BOOLEAN, site : BOOLEAN, deferred : BOOLEAN]
  /\ kind = "torrent" => known.deferred
  /\ kind = "transfer" => ~known.site /\ ~known.deferred
  /\ sources \in IF kind = "transfer" THEN {c \in Chains : WellFormed(c)} ELSE {<<>>}
  /\ step = CASE kind = "metadata" -> "head" [] kind = "torrent" -> "get" [] OTHER -> "probe"
  /\ at = "home" /\ hops = 0 /\ strikes = 0
  /\ cookies = [sent |-> ~known.deferred \/ ~Available, retried |-> FALSE]
  /\ allowed = TRUE
  /\ plan = [next |-> 1, uris |-> {}, allowed |-> TRUE, single |-> FALSE]
  /\ last = Unsent /\ strayed = FALSE /\ challenged = FALSE /\ sends = 0

-----------------------------------------------------------------------------
(* What a request shows                                                    *)

\* The origin of the source itself, which the first request is at.
SameOrigin == hops = 0 \/ at = "home"

\* A site gets the cookies the browser gave for it, and no other cookies leave the origin.
CookieFor ==
  IF ~cookies.sent THEN "none"
  ELSE IF known.site /\ at = "site" THEN "site"
  ELSE IF SameOrigin /\ known.cookies THEN "own" ELSE "none"

\* A transfer may also follow its own host from http to https.
MayForward(origin) == origin \in {"home", "secure"}

Credentials == known.login \/ known.cookies

ProbeShows == [to |-> at, login |-> SameOrigin /\ known.login, cookie |-> CookieFor]
TransferShows == [to |-> at, login |-> allowed /\ known.login,
                  cookie |-> IF allowed /\ known.cookies THEN "own" ELSE "none"]
Sent ==
  /\ last' = IF kind = "transfer" THEN TransferShows ELSE ProbeShows
  /\ sends' = sends + 1

-----------------------------------------------------------------------------
(* Redirects, challenges and retries                                       *)

Answers == {"found", "bare", "moved", "denied", "busy", "refused", "lost", "broken"}

Goes(next) ==
  /\ step' = next
  /\ UNCHANGED <<at, hops, cookies, strikes, allowed, plan, strayed>>

\* A strike of the budget that the hops and the passes share.
Retryable(answer) == answer \in {"busy", "lost"} /\ strikes < MaxStrikes
Strike(next) ==
  /\ step' = next /\ strikes' = strikes + 1
  /\ UNCHANGED <<at, hops, cookies, allowed, plan, strayed>>

\* Credentials that were dropped on the way are not taken up again.
Forwarded(origin) == allowed /\ MayForward(origin)

\* The location is unusable, or the next address.
Follow(next) ==
  \/ Goes("failed")
  \/ /\ \E origin \in Origins :
          /\ at' = origin
          /\ allowed' = Forwarded(origin)
          /\ strayed' = (strayed \/ ~MayForward(origin))
     /\ hops' = hops + 1 /\ step' = next
     /\ UNCHANGED <<cookies, strikes, plan>>

\* Cookies that waited are sent after a challenge, once, in a pass of its own.
Challenges(answer) ==
  answer = "denied" /\ Available /\ ~cookies.sent /\ ~cookies.retried
\* mutant: the second pass begins where the first one ended.
PassesHere(next) ==
  /\ cookies' = [sent |-> TRUE, retried |-> TRUE]
  /\ hops' = 0 /\ step' = next
  /\ UNCHANGED <<at, strikes, allowed, plan, strayed>>
SecondPass(next) ==
  /\ cookies' = [sent |-> TRUE, retried |-> TRUE]
  /\ at' = "home" /\ hops' = 0 /\ step' = next
  /\ UNCHANGED <<strikes, allowed, plan, strayed>>

-----------------------------------------------------------------------------
(* The name and the size of a file                                         *)

\* What is done about an answer to HEAD, or to the GET that took its place: no answer but a
\* redirect or a success with a length is believed without a ranged GET.  A page that asks to
\* sign in is no success.
Weighs(answer) ==
  IF Challenges(answer) THEN SecondPass("head")
  ELSE CASE answer = "moved" -> Follow("head")
         [] answer = "found" -> Goes("done") \/ Goes("failed")
         [] OTHER            -> Goes("range")

AskHead ==
  /\ kind = "metadata" /\ step = "head" /\ hops < Hops
  /\ Sent
  /\ \E answer \in Answers :
       /\ challenged' = (challenged \/ answer = "denied")
       /\ IF answer \in {"lost", "broken"} THEN Goes("get") ELSE Weighs(answer)
  /\ UNCHANGED caller

TooManyRedirects ==
  /\ kind = "metadata" /\ step = "head" /\ hops >= Hops
  /\ Goes("failed")
  /\ UNCHANGED <<caller, last, sends, challenged>>

\* A GET takes the place of a HEAD that failed.
Get ==
  /\ kind = "metadata" /\ step = "get"
  /\ Sent
  /\ \E answer \in Answers :
       /\ challenged' = (challenged \/ answer = "denied")
       /\ IF Retryable(answer) THEN Strike("get")
          ELSE IF answer \in {"lost", "broken"} THEN Goes("failed") ELSE Weighs(answer)
  /\ UNCHANGED caller

\* The ranged GET has the last word.
RangedGet ==
  /\ kind = "metadata" /\ step = "range"
  /\ Sent
  /\ \E answer \in Answers :
       /\ challenged' = (challenged \/ answer = "denied")
       /\ IF Retryable(answer) THEN Strike("range")
          ELSE IF Challenges(answer) THEN SecondPass("head")
          ELSE CASE answer = "moved"             -> Follow("head")
                 [] answer \in {"found", "bare"} -> Goes("done") \/ Goes("failed")
                 [] OTHER                        -> Goes("failed")
  /\ UNCHANGED caller

-----------------------------------------------------------------------------
(* A remote .torrent                                                       *)

FetchTorrent ==
  /\ kind = "torrent" /\ step = "get"
  /\ Sent
  /\ \E answer \in Answers :
       /\ challenged' = (challenged \/ answer = "denied")
       /\ IF Retryable(answer) THEN Strike("get")
          ELSE IF Challenges(answer) THEN SecondPass("get")
          ELSE CASE answer = "moved" /\ hops < Hops -> Follow("get")
                 [] answer \in {"found", "bare"}    -> Goes("body")
                 [] OTHER                           -> Goes("failed")
  /\ UNCHANGED caller

\* The body is read to its end, breaks off and is fetched again, or is too long or empty.
ReadTorrent ==
  /\ kind = "torrent" /\ step = "body"
  /\ \/ Goes("done")
     \/ Goes("failed")
     \/ Retryable("lost") /\ Strike("get")
  /\ UNCHANGED <<caller, last, sends, challenged>>

-----------------------------------------------------------------------------
(* The sources of a transfer                                               *)

Now == sources[plan.next]

\* One source is settled: with credentials, a mirror must have the origin of the primary; without
\* ranges, the transfer gets one connection.
Accept(uri, permitted) ==
  IF plan.next > 1 /\ Credentials /\ ~permitted THEN Goes("failed")
  ELSE LET last_one == plan.next = Len(sources) IN
       /\ plan' = [next |-> plan.next + 1, uris |-> plan.uris \cup {uri},
                   allowed |-> plan.allowed /\ permitted, single |-> plan.single \/ ~uri.ranges]
       /\ step' = IF last_one THEN "done" ELSE "probe"
       /\ at' = IF last_one THEN at ELSE sources[plan.next + 1].at
       /\ allowed' = (~last_one /\ MayForward(sources[plan.next + 1].at))
       /\ hops' = 0 /\ strayed' = (~last_one /\ ~MayForward(sources[plan.next + 1].at))
       /\ UNCHANGED <<cookies, strikes>>

\* What is not HTTP is not asked.
TakePlain ==
  /\ kind = "transfer" /\ step = "probe" /\ ~Now.http
  /\ Accept([at |-> Now.at, verified |-> TRUE, ranges |-> TRUE], MayForward(Now.at))
  /\ UNCHANGED <<caller, last, sends, challenged>>

\* A source that cannot be asked is taken as it is, unless there are credentials to protect.
Unverified ==
  IF Credentials THEN Goes("failed")
  ELSE Accept([at |-> Now.at, verified |-> FALSE, ranges |-> TRUE], TRUE)

\* The ranged GET that finds the last address of a source, and whether it serves ranges.
ProbeRange ==
  /\ kind = "transfer" /\ step = "probe" /\ Now.http
  /\ Sent
  /\ \E answer \in Answers \ {"denied", "busy", "bare"} :
       CASE answer \in {"lost", "broken"} -> Unverified
         [] answer = "moved" -> IF hops < Hops THEN Follow("probe") ELSE Goes("failed")
         [] OTHER ->
              Accept([at |-> at, verified |-> TRUE, ranges |-> answer # "refused"], allowed)
  /\ UNCHANGED <<caller, challenged>>

Next ==
  \/ AskHead \/ TooManyRedirects \/ Get \/ RangedGet
  \/ FetchTorrent \/ ReadTorrent
  \/ TakePlain \/ ProbeRange

Spec == Init /\ [][Next]_svars

-----------------------------------------------------------------------------
(* Properties                                                              *)

\* A login or a cookie goes to its own origin only, whatever redirects, retries and second passes
\* came before; a transfer whose chain once left the origin has none for the rest of it.
CredentialsStayHome ==
  /\ last.login \/ last.cookie = "own" =>
       last.to = "home" \/ (kind = "transfer" /\ last.to = "secure")
  /\ last.cookie = "site" => last.to = "site"
  /\ strayed => ~allowed

\* Captured cookies that may be too large for the server are held back until one asks for a login.
CookiesWait ==
  kind # "transfer" /\ known.deferred /\ last.cookie # "none" => challenged

\* The hops, the passes and the retries have one bound together.
SendsAreBounded ==
  sends <= strikes + 2 * IF kind = "metadata" THEN 3 * Hops ELSE Hops + 1

\* aria2 has the credentials only if every address it is given was found to be allowed them, and
\* more than one connection only if no source refused a range.
TransferIsPrepared ==
  kind = "transfer" /\ step = "done" =>
    /\ Credentials /\ plan.allowed =>
         \A uri \in plan.uris : uri.verified /\ MayForward(uri.at)
    /\ plan.single <=> \E uri \in plan.uris : ~uri.ranges

=============================================================================
