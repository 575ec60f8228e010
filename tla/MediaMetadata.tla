----------------------------- MODULE MediaMetadata -----------------------------
(***************************************************************************)
(* What yt-dlp says of a page, asked by the window that adds downloads     *)
(* (fetch_media_metadata and fetch_media_playlist_metadata of lib.rs,      *)
(* mediaMetadata.ts): the promises the window shares, the cache with its   *)
(* age and its size, the lock that lets one caller of a key run yt-dlp     *)
(* while the others wait for its answer, and the cookies a run may fall    *)
(* back to.                                                                *)
(*                                                                         *)
(* One page, one browser and one cookie file: the requests differ in the   *)
(* cookies they ask for; a playlist is asked for its entries.  External:   *)
(* yt-dlp, which answers or fails, and the cookie file, which changes at   *)
(* any time and whose length or time of modification tells its contents    *)
(* apart.  Bounds: MaxAsks requests of the window, MaxRewrites changes of  *)
(* the file, MaxCalls commands at a time; the cache has room for           *)
(* MaxEntries answers.                                                     *)
(***************************************************************************)
EXTENDS Naturals, Sequences, SequencesExt

CONSTANTS MaxCalls, MaxAsks, MaxEntries, MaxRewrites

VARIABLES
  list,       \* the page is a playlist
  calls,      \* the commands that run, each in a place of its own
  cache,      \* the answers that are kept, the oldest first
  expired,    \* how many of them are too old
  locks,      \* per key, the lock its callers share
  present,    \* the cookie file is there
  rewrites,   \* how often it has changed
  asks

mvars == <<list, calls, cache, expired, locks, present, rewrites, asks>>
page == <<list, present, rewrites>>
shared == <<cache, expired, locks>>

Calls == 1 .. MaxCalls

\* A playlist, which is never kept, is asked for with all there is to fall back to.
Wants == {w \in [playlist : BOOLEAN, browser : BOOLEAN, file : BOOLEAN] :
            w.playlist => w.browser /\ w.file}
Read == [source : {"browser", "file", "free"}, version : 0 .. MaxRewrites]
Failed == [source |-> "none", version |-> 0]
Idle == [step |-> "none", wants |-> [playlist |-> FALSE, browser |-> FALSE, file |-> FALSE],
         key |-> Failed, into |-> Failed, lock |-> 0, held |-> FALSE, answer |-> Failed]

\* Every variable keeps its type.
TypeOK ==
  /\ calls \in [Calls -> [step : {"none", "look", "claim", "wait", "run", "ends", "store",
                                  "release", "answered"},
                          wants : Wants, key : Read \cup {Failed},
                          into : Read \cup {Failed}, lock : 0 .. MaxAsks, held : BOOLEAN,
                          answer : Read \cup {Failed}]]
  /\ cache \in Seq([key : Read, read : Read]) /\ expired \in 0 .. Len(cache)
  /\ DOMAIN locks \subseteq Read /\ \A k \in DOMAIN locks : locks[k] \in 1 .. MaxAsks
  /\ list \in BOOLEAN /\ present \in BOOLEAN /\ rewrites \in 0 .. MaxRewrites
  /\ asks \in 0 .. MaxAsks

Init ==
  /\ calls = [c \in Calls |-> Idle]
  /\ cache = <<>> /\ expired = 0 /\ locks = <<>>
  /\ list \in BOOLEAN /\ present \in BOOLEAN /\ rewrites = 0
  /\ asks = 0

\* The key of what is read with these cookies: that of the file names what the file holds now.
KeyOf(source) == [source |-> source, version |-> IF source = "file" THEN rewrites ELSE 0]

\* A configured file is no part of the key while the browser's cookies are asked for.
Preferred(w) == IF w.browser THEN "browser" ELSE IF w.file THEN "file" ELSE "free"

Step(c, next) == calls' = [calls EXCEPT ![c].step = next]

-----------------------------------------------------------------------------
(* The window                                                              *)

\* A request that is not on its way already becomes a command.  A file that is asked for alone
\* must be there.
Begin(c, w, first) ==
  /\ calls[c].step = "none" /\ asks < MaxAsks
  /\ \A d \in 1 .. c - 1 : calls[d].step # "none"             \* the first place that is free
  /\ ~\E d \in Calls : calls[d].step # "none" /\ calls[d].wants = w
  /\ asks' = asks + 1
  /\ calls' = [calls EXCEPT ![c] =
       IF Preferred(w) = "file" /\ ~present THEN [Idle EXCEPT !.step = "answered", !.wants = w]
       ELSE first]
  /\ UNCHANGED <<shared, page>>

\* That for the formats of a page looks for an answer first, ...
Ask(c, w) ==
  /\ ~list /\ ~w.playlist
  /\ Begin(c, w, [Idle EXCEPT !.step = "look", !.wants = w, !.key = KeyOf(Preferred(w))])

\* ... that for a playlist runs yt-dlp every time.
AskForList(c, w) ==
  /\ list /\ w.playlist
  /\ LET key == KeyOf(Preferred(w))
     IN Begin(c, w, [Idle EXCEPT !.step = "run", !.wants = w, !.key = key, !.into = key])

\* The command returns, and lets its lock go; the window forgets that it has asked.
Settle(c) ==
  /\ calls[c].step = "answered"
  /\ calls' = [calls EXCEPT ![c] = Idle]
  /\ UNCHANGED <<shared, page, asks>>

-----------------------------------------------------------------------------
(* The cache and the locks                                                 *)

Kept == SubSeq(cache, expired + 1, Len(cache))
Purge == cache' = Kept /\ expired' = 0
Hits(key) == {Kept[i].read : i \in {j \in 1 .. Len(Kept) : Kept[j].key = key}}

Age ==
  /\ expired < Len(cache)
  /\ expired' = expired + 1
  /\ UNCHANGED <<calls, cache, locks, page, asks>>

\* A first look needs no lock.
Look(c) ==
  /\ calls[c].step = "look"
  /\ Purge
  /\ IF Hits(calls[c].key) = {} THEN Step(c, "claim")
     ELSE \E read \in Hits(calls[c].key) :
            calls' = [calls EXCEPT ![c].step = "answered", ![c].answer = read]
  /\ UNCHANGED <<locks, page, asks>>

\* The lock of the key is shared by its callers, and made by the first.
Claim(c) ==
  /\ calls[c].step = "claim"
  /\ LET key   == calls[c].key
         used  == {locks[k] : k \in DOMAIN locks} \cup {calls[d].lock : d \in Calls}
         fresh == CHOOSE l \in 1 .. MaxAsks : l \notin used
         lock  == IF key \in DOMAIN locks THEN locks[key] ELSE fresh
     IN /\ locks' = [k \in DOMAIN locks \cup {key} |-> IF k = key THEN lock ELSE locks[k]]
        /\ calls' = [calls EXCEPT ![c].step = "wait", ![c].lock = lock]
  /\ UNCHANGED <<cache, expired, page, asks>>

\* Whoever has it finds the answer of the one before, or runs yt-dlp itself.
Enter(c) ==
  /\ calls[c].step = "wait"
  /\ ~\E d \in Calls : calls[d].held /\ calls[d].lock = calls[c].lock
  /\ Purge
  /\ IF Hits(calls[c].key) = {}
     THEN calls' = [calls EXCEPT ![c].step = "run", ![c].held = TRUE, ![c].into = calls[c].key]
     ELSE \E read \in Hits(calls[c].key) :
            calls' = [calls EXCEPT ![c].step = "release", ![c].answer = read]
  /\ UNCHANGED <<locks, page, asks>>

\* An answer is kept under the cookies it was read with, in place of the oldest if there is no room.
Evicted(key) ==
  Len(cache) >= MaxEntries /\ ~\E i \in 1 .. Len(cache) : cache[i].key = key
Store(c) ==
  /\ calls[c].step = "store"
  /\ LET key   == calls[c].into
         entry == [key |-> key, read |-> calls[c].answer]
         Other(e) == e.key # key
         gone(n) == Len(SelectSeq(SubSeq(cache, 1, n), Other))
     IN IF Evicted(key)
        THEN /\ cache' = Append(Tail(cache), entry)
             /\ expired' = IF expired = 0 THEN 0 ELSE expired - 1
        ELSE cache' = Append(SelectSeq(cache, Other), entry) /\ expired' = gone(expired)
  /\ calls' = [calls EXCEPT ![c].step = "release", ![c].held = FALSE, ![c].into = Failed]
  /\ UNCHANGED <<locks, page, asks>>

\* mutant: the lock goes with the first of its callers.
AnyOf(c) == TRUE
\* The lock goes with the last of its callers: the map and this one hold it, nobody else.
LastOf(c) == ~\E d \in Calls \ {c} : calls[d].lock = calls[c].lock
Release(c) ==
  /\ calls[c].step = "release"
  /\ LET key  == calls[c].key
         ours == LastOf(c) /\ key \in DOMAIN locks /\ locks[key] = calls[c].lock
     IN locks' = IF ours THEN [k \in DOMAIN locks \ {key} |-> locks[k]] ELSE locks
  /\ Step(c, "answered")
  /\ UNCHANGED <<cache, expired, page, asks>>

-----------------------------------------------------------------------------
(* yt-dlp                                                                  *)

\* Some time after its start yt-dlp reads the cookies.
ReadCookies(c) ==
  /\ calls[c].step = "run"
  /\ calls' = [calls EXCEPT ![c].step = "ends", ![c].answer = KeyOf(calls[c].into.source)]
  /\ UNCHANGED <<shared, page, asks>>

\* It answers with the formats of the page, ...
Answers(c) ==
  /\ calls[c].step = "ends" /\ ~calls[c].wants.playlist
  /\ Step(c, "store")
  /\ UNCHANGED <<shared, page, asks>>

\* ... or with the entries of the playlist, ...
Lists(c) ==
  /\ calls[c].step = "ends" /\ calls[c].wants.playlist
  /\ calls' = [calls EXCEPT ![c].step = "answered", ![c].into = Failed]
  /\ UNCHANGED <<shared, page, asks>>

Fails(c) == [calls[c] EXCEPT !.answer = Failed, !.into = Failed, !.held = FALSE,
                             !.step = IF calls[c].wants.playlist THEN "answered" ELSE "release"]

\* ... or has none, fails, says too much, or takes too long and is killed, ...
Errs(c) ==
  /\ calls[c].step = "ends"
  /\ calls' = [calls EXCEPT ![c] = Fails(c)]
  /\ UNCHANGED <<shared, page, asks>>

\* ... or cannot read the cookies: those of the browser are replaced by the file, if one was
\* configured and is there, and those of that file by none.  A file that was asked for is not.
Fallback(c) ==
  IF calls[c].into.source = "browser" THEN IF calls[c].wants.file /\ present THEN "file" ELSE "free"
  ELSE IF calls[c].into.source = "file" /\ calls[c].wants.browser THEN "free" ELSE "none"
Again(c) ==
  [calls[c] EXCEPT !.step = "run", !.answer = Failed, !.into = KeyOf(Fallback(c))]
CookiesFail(c) ==
  /\ calls[c].step = "ends" /\ calls[c].into.source # "free"
  /\ calls' = [calls EXCEPT ![c] = IF Fallback(c) = "none" THEN Fails(c) ELSE Again(c)]
  /\ UNCHANGED <<shared, page, asks>>

\* The cookie file is written, or removed, by somebody else.
Rewrite ==
  /\ rewrites < MaxRewrites
  /\ rewrites' = rewrites + 1
  /\ present' \in BOOLEAN /\ (present \/ present')
  /\ UNCHANGED <<list, calls, shared, asks>>

Next ==
  \/ Age \/ Rewrite
  \/ \E c \in Calls :
       \/ \E w \in Wants : Ask(c, w) \/ AskForList(c, w)
       \/ Settle(c) \/ Look(c) \/ Claim(c) \/ Enter(c) \/ Store(c)
       \/ Release(c) \/ ReadCookies(c) \/ Answers(c) \/ Lists(c) \/ Errs(c) \/ CookiesFail(c)

Spec == Init /\ [][Next]_mvars

-----------------------------------------------------------------------------
(* Properties                                                              *)

\* Of the callers of one key, one at a time runs yt-dlp: no caller makes a second lock while
\* another still waits for the first.
OneRunPerKey ==
  \A c, d \in Calls :
    c # d /\ calls[c].held /\ calls[d].held => calls[c].key # calls[d].key

\* What is kept under a key was read with the cookies it names, and from a cookie file that was no
\* older than the one whose contents the key stands for.
KeptUnderItsCookies ==
  \A i \in 1 .. Len(cache) :
    /\ cache[i].read.source = cache[i].key.source
    /\ cache[i].read.version >= cache[i].key.version

\* A request without cookies is never told what was read with some, and one that names the file is
\* told what the file gave since it was asked.
AnswersAreTheirOwn ==
  \A c \in Calls :
    LET answer == calls[c].answer IN
    calls[c].step = "answered" /\ answer # Failed /\ ~calls[c].wants.browser =>
      /\ answer.source = Preferred(calls[c].wants)
      /\ answer.version >= calls[c].key.version

\* The cache holds one answer per key, and no more than it has room for.
CacheIsBounded ==
  /\ Len(cache) <= MaxEntries
  /\ \A i, j \in 1 .. Len(cache) : cache[i].key = cache[j].key => i = j

=============================================================================
