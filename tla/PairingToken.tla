---------------------------- MODULE PairingToken ----------------------------
(***************************************************************************)
(* The secrets of the credential store: the token by which the browser     *)
(* extension is paired and the passwords of site logins (the keychain      *)
(* functions of db.rs, the commands of lib.rs, KeychainPermissionModal.tsx *)
(* and useSettingsStore.ts).  The store may be locked or refuse, its       *)
(* prompt cannot be taken back, and a user who dismisses the dialog while  *)
(* the prompt is up must not find access granted.                          *)
(*                                                                         *)
(* Commands that hold the database lock are one step.  One site login, one *)
(* write of the settings in the queue besides the newest.  Bounds: Tokens  *)
(* alive at a time, Requests for access, MaxMisses calls of the store or   *)
(* the database that fail, MaxLives starts.  Left out: the user's other    *)
(* uses of the store, the notice of a changed token, Linux entries of      *)
(* older versions, reloads of the window.                                  *)
(***************************************************************************)
EXTENDS Naturals, Sequences, FiniteSets

CONSTANTS Tokens, Requests, MaxMisses, MaxLives

VARIABLES
  portable,   \* the secrets stay beside the executable
  stored,     \* the token in the settings, 0 none
  keychain,   \* the token in the credential store, 0 none
  saved,      \* the settings: access was granted, dismissed, the site login is there
  password,   \* the credential store has the login's password
  server,     \* the token of the extension server
  authorized, \* the commands may use the store, and whether the start decided so
  busy,       \* a grant is being worked on
  grant,      \* the grant of record
  abandoned,  \* requests dismissed before they began
  worker,     \* each request's work: its result, if any
  ui,         \* the renderer's copy of all this, and its dialog
  request,    \* each request of the dialog
  replies,    \* answers to dismissals on their way
  call,       \* a hydration, a session token or a regeneration on its way
  edit,       \* a change of the site login on its way
  writes,     \* settings to be written
  hadToken,   \* a token was stored once (history)
  spoilt,     \* a change of the login was cut short, or a stored token could not be
              \* read and another took its place (history)
  misses, lives

kvars == <<portable, stored, keychain, saved, password, server, authorized, busy, grant,
           abandoned, worker, ui, request, replies, call, edit, writes, hadToken,
           spoilt, misses, lives>>
store == <<portable, stored, keychain, hadToken, misses>>
grants == <<busy, grant, abandoned, worker>>
logins == <<password, edit, spoilt>>
window == <<ui, request, replies, writes>>

Token == {0} \cup Tokens
Result == [token : Token, lasts : BOOLEAN]
None == [token |-> 0, lasts |-> FALSE]
Saved == [granted : BOOLEAN, dismissed : BOOLEAN, login : BOOLEAN]
Faults == {"none", "get", "set", "save", "rollback", "read", "write"}

\* Every variable keeps its type.
TypeOK ==
  /\ portable \in BOOLEAN /\ {stored, keychain, server} \subseteq Token
  /\ saved \in Saved /\ password \in BOOLEAN
  /\ authorized \in {"no", "start", "grant"} /\ busy \in BOOLEAN
  /\ grant \in [id : {0} \cup Requests, cancelled : BOOLEAN, committed : BOOLEAN, result : Result]
  /\ abandoned \subseteq Requests
  /\ worker \in [Requests -> [at : {"none", "sent", "at work", "done"}, result : Result]]
  /\ ui \in [token : Token, lasts : BOOLEAN, ready : BOOLEAN, granted : BOOLEAN,
             dismissed : BOOLEAN, login : BOOLEAN, modal : BOOLEAN]
  /\ request \in [Requests -> [at : {"none", "polls", "sees", "accepts", "over"},
                               mine : {"yes", "left", "gone"}, result : Result]]
  /\ replies \subseteq [of : {"later", "unmount"}, result : Result]
  /\ call \in [what : {"none", "decide", "hydrate", "session", "regenerate"},
               done : BOOLEAN, result : Result]
  /\ edit \in {"none", "add", "added", "delete", "deleted"}
  /\ writes \in Seq(Saved) /\ Len(writes) <= 3
  /\ hadToken \in BOOLEAN /\ spoilt \subseteq {"login", "token"}
  /\ misses \in 0 .. MaxMisses /\ lives \in 0 .. MaxLives

InUse == {stored, keychain, server, ui.token, grant.result.token, call.result.token}
           \cup {worker[r].result.token : r \in Requests}
           \cup {request[r].result.token : r \in Requests} \cup {a.result.token : a \in replies}
\* A token nobody has seen.
Fresh == CHOOSE t \in Tokens : t \notin InUse /\ \A u \in Tokens \ InUse : t <= u

Idle == [what |-> "none", done |-> FALSE, result |-> None]
NoGrant == [id |-> 0, cancelled |-> FALSE, committed |-> FALSE, result |-> None]
Window(s) == [token |-> 0, lasts |-> FALSE, ready |-> FALSE, granted |-> s.granted,
              dismissed |-> s.dismissed, login |-> s.login, modal |-> FALSE]

\* An older version left its token in the settings; another run may have left one in the store.
Init ==
  /\ portable \in BOOLEAN /\ stored \in {0, 1} /\ keychain \in (IF portable THEN {0} ELSE {0, 2})
  /\ saved \in [granted : BOOLEAN, dismissed : {FALSE}, login : {FALSE}]
  /\ password = FALSE /\ server = 3 /\ authorized = "no" /\ busy = FALSE /\ grant = NoGrant
  /\ abandoned = {} /\ worker = [r \in Requests |-> [at |-> "none", result |-> None]]
  /\ ui = Window(saved)
  /\ request = [r \in Requests |-> [at |-> "none", mine |-> "gone", result |-> None]]
  /\ replies = {} /\ call = [Idle EXCEPT !.what = "decide"] /\ edit = "none" /\ writes = <<>>
  /\ hadToken = (stored # 0 \/ keychain # 0) /\ spoilt = {}
  /\ misses = 0 /\ lives = 1

-----------------------------------------------------------------------------
(* The store and the settings                                              *)

Miss(f) == misses + (IF f = "none" THEN 0 ELSE 1) <= MaxMisses
Counted(f) == misses' = misses + (IF f = "none" THEN 0 ELSE 1)

\* mutant: the settings lose the token before the store has it
SettingsFirst(f) ==
  IF stored # 0 /\ keychain = 0 /\ f = "set" THEN <<0, keychain, FALSE>>
  ELSE IF stored = 0 THEN <<0, keychain, TRUE>>
  ELSE <<0, IF keychain = 0 THEN stored ELSE keychain, TRUE>>

\* Where the token of an older version is after its migration: <<settings, store, succeeded>>.
Migration(f) ==
  LET has  == keychain # 0 /\ f # "get"
      held == IF has THEN keychain ELSE stored
  IN CASE stored = 0 -> <<0, keychain, TRUE>>
       [] stored # 0 /\ ~has /\ f = "set" -> <<stored, keychain, FALSE>>
       [] stored # 0 /\ f = "save" -> <<stored, IF has THEN keychain ELSE 0, FALSE>>
       [] stored # 0 /\ f = "rollback" -> <<stored, held, FALSE>>
       [] OTHER -> <<0, held, TRUE>>

Kept == hadToken' = (hadToken \/ stored' # 0 \/ keychain' # 0)

\* hydrate_extension_pairing_token: what the store has, or a token for this session.
Hydrated(f) ==
  IF portable
  THEN /\ stored' = IF stored # 0 THEN stored ELSE Fresh
       /\ server' = stored' /\ keychain' = keychain
       /\ call' = [call EXCEPT !.done = TRUE, !.result = [token |-> stored', lasts |-> TRUE]]
  ELSE LET m == Migration(f)
           found == IF f = "read" THEN 0 ELSE m[2]
       IN /\ stored' = m[1] /\ keychain' = m[2]
          /\ server' = IF found # 0 THEN found ELSE Fresh
          /\ call' = [call EXCEPT !.done = TRUE,
                                  !.result = [token |-> server', lasts |-> found # 0]]

\* regenerate_pairing_token: a failure leaves the token as it is.
Regenerated(f) ==
  IF portable
  THEN /\ stored' = Fresh /\ server' = Fresh /\ keychain' = keychain
       /\ call' = [call EXCEPT !.done = TRUE, !.result = [token |-> Fresh, lasts |-> TRUE]]
  ELSE LET m == Migration(f)
           works == m[3] /\ f # "write"
       IN /\ stored' = m[1] /\ keychain' = (IF works THEN Fresh ELSE m[2])
          /\ server' = (IF works THEN Fresh ELSE server)
          /\ call' = [call EXCEPT !.done = TRUE,
                                  !.result = [token |-> server', lasts |-> works]]

\* grant_keychain_access_blocking: a token that lasts, or the one there is.
Work(r, f) ==
  LET m == IF portable THEN <<IF stored # 0 THEN stored ELSE Fresh, keychain, TRUE>>
           ELSE Migration(f)
      found == IF portable THEN m[1] ELSE IF f = "read" THEN 0 ELSE m[2]
      works == m[3] /\ (found # 0 \/ f # "write")
      token == IF ~works THEN server ELSE IF found # 0 THEN found ELSE Fresh
  IN /\ worker[r].at = "at work" /\ Miss(f) /\ Counted(f)
     /\ stored' = m[1]
     /\ keychain' = (IF works /\ ~portable THEN token ELSE m[2])
     /\ worker' = [worker EXCEPT ![r] = [at |-> "done", result |-> [token |-> token, lasts |-> works]]]
     /\ busy' = FALSE /\ Kept
     /\ spoilt' = spoilt \cup (IF keychain # 0 /\ keychain' # keychain THEN {"token"} ELSE {})
     /\ UNCHANGED <<portable, saved, server, authorized, grant, abandoned, window, call, password,
                    edit, lives>>

-----------------------------------------------------------------------------
(* The renderer's calls                                                    *)

\* The start uses the store only where this version has been granted access to it.
Decide ==
  /\ call.what = "decide"
  /\ \E changed \in BOOLEAN :
       LET defer == ~portable /\ (~ui.granted \/ changed)
       IN IF defer
          THEN /\ call' = [what |-> "session", done |-> TRUE,
                           result |-> [token |-> server, lasts |-> FALSE]]
               /\ ui' = [ui EXCEPT !.modal = @ \/ changed \/ (~ui.granted /\ ~ui.dismissed)]
               /\ UNCHANGED authorized
          ELSE /\ call' = [Idle EXCEPT !.what = "hydrate"]
               /\ authorized' = (IF portable THEN authorized ELSE "start")
               /\ UNCHANGED ui
  /\ UNCHANGED <<store, saved, server, grants, request, replies, writes, logins, lives>>

Run(f) ==
  /\ call.what \in {"hydrate", "regenerate"} /\ ~call.done /\ Miss(f) /\ Counted(f)
  /\ IF call.what = "hydrate" THEN Hydrated(f) ELSE Regenerated(f)
  /\ Kept
  /\ spoilt' = spoilt \cup (IF f = "read" /\ grant.id # 0 THEN {"token"} ELSE {})
  /\ UNCHANGED <<portable, saved, authorized, grants, window, password, edit, lives>>

Over == [at |-> "over", mine |-> "gone", result |-> None]
Underway(r) == request[r].at \in {"polls", "sees", "accepts"}
Mine(r) == request[r].mine = "yes"
Here == {r \in Requests : Underway(r) /\ request[r].mine # "gone"}
Snapshot(u) == [granted |-> u.granted, dismissed |-> u.dismissed, login |-> u.login]

\* mutant: a dismissal tells the native side nothing
Forgets(R) == UNCHANGED <<grant, abandoned>>

\* abandon_keychain_grant: nothing of the request is taken up any more, unless it was before.
Cancelled(r) == grant.id = r /\ ~grant.committed
Answer(r) == IF grant.id = r /\ grant.committed THEN [token |-> server, lasts |-> TRUE] ELSE None
Abandon(R) ==
  /\ grant' = IF \E r \in R : Cancelled(r) THEN [grant EXCEPT !.cancelled = TRUE, !.result = None]
              ELSE grant
  /\ abandoned' = abandoned \cup {r \in R : grant.id # r}

\* Whatever token the renderer has, it gives to the server.
Given(u) == IF u.token # 0 /\ u.token # ui.token THEN u.token ELSE server

\* The renderer's state changes with the answers of done.  A dialog that goes dismisses what
\* it has under way.
Show(u, done) ==
  LET here == IF ui.modal /\ ~u.modal THEN Here ELSE {}
  IN /\ ui' = u
     /\ server' = Given(u)
     /\ request' = [r \in Requests |-> IF r \in here THEN [request[r] EXCEPT !.mine = "gone"]
                                       ELSE request[r]]
     /\ Abandon(here)
     /\ writes' = IF Snapshot(u) # Snapshot(ui) THEN Append(writes, Snapshot(u)) ELSE writes
     /\ replies' = (replies \ done) \cup {[of |-> "unmount", result |-> Answer(r)] : r \in here}

Room == Len(writes) < 2
\* The user sees, and clicks on, what has been rendered: the effects of that are done, and the
\* answers that no prompt delays have arrived.
Rendered ==
  replies = {} /\ call.what \notin {"decide", "session"} /\ (portable => call = Idle)

\* The answer of a hydration, of a session token or of a regeneration.
Return ==
  /\ call.done /\ Room /\ call' = Idle
  /\ LET res == call.result IN
     CASE call.what = "hydrate" ->
            Show([ui EXCEPT !.token = res.token, !.lasts = res.lasts,
                            !.modal = ~res.lasts /\ ~ui.dismissed,
                            !.ready = IF portable THEN ui.granted ELSE res.lasts], {})
       [] call.what = "session" ->
            Show([ui EXCEPT !.token = res.token, !.lasts = FALSE, !.ready = FALSE], {})
       [] OTHER -> IF res.lasts
                   THEN Show([ui EXCEPT !.token = res.token, !.lasts = TRUE, !.modal = FALSE], {})
                   ELSE Show(ui, {})
  /\ UNCHANGED <<store, saved, authorized, busy, worker, logins, lives>>

\* Something needs the store: without access the dialog explains.
NeedAccess ==
  /\ Rendered /\ ~ui.ready /\ ~ui.modal
  /\ Show([ui EXCEPT !.modal = TRUE], {})
  /\ UNCHANGED <<store, saved, authorized, busy, worker, call, logins, lives>>

Regenerate ==
  /\ Rendered /\ ~ui.modal /\ call = Idle /\ (ui.ready \/ ui.lasts)
  /\ call' = [Idle EXCEPT !.what = "regenerate"]
  /\ UNCHANGED <<store, saved, server, authorized, grants, window, logins, lives>>

-----------------------------------------------------------------------------
(* The dialog and the grant                                                *)

\* The user grants, one request at a time (bound: in the first run of the program).
Ask(r) ==
  /\ Rendered /\ ui.modal /\ request[r].at = "none" /\ Here = {} /\ lives = 1
  /\ \A q \in Requests : q < r => request[q].at # "none"
  /\ request' = [request EXCEPT ![r] = [at |-> "polls", mine |-> "yes", result |-> None]]
  /\ worker' = [worker EXCEPT ![r].at = "sent"]
  /\ UNCHANGED <<store, saved, server, authorized, busy, grant, abandoned, ui, replies,
                 call, logins, writes, lives>>

\* begin_keychain_grant: one grant at a time, and none that was dismissed already.
Begin(r) ==
  /\ worker[r].at = "sent"
  /\ IF busy \/ r \in abandoned
     THEN /\ worker' = [worker EXCEPT ![r].at = "none"]
          /\ request' = [request EXCEPT ![r] = Over]
          /\ abandoned' = (IF busy THEN abandoned ELSE abandoned \ {r})
          /\ UNCHANGED <<busy, grant>>
     ELSE /\ worker' = [worker EXCEPT ![r].at = "at work"] /\ busy' = TRUE
          /\ grant' = [NoGrant EXCEPT !.id = r]
          /\ UNCHANGED <<request, abandoned>>
  /\ UNCHANGED <<store, saved, server, authorized, ui, replies, call, logins, writes, lives>>

\* The result of a grant that was dismissed, or followed by another, is dropped.
Publish(r) ==
  /\ worker[r].at = "done"
  /\ worker' = [worker EXCEPT ![r] = [at |-> "none", result |-> None]]
  /\ grant' = IF grant.id = r /\ ~grant.cancelled
              THEN [grant EXCEPT !.result = worker[r].result] ELSE grant
  /\ UNCHANGED <<store, saved, server, authorized, busy, abandoned, window, call, logins, lives>>

\* A poll is answered: there is a result, or there will be none.
Poll(r) ==
  /\ request[r].at = "polls"
  /\ \/ /\ grant.id = r /\ grant.result # None
        /\ request' = [request EXCEPT ![r] = IF grant.result.lasts THEN [@ EXCEPT !.at = "sees"] ELSE Over]
     \/ /\ grant.id # r /\ worker[r].at = "none" /\ ~busy
        /\ request' = [request EXCEPT ![r] = Over]
  /\ UNCHANGED <<store, saved, server, authorized, grants, ui, replies, call, logins,
                 writes, lives>>

\* accept_keychain_grant, if the dialog is still the one that asked.  Answers that were sent
\* before the poll's have arrived.
Accept(r) ==
  /\ request[r].at = "sees" /\ Mine(r) /\ Rendered /\ ~call.done
  /\ IF grant.id = r /\ grant.result # None
     THEN /\ request' = [request EXCEPT ![r].at = "accepts", ![r].result = grant.result]
          /\ server' = grant.result.token
          /\ authorized' = (IF authorized = "no" THEN "grant" ELSE authorized)
          /\ grant' = [grant EXCEPT !.committed = TRUE, !.result = None]
     ELSE /\ request' = [request EXCEPT ![r] = Over]
          /\ UNCHANGED <<server, authorized, grant>>
  /\ UNCHANGED <<store, saved, busy, abandoned, worker, ui, replies, call, logins, writes,
                 lives>>

\* A dialog that is gone drops the result.
Withdraw(r) ==
  /\ request[r].at = "sees" /\ ~Mine(r)
  /\ request' = [request EXCEPT ![r] = Over]
  /\ Abandon({r})
  /\ UNCHANGED <<store, saved, server, authorized, busy, worker, ui, replies, call, logins,
                 writes, lives>>

Granted(token) ==
  [ui EXCEPT !.granted = TRUE, !.ready = TRUE, !.token = token, !.lasts = TRUE,
             !.dismissed = FALSE, !.modal = FALSE]

\* The accepted result reaches the dialog, or one that has gone.
Accepted(r) ==
  /\ request[r].at = "accepts" /\ Room
  /\ IF Mine(r)
     THEN /\ ui' = Granted(request[r].result.token) /\ server' = Given(ui')
          /\ writes' = Append(writes, Snapshot(ui'))
     ELSE UNCHANGED <<ui, server, writes>>
  /\ request' = [request EXCEPT ![r] = Over]
  /\ UNCHANGED <<store, saved, authorized, grants, replies, call, logins, lives>>

Refused == [ui EXCEPT !.granted = FALSE, !.lasts = FALSE, !.ready = FALSE, !.dismissed = TRUE,
                      !.modal = FALSE]

\* The user dismisses the dialog, and what it has under way with it.
Later ==
  /\ Rendered /\ ui.modal /\ Room
  /\ IF Here = {}
     THEN Show(Refused, {})
     ELSE /\ request' = [r \in Requests |-> IF r \in Here THEN [request[r] EXCEPT !.mine = "left"]
                                            ELSE request[r]]
          /\ Abandon(Here)
          /\ replies' = replies \cup {[of |-> "later", result |-> Answer(r)] : r \in Here}
          /\ UNCHANGED <<ui, server, writes>>
  /\ UNCHANGED <<store, saved, authorized, busy, worker, call, logins, lives>>

\* The answer to a dismissal: what was granted stays granted, else the prompt is dismissed.
Dismissed(a) ==
  /\ Room
  /\ Show(IF a.result.lasts THEN Granted(a.result.token)
          ELSE IF a.of = "later" THEN Refused ELSE ui, {a})
  /\ UNCHANGED <<store, saved, authorized, busy, worker, call, logins, lives>>

-----------------------------------------------------------------------------
(* The site login and the settings                                         *)

\* Nothing of the token is on its way.
Settled ==
  /\ call = Idle /\ replies = {}
  /\ \A r \in Requests : Underway(r) => request[r].at = "polls" /\ ~Mine(r)

\* A change of the login is a task of the settings queue: no write runs meanwhile.
Edit ==
  /\ Settled
  /\ edit = "none" /\ ui.ready /\ ~portable /\ writes = <<>>
  /\ edit' = IF ui.login THEN "delete" ELSE "add"
  /\ UNCHANGED <<store, saved, server, authorized, grants, window, call, password, spoilt, lives>>

\* mutant: the settings keep a login whose password was refused
NoRollback(f) ==
  /\ edit \in {"add", "delete"} /\ Miss(f) /\ Counted(f) /\ f \in {"none", "set"}
  /\ saved' = [saved EXCEPT !.login = edit = "add"]
  /\ password' = (IF f = "none" THEN edit = "add" ELSE password)
  /\ edit' = (IF f = "set" THEN "none" ELSE IF edit = "add" THEN "added" ELSE "deleted")
  /\ UNCHANGED <<portable, stored, keychain, hadToken, server, authorized, grants, window, call,
                 spoilt, lives>>

\* save_site_login and delete_site_login: the settings and the password, or neither.
EditRuns(f) ==
  LET adds == edit = "add" IN
  /\ edit \in {"add", "delete"} /\ Miss(f) /\ Counted(f) /\ f \in {"none", "set", "rollback"}
  /\ IF authorized = "no" \/ adds = saved.login \/ (adds /\ password)
     THEN f = "none" /\ edit' = "none" /\ UNCHANGED <<saved, password, spoilt>>
     ELSE CASE f = "none" -> /\ saved' = [saved EXCEPT !.login = adds] /\ password' = adds
                             /\ edit' = (IF adds THEN "added" ELSE "deleted") /\ UNCHANGED spoilt
            [] f = "set" -> edit' = "none" /\ UNCHANGED <<saved, password, spoilt>>
            [] OTHER -> /\ saved' = [saved EXCEPT !.login = adds] /\ spoilt' = spoilt \cup {"login"}
                        /\ edit' = "none" /\ UNCHANGED password
  /\ UNCHANGED <<portable, stored, keychain, hadToken, server, authorized, grants, window, call,
                 lives>>

Edited ==
  /\ edit \in {"added", "deleted"} /\ Room
  /\ edit' = "none" /\ ui' = [ui EXCEPT !.login = edit = "added"]
  /\ writes' = Append(writes, Snapshot(ui'))
  /\ UNCHANGED <<store, saved, server, authorized, grants, request, replies, call, password,
                 spoilt, lives>>

\* Another setting changes: the whole state as it is now will be written.
ChangeSetting ==
  /\ writes = <<>> /\ writes' = <<Snapshot(ui)>> /\ edit # "none"
  /\ UNCHANGED <<store, saved, server, authorized, grants, ui, request, replies, call,
                 logins, lives>>

\* db_save_settings: the token that waits for its migration stays where it is.
Preserve == UNCHANGED stored
Write ==
  /\ writes # <<>> /\ edit = "none"
  /\ saved' = Head(writes) /\ writes' = Tail(writes)
  /\ Preserve
  /\ UNCHANGED <<portable, keychain, hadToken, misses, server, authorized, grants, ui, request, replies, call, logins, lives>>

\* The program ends at any moment and starts again, perhaps in the middle of a change.
Restart ==
  /\ lives < MaxLives /\ lives' = lives + 1
  /\ \/ UNCHANGED <<saved, password, keychain>>
     \/ /\ edit = "add" /\ authorized # "no" /\ ~saved.login /\ ~password
        /\ saved' = [saved EXCEPT !.login = TRUE] /\ UNCHANGED <<password, keychain>>
     \/ /\ stored # 0 /\ keychain = 0 /\ ~portable
        /\ \E r \in Requests : worker[r].at = "at work"
        /\ keychain' = stored /\ UNCHANGED <<saved, password>>
  /\ server' = Fresh /\ authorized' = "no" /\ busy' = FALSE /\ grant' = NoGrant
  /\ abandoned' = {} /\ worker' = [r \in Requests |-> [at |-> "none", result |-> None]]
  /\ ui' = Window(saved')
  /\ request' = [r \in Requests |-> [at |-> IF request[r].at = "none" THEN "none" ELSE "over",
                                     mine |-> "gone", result |-> None]]
  /\ replies' = {} /\ call' = [Idle EXCEPT !.what = "decide"] /\ edit' = "none" /\ writes' = <<>>
  /\ spoilt' = spoilt \cup (IF saved'.login # password' THEN {"login"} ELSE {})
  /\ UNCHANGED <<portable, stored, hadToken, misses>>

Next ==
  \/ Decide \/ Return \/ NeedAccess \/ Regenerate \/ Later
  \/ Edit \/ Edited \/ ChangeSetting \/ Write \/ Restart
  \/ \E f \in Faults : Run(f) \/ EditRuns(f)
  \/ \E r \in Requests : Ask(r) \/ Begin(r) \/ Publish(r) \/ Poll(r) \/ Accept(r) \/ Withdraw(r)
                         \/ Accepted(r) \/ \E f \in Faults : Work(r, f)
  \/ \E a \in replies : Dismissed(a)

Spec == Init /\ [][Next]_kvars

-----------------------------------------------------------------------------

\* A pairing that was stored is never lost, whatever fails and wherever the program stops.
PairingIsKept == hadToken => stored # 0 \/ keychain # 0

\* When all has arrived the server checks against the token the window shows, and one that is
\* said to last is the one that the next start will find, unless a grant could not read the
\* store's token and wrote another, or the start could not read it beside a grant.
TokenIsShown ==
  Settled /\ "token" \notin spoilt =>
    /\ ui.token # 0 => server = ui.token
    /\ ui.lasts => ui.token = (IF portable THEN stored ELSE keychain)

\* The store is used only after a grant that the user did not dismiss.
DismissalHolds == Settled /\ authorized = "grant" => ui.granted

\* A login in the settings has its password, and no password is without its login.
LoginsAreWhole == edit = "none" /\ writes = <<>> /\ "login" \notin spoilt => saved.login = password
=============================================================================
