--------------------------- MODULE BrowserSession ---------------------------
(***************************************************************************)
(* One tab's session: the access token in the page's memory, the refresh   *)
(* cookie, the refresh every caller shares, the signed-in user, the event  *)
(* stream and its reconnection, log in, quick access, log out, and the     *)
(* settings that say what the device remembers.                            *)
(*                                                                         *)
(* A step runs from one await to the next. Microtasks are not steps: all   *)
(* that waits for the shared refresh resumes with its answer. A hard       *)
(* navigation is a page load: memory is gone, cookie and localStorage stay.*)
(* Sessions has the server's refresh tokens, concurrent tabs included;     *)
(* here the server serves each request of this tab in one step.            *)
(***************************************************************************)
EXTENDS Naturals, FiniteSets

CONSTANTS
  Users, HasPin,   \* accounts; those with a PIN
  Slots,           \* requests and handlers under way at once
  Streams,         \* event streams this tab may hold
  Ids,             \* refresh tokens that something still refers to
  None

ASSUME BrowserAssumption ==
  /\ HasPin \subseteq Users /\ None \notin Users \cup Slots \cup Streams \cup Ids

VARIABLES
  (* the server *)
  active,      \* users that are not deactivated
  row,         \* refresh tokens: whose, and live, rotated or revoked
  (* kept across page loads *)
  jar,         \* the refresh token in the cookie
  scope,       \* dashpoint_remember_scope
  (* the page *)
  token,       \* the access token
  user, isSaving, pendingRememberScope,
  call,        \* requests under way and the handlers that wait
  enabled,     \* whether useUserEvents is switched on, as its effect last saw
  ref,         \* abortControllerRef: the stream it believes it has
  conn,
  timer,       \* a reconnection is scheduled
  (* history *)
  lost,        \* the answer with the last cookie's successor never arrived
  out          \* logged out while nothing else was under way

server  == <<active, row>>
device  == <<jar, scope>>
stream  == <<enabled, ref, conn, timer>>
history == <<lost, out>>
vars    == <<server, device, token, user, isSaving, pendingRememberScope, call,
             stream, history>>
-----------------------------------------------------------------------------
Kinds  == {"none", "refresh", "getMe", "update", "request", "login", "pinLogin",
           "verify", "logout", "save", "event"}
NoToken == [user |-> None, good |-> FALSE]
Unused  == [user |-> None, state |-> "unused"]
NoCall  == [kind |-> "none", step |-> "none", user |-> None, good |-> FALSE,
            sent |-> None, got |-> None, remember |-> FALSE, boot |-> FALSE,
            save |-> FALSE, retried |-> FALSE, on |-> None]
NoConn  == [step |-> "none", user |-> None, good |-> FALSE, retried |-> FALSE,
            on |-> None, aborted |-> FALSE, event |-> "none"]

Idle(s)     == call[s].kind = "none"
Under(k)    == {s \in Slots : call[s].kind = k}
Refreshes   == Under("refresh")
(* isLoading, isRefreshingRef, isProcessingEventRef.                       *)
IsLoading    == \E s \in Slots : call[s].boot
IsRefreshing == Under("getMe") \cup Under("update") # {}
IsProcessingEvent == Under("update") \cup Under("event") # {}

(* What DashboardLayout and RouteGuard show.                               *)
ScreenShown == ~IsLoading /\ user # None
LoginShown  == ~IsLoading /\ user = None

(* The refresh tokens something refers to; the others' ids are used again. *)
HeldBy(j, c) == {j} \cup {c[s].sent : s \in Slots} \cup {c[s].got : s \in Slots}
Kept(r, held) == [k \in Ids |-> IF k \in held THEN r[k] ELSE Unused]
-----------------------------------------------------------------------------
(* The shared refresh: what is being refreshed already is waited for.      *)
(* Mutant: every caller starts one.                                        *)
NoneShared == {}
Shared == Refreshes

NewRefresh(remember) ==
  [NoCall EXCEPT !.kind = "refresh", !.step = "asked", !.sent = jar,
                 !.remember = remember]
(* Mutant: an untouched switch counts for a choice.                        *)
PendingOnly(device_scope) == pendingRememberScope
RefreshScope(device_scope) ==
  IF pendingRememberScope # None THEN pendingRememberScope ELSE device_scope

Blocked(h, r) == [h EXCEPT !.step = "waiting", !.on = r, !.user = None, !.good = FALSE]

(* Handler h, in slot s, waits for the refresh; sc is the device's scope.  *)
AwaitRefresh(s, h, sc) ==
  \/ \E r \in Shared \ {s} :
       /\ call' = [call EXCEPT ![s] = Blocked(h, r)]
       /\ UNCHANGED pendingRememberScope
  \/ /\ Shared = {}
     /\ \E r \in Slots \ {s} :
          /\ Idle(r)
          /\ call' = [call EXCEPT ![s] = Blocked(h, r),
                                  ![r] = NewRefresh(RefreshScope(sc))]
     /\ pendingRememberScope' = None

(* reissueSessionCookie lets a refresh under way end first.                *)
(* Mutant: it takes that one for its own.                                  *)
ReissueAtOnce(s, h, sc) == AwaitRefresh(s, [h EXCEPT !.retried = TRUE], sc)
StartReissue(s, h, sc)  == AwaitRefresh(s, h, sc)

(* A stream that got 401 waits for it too.                                 *)
StreamAwaitsRefresh(c) ==
  \/ \E r \in Shared :
       /\ conn' = [conn EXCEPT ![c] = [NoConn EXCEPT !.step = "waiting", !.on = r]]
       /\ UNCHANGED <<call, pendingRememberScope>>
  \/ /\ Shared = {}
     /\ \E r \in Slots :
          /\ Idle(r)
          /\ conn' = [conn EXCEPT ![c] = [NoConn EXCEPT !.step = "waiting", !.on = r]]
          /\ call' = [call EXCEPT ![r] = NewRefresh(RefreshScope(scope))]
     /\ pendingRememberScope' = None
-----------------------------------------------------------------------------
(* A page load: everything in memory is gone and the boot effect asks for  *)
(* a session with cookie j; its 12-second failsafe never comes before the  *)
(* refresh's own 8 seconds. A new cookie still under way is lost.          *)
Reload(j) ==
  /\ \E s \in Slots :
       call' = [x \in Slots |-> IF x = s
                  THEN [NewRefresh(scope) EXCEPT !.sent = j, !.boot = TRUE]
                  ELSE NoCall]
  /\ jar' = j /\ row' = Kept(row, {j})
  /\ token' = NoToken /\ user' = None /\ isSaving' = None
  /\ pendingRememberScope' = None
  /\ enabled' = FALSE /\ ref' = None /\ timer' = FALSE
  /\ conn' = [c \in Streams |-> NoConn]
  /\ lost' = IF j # jar THEN FALSE
             ELSE lost \/ \E s \in Refreshes : call[s].got # None
  /\ UNCHANGED <<active, scope, out>>

LoadPage == (ScreenShown \/ LoginShown) /\ Reload(jar)
-----------------------------------------------------------------------------
(* ApiTransport.request: any screen's, and GET /me of refreshUser.         *)
Asked(kind) == [NoCall EXCEPT !.kind = kind, !.step = "asked",
                              !.user = token.user, !.good = token.good]

SendRequest ==
  /\ ScreenShown
  /\ \E s \in Slots : Idle(s) /\ call' = [call EXCEPT ![s] = Asked("request")]
  /\ UNCHANGED <<server, device, token, user, isSaving, pendingRememberScope,
                 stream, history>>

(* The window gets the focus.                                              *)
RefreshUser ==
  /\ user # None /\ ~IsRefreshing
  /\ \E s \in Slots : Idle(s) /\ call' = [call EXCEPT ![s] = Asked("getMe")]
  /\ UNCHANGED <<server, device, token, user, isSaving, pendingRememberScope,
                 stream, history>>

Requests == {"getMe", "update", "request"}

ServeRequest(s) ==
  /\ call[s].kind \in Requests /\ call[s].step = "asked"
  /\ call' = [call EXCEPT ![s].good = FALSE, ![s].step =
       IF ~call[s].good THEN "unauthorized"
       ELSE IF call[s].user \notin active THEN "inactive" ELSE "ok"]
  /\ UNCHANGED <<server, device, token, user, isSaving, pendingRememberScope,
                 stream, history>>

(* The answer arrives. The first 401 is retried after a refresh.           *)
RequestAnswered(s) ==
  /\ call[s].kind \in Requests /\ call[s].step \in {"ok", "unauthorized", "inactive"}
  /\ \/ /\ call[s].step = "ok"
        /\ call' = [call EXCEPT ![s] = NoCall]
        /\ IF call[s].kind = "request"
             THEN UNCHANGED user
             ELSE user' = call[s].user
        /\ UNCHANGED <<server, jar, scope, token, isSaving, pendingRememberScope,
                       stream, history>>
     \/ /\ call[s].step # "ok" /\ ~call[s].retried
        /\ AwaitRefresh(s, call[s], scope)
        /\ UNCHANGED <<server, device, token, user, isSaving, stream, history>>
     \/ /\ call[s].step = "unauthorized" /\ call[s].retried
        /\ call' = [call EXCEPT ![s] = NoCall]
        /\ UNCHANGED <<server, device, token, user, isSaving, pendingRememberScope,
                       stream, history>>
     \/ /\ call[s].step = "inactive" /\ call[s].retried
        /\ Reload(jar)

(* Or the network fails.                                                   *)
RequestFails(s) ==
  /\ call[s].kind \in Requests /\ call[s].step \in {"asked", "ok"}
  /\ call' = [call EXCEPT ![s] = NoCall]
  /\ UNCHANGED <<server, device, token, user, isSaving, pendingRememberScope,
                 stream, history>>

(* The access token's fifteen minutes are over.                            *)
Expire ==
  /\ token.good
  /\ token' = [token EXCEPT !.good = FALSE]
  /\ UNCHANGED <<server, device, user, isSaving, pendingRememberScope, call,
                 stream, history>>
-----------------------------------------------------------------------------
(* POST /auth/refresh. A token rotated before is continued within the      *)
(* grace window and taken for stolen after it.                             *)
Mint(s, u, others) ==
  \E k \in Ids :
    /\ row[k] = Unused
    /\ call' = [call EXCEPT ![s].step = "ok", ![s].sent = None, ![s].got = k]
    /\ row' = Kept([others EXCEPT ![k] = [user |-> u, state |-> "live"]],
                   HeldBy(jar, call'))
Refuse(s) == call' = [call EXCEPT ![s].step = "refused", ![s].sent = None]

ServeRefresh(r) ==
  LET k == call[r].sent
      valid == k # None /\ row[k].state # "revoked" /\ row[k].user \in active IN
  /\ call[r].kind = "refresh" /\ call[r].step = "asked"
  /\ \/ ~valid /\ Refuse(r) /\ row' = Kept(row, HeldBy(jar, call'))
     \/ valid /\ Mint(r, row[k].user, [row EXCEPT ![k].state = "rotated"])
     \/ /\ valid /\ row[k].state = "rotated" /\ Refuse(r)
        /\ row' = Kept([j \in Ids |-> IF row[j].user = row[k].user
                          THEN [row[j] EXCEPT !.state = "revoked"] ELSE row[j]],
                       HeldBy(jar, call'))
  /\ UNCHANGED <<active, device, token, user, isSaving, pendingRememberScope,
                 stream, history>>

(* The promise resolves: the token is stored or the session cleared, and   *)
(* everything that waits goes on. The boot shows the user it got and asks  *)
(* /me; a request is sent again; a saved preference, which let the refresh *)
(* under way end first, starts its own with the chosen scope; a stream     *)
(* connects again, and one given up meanwhile clears the ref, whosever it  *)
(* is by now. Without a session a request leaves for /login; after a role  *)
(* change the page is loaded again either way.                             *)
(* Mutant: only requests are sent again.                                   *)
WaitingRequests(r) == {x \in Slots : /\ call[x].kind \in Requests
                                     /\ call[x].step = "waiting" /\ call[x].on = r}
Waiting(r)  == {x \in Slots : call[x].step = "waiting" /\ call[x].on = r}
Draining(r) == {x \in Waiting(r) : call[x].kind = "save" /\ ~call[x].retried}
Leaves(r, ok) ==
  \E x \in Waiting(r) : call[x].kind = "event" \/ (~ok /\ call[x].kind \in Requests)

Resumed(c, r, ok, new) ==
  IF conn[c].step # "waiting" \/ conn[c].on # r THEN conn[c]
  ELSE IF ok /\ ~conn[c].aborted
    THEN [conn[c] EXCEPT !.step = "asked", !.on = None, !.retried = TRUE,
                         !.user = new.user, !.good = TRUE]
    ELSE NoConn
GivenUp(r, ok) == {c \in Streams : /\ conn[c].step = "waiting" /\ conn[c].on = r
                                   /\ ~ok \/ conn[c].aborted}
(* Connections end; what a stream does whose ref was cleared by another's  *)
(* end is left out, but for its being there until a page load.             *)
Orphaned(gone, rest) ==
  [c \in Streams |-> IF c = ref /\ gone \notin {{}, {ref}} /\ rest[c] # NoConn
                       THEN [NoConn EXCEPT !.step = "orphan"] ELSE rest[c]]
ClearRef(gone, rest) ==
  /\ ref' = IF gone = {} THEN ref ELSE None
  /\ conn' = Orphaned(gone, rest)

NextOf(x, r, new) ==
  CASE x = r -> IF call[r].boot /\ new.good
                  THEN [NoCall EXCEPT !.kind = "getMe", !.step = "asked",
                                      !.user = new.user, !.good = TRUE]
                  ELSE NoCall
    [] x \in Waiting(r) /\ call[x].kind \in Requests ->
         [call[x] EXCEPT !.step = "asked", !.retried = TRUE, !.on = None,
                         !.user = new.user, !.good = TRUE]
    [] x \in Draining(r) -> [call[x] EXCEPT !.retried = TRUE]
    [] x \in Waiting(r) \ Draining(r) /\ call[x].kind = "save" -> NoCall
    [] OTHER -> call[x]

(* reissueSessionCookie goes on: the first to resume starts its refresh,   *)
(* the others find that one under way and leave their flag behind.         *)
Reissue(r, j, new) ==
  \E first \in Draining(r) :
    /\ call' = [x \in Slots |->
         IF x = r THEN [NewRefresh(call[first].remember) EXCEPT !.sent = j]
                  ELSE NextOf(x, r, new)]
    /\ \/ Draining(r) = {first} /\ pendingRememberScope' = None
       \/ \E last \in Draining(r) \ {first} :
            pendingRememberScope' = call[last].remember

Settle(r, ok) ==
  LET new == IF ok THEN [user |-> row[call[r].got].user, good |-> TRUE] ELSE NoToken
      j   == IF ok THEN call[r].got ELSE jar IN
  /\ \/ Leaves(r, ok) /\ Reload(j)
     \/ /\ ~Leaves(r, ok)
        /\ jar' = j /\ token' = new
        /\ user' = IF call[r].boot THEN new.user ELSE user
        /\ \/ Draining(r) # {} /\ Reissue(r, j, new)
           \/ /\ Draining(r) = {} /\ UNCHANGED pendingRememberScope
              /\ call' = [x \in Slots |-> NextOf(x, r, new)]
        /\ isSaving' = IF isSaving \in Waiting(r) \ Draining(r) THEN None ELSE isSaving
        /\ row' = Kept(row, HeldBy(jar', call'))
        /\ ClearRef(GivenUp(r, ok), [c \in Streams |-> Resumed(c, r, ok, new)])
        /\ lost' = IF ok THEN FALSE ELSE lost \/ call[r].got # None
        /\ UNCHANGED <<active, scope, enabled, timer, out>>

RefreshAnswered(r) ==
  /\ call[r].kind = "refresh" /\ call[r].step \in {"ok", "refused"}
  /\ Settle(r, call[r].step = "ok")

(* AbortSignal.timeout(8000), or the network or the server fails.          *)
RefreshFails(r) ==
  /\ call[r].kind = "refresh" /\ call[r].step \in {"asked", "ok"}
  /\ Settle(r, FALSE)
-----------------------------------------------------------------------------
(* Log in by email, Quick Access by PIN, and the settings' check of the    *)
(* password, which logs in once more.                                      *)
Signing == {"login", "pinLogin", "verify"}
SignIn(kind, u, save) ==
  /\ \E s \in Slots :
       /\ Idle(s)
       /\ call' = [call EXCEPT ![s] = [NoCall EXCEPT !.kind = kind, !.step = "asked",
                     !.user = u, !.save = save]]
  /\ out' = FALSE
  /\ UNCHANGED <<server, device, token, user, isSaving, pendingRememberScope,
                 stream, lost>>

LoginForm == LoginShown /\ Under("login") = {}
SubmitLogin ==
  /\ LoginForm
  /\ \E u \in Users, save \in BOOLEAN : SignIn("login", u, save)
(* On the login page and in the sidebar, whose dialog may be opened anew   *)
(* while a PIN is checked; the current account is not offered.             *)
PinPad == ScreenShown \/ (LoginShown /\ Under("pinLogin") = {})
SubmitPin ==
  /\ PinPad
  /\ \E u \in HasPin \ {user} : SignIn("pinLogin", u, FALSE)
VerifyForm == ScreenShown /\ Under("verify") = {}
VerifyPassword ==
  /\ VerifyForm
  /\ SignIn("verify", user, FALSE)

ServeSignIn(s) ==
  /\ call[s].kind \in Signing /\ call[s].step = "asked"
  /\ \/ Refuse(s) /\ UNCHANGED row
     \/ call[s].user \in active /\ Mint(s, call[s].user, row)
  /\ UNCHANGED <<active, device, token, user, isSaving, pendingRememberScope,
                 stream, history>>

SignedIn(s) ==
  /\ call[s].kind \in Signing /\ call[s].step = "ok"
  /\ jar' = call[s].got
  /\ token' = [user |-> call[s].user, good |-> TRUE]
  /\ user' = call[s].user
  /\ scope' = IF call[s].kind = "login" /\ ~call[s].save THEN FALSE ELSE scope
  /\ call' = [call EXCEPT ![s] = NoCall]
  /\ row' = Kept(row, HeldBy(jar', call'))
  /\ UNCHANGED <<active, isSaving, pendingRememberScope, stream, history>>

(* Refused, or no answer. Quick Access forgets an account whose PIN login  *)
(* was refused for good.                                                   *)
SignInFails(s) ==
  /\ call[s].kind \in Signing
  /\ call' = [call EXCEPT ![s] = NoCall]
  /\ row' = Kept(row, HeldBy(jar, call'))
  /\ UNCHANGED <<active, device, token, user, isSaving, pendingRememberScope,
                 stream, history>>
-----------------------------------------------------------------------------
Sidebar == ScreenShown
Logout ==
  /\ Sidebar
  /\ \E s \in Slots :
       /\ Idle(s)
       /\ call' = [call EXCEPT ![s] = [NoCall EXCEPT !.kind = "logout", !.step = "asked",
                                                     !.sent = jar]]
  /\ UNCHANGED <<server, device, token, user, isSaving, pendingRememberScope,
                 stream, history>>

(* The server revokes the token presented, and that one only.              *)
ServeLogout(s) ==
  LET k == call[s].sent IN
  /\ call[s].kind = "logout" /\ call[s].step = "asked"
  /\ call' = [call EXCEPT ![s].step = "ok", ![s].sent = None]
  /\ row' = Kept(IF k # None /\ row[k].state = "live"
                    THEN [row EXCEPT ![k].state = "revoked"] ELSE row,
                 HeldBy(jar, call'))
  /\ UNCHANGED <<active, device, token, user, isSaving, pendingRememberScope,
                 stream, history>>

LoggedOut(s) ==
  /\ call[s].kind = "logout"
  /\ jar' = IF call[s].step = "ok" THEN None ELSE jar
  /\ token' = NoToken /\ user' = None
  /\ call' = [call EXCEPT ![s] = NoCall]
  /\ row' = Kept(row, HeldBy(jar', call'))
  /\ out' = /\ call[s].step = "ok" /\ \A x \in Slots \ {s} : Idle(x)
            /\ \A c \in Streams : conn[c].step \in {"none", "open"}
  /\ UNCHANGED <<active, scope, isSaving, pendingRememberScope, stream,
                 lost>>
-----------------------------------------------------------------------------
(* The settings: what the device remembers. Automatic sign-in and Quick    *)
(* Access switch each other; without a PIN or a saved account the first    *)
(* goes back off and nothing is sent. The page may be left while its       *)
(* handler goes on.                                                        *)
SettingsForm == ScreenShown /\ isSaving = None
SaveSettings ==
  /\ SettingsForm
  /\ \E remember \in BOOLEAN, s \in Slots :
       /\ scope' = remember
       /\ Idle(s) /\ isSaving' = s
       /\ StartReissue(s, [NoCall EXCEPT !.kind = "save", !.remember = remember],
                       remember)
  /\ UNCHANGED <<server, jar, token, user, stream, history>>

LeaveSettings ==
  /\ isSaving # None
  /\ isSaving' = None
  /\ UNCHANGED <<server, device, token, user, pendingRememberScope, call, stream,
                 history>>
-----------------------------------------------------------------------------
(* useUserEvents. A stream is asked for, opened by the server, and read    *)
(* until it ends.                                                          *)
(* Mutant: connect without a look at the ref.                              *)
AlwaysFree == TRUE
NoneHeld == ref = None

Connect ==
  /\ token.user # None /\ NoneHeld
  /\ \E c \in Streams :
       /\ conn[c].step = "none"
       /\ conn' = [conn EXCEPT ![c] = [NoConn EXCEPT !.step = "asked",
                                       !.user = token.user, !.good = token.good]]
       /\ ref' = c

(* Of two timers the older one's handle is gone: it is not cleared.        *)
Disconnect ==
  /\ ref' = None /\ timer' \in {FALSE, timer}
  /\ conn' = [c \in Streams |->
       IF c # ref THEN conn[c]
       ELSE IF conn[c].step = "waiting" THEN [conn[c] EXCEPT !.aborted = TRUE]
       ELSE NoConn]

(* The effect on enabled = !!user.                                         *)
EnabledEffect ==
  /\ enabled # (user # None)
  /\ enabled' = (user # None)
  /\ \/ enabled' /\ (Connect \/ (token.user = None /\ UNCHANGED <<ref, conn>>))
        /\ UNCHANGED timer
     \/ ~enabled' /\ Disconnect
  /\ UNCHANGED <<server, device, token, user, isSaving, pendingRememberScope, call,
                 history>>

(* The tab becomes visible.                                                *)
Visible ==
  /\ enabled /\ Connect
  /\ UNCHANGED <<server, device, token, user, isSaving, pendingRememberScope, call,
                 enabled, timer, history>>

(* scheduleReconnect, unless its five attempts are spent, and its timer.   *)
scheduleReconnect == timer' \in {timer, TRUE} /\ (timer' => timer \/ enabled)

(* Mutant: the timer connects whatever has happened since.                 *)
TimerAlways == TRUE
TimerMay == enabled /\ token.user # None
TimerFires ==
  /\ timer /\ timer' = FALSE
  /\ \/ TimerMay /\ Connect
     \/ ~(TimerMay /\ NoneHeld) /\ UNCHANGED <<ref, conn>>
  /\ UNCHANGED <<server, device, token, user, isSaving, pendingRememberScope, call,
                 enabled, history>>

Gone(c) == ClearRef({c}, [conn EXCEPT ![c] = NoConn])

StreamOpens(c) ==
  /\ conn[c].step = "asked" /\ conn[c].good /\ conn[c].user \in active
  /\ conn' = [conn EXCEPT ![c] = [NoConn EXCEPT !.step = "open", !.user = conn[c].user]]
  /\ UNCHANGED <<server, device, token, user, isSaving, pendingRememberScope, call,
                 enabled, ref, timer, history>>

(* 401 waits for a refresh once; any other refusal is final.               *)
StreamRefused(c) ==
  LET unauthorized == ~conn[c].good \/ conn[c].user \notin active IN
  /\ conn[c].step = "asked"
  /\ \/ /\ unauthorized /\ ~conn[c].retried
        /\ StreamAwaitsRefresh(c) /\ UNCHANGED ref
     \/ /\ ~unauthorized \/ conn[c].retried
        /\ Gone(c) /\ UNCHANGED <<call, pendingRememberScope>>
  /\ UNCHANGED <<server, device, token, user, isSaving, enabled, timer, lost, out>>

(* The network fails, or the server ends the stream.                       *)
StreamEnds(c) ==
  /\ conn[c].step \in {"asked", "open", "closing"}
  /\ Gone(c) /\ scheduleReconnect
  /\ UNCHANGED <<server, device, token, user, isSaving, pendingRememberScope, call,
                 enabled, lost, out>>
-----------------------------------------------------------------------------
(* The server's events: BroadcastToUser, and a deactivation's              *)
(* DisconnectUser, after which a stream may still send what it has or not. *)
Streaming(u) == {c \in Streams : conn[c].step = "open" /\ conn[c].user = u}
Broadcast(u, event, step) ==
  conn' = [c \in Streams |-> IF c \in Streaming(u)
            THEN [conn[c] EXCEPT !.step = step,
                                 !.event = IF @ = "none" THEN event ELSE @]
            ELSE conn[c]]

Notify ==
  /\ \E u \in Users, event \in {"update", "role"} :
       Streaming(u) # {} /\ Broadcast(u, event, "open")
  /\ UNCHANGED <<server, device, token, user, isSaving, pendingRememberScope, call,
                 enabled, ref, timer, history>>

Deactivate ==
  /\ \E u \in active : active' = active \ {u} /\ Broadcast(u, "force", "closing")
  /\ UNCHANGED <<row, device, token, user, isSaving, pendingRememberScope, call,
                 enabled, ref, timer, history>>

(* handleUserEvent: dropped while another is worked on, or when it is not  *)
(* the shown user's.                                                       *)
Dropped(c) == IsProcessingEvent \/ conn[c].user # user
HandleEvent(c) ==
  LET event  == conn[c].event
      passed == Dropped(c) \/ (event = "update" /\ IsRefreshing) IN
  /\ event # "none"
  /\ \/ event = "force" /\ ~Dropped(c) /\ Reload(jar)
     \/ /\ event # "force" \/ Dropped(c)
        /\ conn' = [conn EXCEPT ![c].event = "none"]
        /\ \/ passed /\ UNCHANGED <<call, pendingRememberScope>>
           \/ /\ ~passed /\ event = "update"
              /\ \E s \in Slots : Idle(s) /\ call' = [call EXCEPT ![s] = Asked("update")]
              /\ UNCHANGED pendingRememberScope
           \/ /\ ~passed /\ event = "role"
              /\ \E s \in Slots :
                   Idle(s) /\ AwaitRefresh(s, [NoCall EXCEPT !.kind = "event"], scope)
        /\ UNCHANGED <<server, device, token, user, isSaving, enabled, ref, timer,
                       history>>
-----------------------------------------------------------------------------
(* The tab is opened, with the cookie of an earlier visit or without.      *)
Init ==
  /\ active = Users
  /\ \/ jar = None /\ row = [k \in Ids |-> Unused]
     \/ \E k \in Ids, u \in Users :
          /\ jar = k
          /\ row = [[j \in Ids |-> Unused] EXCEPT ![k] = [user |-> u, state |-> "live"]]
  /\ scope = TRUE
  /\ token = NoToken /\ user = None /\ isSaving = None
  /\ pendingRememberScope = None
  /\ \E s \in Slots : call = [[x \in Slots |-> NoCall] EXCEPT
                        ![s] = [NewRefresh(scope) EXCEPT !.boot = TRUE]]
  /\ enabled = FALSE /\ ref = None /\ timer = FALSE
  /\ conn = [c \in Streams |-> NoConn]
  /\ lost = FALSE /\ out = FALSE

Next ==
  \/ LoadPage \/ SendRequest \/ RefreshUser \/ Expire
  \/ SubmitLogin \/ SubmitPin \/ VerifyPassword \/ Logout
  \/ SaveSettings \/ LeaveSettings
  \/ EnabledEffect \/ Visible \/ TimerFires \/ Notify \/ Deactivate
  \/ \E s \in Slots :
       \/ ServeRequest(s) \/ RequestAnswered(s) \/ RequestFails(s)
       \/ ServeRefresh(s) \/ RefreshAnswered(s) \/ RefreshFails(s)
       \/ ServeSignIn(s) \/ SignedIn(s) \/ SignInFails(s)
       \/ ServeLogout(s) \/ LoggedOut(s)
  \/ \E c \in Streams :
       \/ StreamOpens(c) \/ StreamRefused(c) \/ StreamEnds(c) \/ HandleEvent(c)

Spec == Init /\ [][Next]_vars
-----------------------------------------------------------------------------
Maybe(S) == S \cup {None}
RowType  == [user: Maybe(Users), state: {"unused", "live", "rotated", "revoked"}]
CallType == [kind: Kinds, user: Maybe(Users), good: BOOLEAN,
             step: {"none", "asked", "ok", "refused", "unauthorized", "inactive",
                    "waiting"},
             sent: Maybe(Ids), got: Maybe(Ids), remember: BOOLEAN, boot: BOOLEAN,
             save: BOOLEAN, retried: BOOLEAN, on: Maybe(Slots)]
ConnType == [step: {"none", "asked", "waiting", "open", "closing", "orphan"},
             user: Maybe(Users), good: BOOLEAN, retried: BOOLEAN, on: Maybe(Slots),
             aborted: BOOLEAN, event: {"none", "update", "role", "force"}]

TypeOK ==
  /\ active \subseteq Users /\ row \in [Ids -> RowType]
  /\ jar \in Maybe(Ids) /\ scope \in BOOLEAN
  /\ token \in [user: Maybe(Users), good: BOOLEAN] /\ user \in Maybe(Users)
  /\ isSaving \in Maybe(Slots) /\ pendingRememberScope \in BOOLEAN \cup {None}
  /\ call \in [Slots -> CallType] /\ conn \in [Streams -> ConnType]
  /\ enabled \in BOOLEAN /\ ref \in Maybe(Streams)
  /\ timer \in BOOLEAN /\ lost \in BOOLEAN /\ out \in BOOLEAN

(* A tab never presents a refresh token it has itself had rotated, and so  *)
(* is never taken for a thief by the server's reuse detection: whoever     *)
(* needs a refresh while one is under way waits for that one. Only an      *)
(* answer that did not arrive makes an exception (refreshSessionTokens).   *)
NoSelfReplay ==
  \A r \in Refreshes : call[r].step = "asked" /\ call[r].sent # None
    => row[call[r].sent].state # "rotated" \/ lost

(* "one tab opens one stream" (events.go, sseMaxConnectionsPerUser): the   *)
(* streams a tab has asked for are at most one, reconnection timers, tab   *)
(* focus, log out and log in notwithstanding, orphans excepted: those a    *)
(* connection given up while it waited for a refresh took the ref from.    *)
OneStream ==
  Cardinality({c \in Streams : /\ conn[c].step \notin {"none", "orphan"}
                               /\ ~conn[c].aborted}) <= 1

(* "so toggling the settings switch takes effect immediately"              *)
(* (reissueSessionCookie): the refresh a saved preference waits for carries*)
(* the chosen scope, not one that was under way, unless two savings        *)
(* overlap.                                                                *)
ScopeReissued ==
  \A s \in Under("save") : call[s].retried /\ Under("save") = {s}
    => call[call[s].on].remember = call[s].remember

(* After a log out with nothing else under way the tab holds no session:   *)
(* no user, token, cookie or stream comes back, whatever timers and        *)
(* listeners were left.                                                    *)
LogoutIsFinal ==
  out => /\ user = None /\ token = NoToken /\ jar = None
         /\ enabled \/ \A c \in Streams : conn[c].step \in {"none", "orphan"}

(* Requests, the boot, a role change, a saved preference and a stream      *)
(* share one promise: whoever waits does so for a refresh that is under    *)
(* way, which an answer or its time-out ends. Nobody is left behind when   *)
(* it settles, and no second refresh is started beside it.                 *)
NoneStranded ==
  /\ \A r, q \in Refreshes : r = q
  /\ \A s \in Slots : call[s].step = "waiting" => call[s].on \in Refreshes
  /\ \A c \in Streams : conn[c].step = "waiting" => conn[c].on \in Refreshes
=============================================================================
