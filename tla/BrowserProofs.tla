----------------------------- MODULE BrowserProofs -----------------------------
(***************************************************************************)
(* What a tab guarantees for any accounts, any number of requests under    *)
(* way at once, of event streams and of refresh tokens; and what a device  *)
(* remembers, for any accounts and any size of the list.                   *)
(***************************************************************************)
EXTENDS BrowserSession, QuickAccess, FiniteSetTheorems, TLAPS

(* A call by itself: what each kind of request may be doing.               *)
CallFits(c) ==
  /\ c.kind = "refresh" => /\ c.step \in {"asked", "ok", "refused"}
                           /\ c.got # None <=> c.step = "ok"
                           /\ c.sent # None => c.step = "asked"
  /\ c.step = "waiting" => c.kind \in Requests \cup {"save", "event"}
  /\ c.kind = "save" => c.step = "waiting"
GoodCalls == {c \in CallType : CallFits(c)}

(* A stream by itself.                                                     *)
ConnFits(d) ==
  /\ d.step \in {"open", "closing"} => d.user # None
  /\ d.event # "none" => d.step \in {"open", "closing"}
  /\ d.aborted => d.step = "waiting"
GoodConns == {d \in ConnType : ConnFits(d)}

Typed == /\ TypeOK /\ call \in [Slots -> GoodCalls] /\ conn \in [Streams -> GoodConns]

(* Refresh tokens: those referred to exist; a new one is referred to by    *)
(* the answer that brings it and by nothing else, and is not rotated. The  *)
(* cookie's is rotated only while the successor is on its way, or after it *)
(* got lost.                                                               *)
Exist    == \A k \in Ids \cap HeldBy(jar, call) : row[k].state # "unused"
Newborn  == \A s \in Slots : call[s].got # None =>
              /\ row[call[s].got].state # "rotated"
              /\ call[s].got # jar
              /\ \A u \in Slots : /\ call[u].sent # call[s].got
                                  /\ u # s => call[u].got # call[s].got
Answering == \E r \in Refreshes : call[r].step = "ok"
CookieFit == jar # None => row[jar].state # "rotated" \/ lost \/ Answering
Tokens   == Exist /\ Newborn /\ CookieFit /\ NoSelfReplay

(* The ref names the one stream that was not given up, and there is none   *)
(* while the hook is off.                                                  *)
Live(c)  == conn[c].step \notin {"none", "orphan"} /\ ~conn[c].aborted
RefNames == \A c \in Streams : Live(c) => ref = c /\ enabled

(* After a log out with nothing else under way.                            *)
Away ==
  out => /\ user = None /\ token = NoToken /\ jar = None
         /\ \A s \in Slots : Idle(s) \/ (s \in Refreshes /\ call[s].sent = None
                                                         /\ call[s].got = None)
         /\ \A c \in Streams : conn[c].step \in {"none", "open", "closing", "orphan"}

IInv == Typed /\ NoneStranded /\ Tokens /\ RefNames /\ ScopeReissued /\ Away
-----------------------------------------------------------------------------
(* The records calls and streams are made of.                              *)
LEMMA Fixed ==
  /\ None \notin Users /\ None \notin Slots /\ None \notin Streams /\ None \notin Ids
  /\ NoCall \in GoodCalls /\ NoConn \in GoodConns
  /\ NoToken \in [user: Maybe(Users), good: BOOLEAN] /\ Unused \in RowType
  /\ NoCall.kind = "none" /\ NoCall.step = "none" /\ NoCall.sent = None /\ NoCall.got = None
  /\ NoConn.step = "none" /\ NoConn.event = "none" /\ NoConn.aborted = FALSE
  /\ NoToken.user = None /\ NoToken.good = FALSE
<1>1. NoCall \in CallType /\ NoConn \in ConnType
  BY DEF NoCall, NoConn, CallType, ConnType, Maybe, Kinds
<1>2. CallFits(NoCall) /\ ConnFits(NoConn)
  BY DEF CallFits, ConnFits, NoCall, NoConn
<1>3. NoToken \in [user: Maybe(Users), good: BOOLEAN] /\ Unused \in RowType
  BY DEF NoToken, Unused, RowType, Maybe
<1> QED BY <1>1, <1>2, <1>3, BrowserAssumption DEF GoodCalls, GoodConns, NoCall, NoConn, NoToken

LEMMA CallFields ==
  ASSUME NEW c \in GoodCalls
  PROVE  /\ c \in CallType /\ CallFits(c)
         /\ c.kind \in Kinds /\ c.user \in Maybe(Users) /\ c.good \in BOOLEAN
         /\ c.sent \in Maybe(Ids) /\ c.got \in Maybe(Ids) /\ c.remember \in BOOLEAN
         /\ c.boot \in BOOLEAN /\ c.save \in BOOLEAN /\ c.retried \in BOOLEAN
         /\ c.on \in Maybe(Slots)
BY DEF GoodCalls, CallType

LEMMA ConnFields ==
  ASSUME NEW d \in GoodConns
  PROVE  /\ d \in ConnType /\ ConnFits(d)
         /\ d.step \in {"none", "asked", "waiting", "open", "closing", "orphan"}
         /\ d.user \in Maybe(Users) /\ d.good \in BOOLEAN /\ d.retried \in BOOLEAN
         /\ d.on \in Maybe(Slots) /\ d.aborted \in BOOLEAN
         /\ d.event \in {"none", "update", "role", "force"}
BY DEF GoodConns, ConnType

(* A new refresh, and whoever waits for it.                                *)
BootCall(remember, j) == [NewRefresh(remember) EXCEPT !.sent = j, !.boot = TRUE]
LEMMA BootRefresh ==
  ASSUME Typed, NEW remember \in BOOLEAN, NEW j \in Maybe(Ids)
  PROVE  /\ BootCall(remember, j) \in GoodCalls
         /\ BootCall(remember, j).kind = "refresh" /\ BootCall(remember, j).step = "asked"
         /\ BootCall(remember, j).sent = j /\ BootCall(remember, j).got = None
<1> DEFINE d == [NewRefresh(remember) EXCEPT !.sent = j, !.boot = TRUE]
<1>1. d \in CallType
  BY DEF NewRefresh, NoCall, CallType, Maybe, Kinds
<1>2. d.kind = "refresh" /\ d.step = "asked" /\ d.sent = j /\ d.got = None
  BY DEF NewRefresh, NoCall
<1> HIDE DEF d
<1>3. d \in GoodCalls
  BY <1>1, <1>2 DEF GoodCalls, CallFits
<1> QED BY <1>2, <1>3 DEF d, BootCall

LEMMA NewRefreshWith ==
  ASSUME Typed, NEW remember \in BOOLEAN, NEW j \in Maybe(Ids)
  PROVE  LET d == [NewRefresh(remember) EXCEPT !.sent = j] IN
         /\ d \in GoodCalls /\ d.kind = "refresh" /\ d.step = "asked" /\ d.sent = j
         /\ d.got = None /\ d.remember = remember
<1> DEFINE d == [NewRefresh(remember) EXCEPT !.sent = j]
<1>1. d \in CallType
  BY DEF NewRefresh, NoCall, CallType, Maybe, Kinds
<1>2. /\ d.kind = "refresh" /\ d.step = "asked" /\ d.sent = j /\ d.got = None
      /\ d.remember = remember
  BY DEF NewRefresh, NoCall
<1> HIDE DEF d
<1>3. d \in GoodCalls
  BY <1>1, <1>2 DEF GoodCalls, CallFits
<1> QED BY <1>2, <1>3 DEF d

LEMMA NewRefreshPlain ==
  ASSUME Typed, NEW remember \in BOOLEAN
  PROVE  LET d == NewRefresh(remember) IN
         /\ d \in GoodCalls /\ d.kind = "refresh" /\ d.step = "asked" /\ d.sent = jar
         /\ d.got = None /\ d.remember = remember
<1> DEFINE d == NewRefresh(remember)
<1>1. d \in CallType
  BY DEF NewRefresh, NoCall, CallType, Maybe, Kinds, Typed, TypeOK
<1>2. /\ d.kind = "refresh" /\ d.step = "asked" /\ d.sent = jar
      /\ d.got = None /\ d.remember = remember
  BY DEF NewRefresh, NoCall
<1> HIDE DEF d
<1>3. d \in GoodCalls
  BY <1>1, <1>2 DEF GoodCalls, CallFits
<1> QED BY <1>2, <1>3 DEF d

Waiters == Requests \cup {"save", "event"}
LEMMA BlockedFields ==
  ASSUME NEW h \in CallType, h.kind \in Waiters, NEW r \in Slots
  PROVE  LET d == Blocked(h, r) IN
         /\ d \in GoodCalls /\ d.kind = h.kind /\ d.step = "waiting" /\ d.sent = h.sent
         /\ d.got = h.got /\ d.remember = h.remember /\ d.retried = h.retried /\ d.on = r
         /\ d.boot = h.boot
<1> DEFINE d == Blocked(h, r)
<1>1. d \in CallType
  BY DEF Blocked, CallType, Maybe
<1>2. /\ d.kind = h.kind /\ d.step = "waiting" /\ d.sent = h.sent
      /\ d.got = h.got /\ d.remember = h.remember /\ d.retried = h.retried /\ d.on = r
      /\ d.boot = h.boot
  BY DEF Blocked, CallType
<1> HIDE DEF d
<1>3. d \in GoodCalls
  BY <1>1, <1>2 DEF GoodCalls, CallFits, Waiters, Requests
<1> QED BY <1>2, <1>3 DEF d

(* Types from the parts.                                                   *)
LEMMA TypedFrom ==
  ASSUME active' \subseteq Users, row' \in [Ids -> RowType], jar' \in Maybe(Ids),
         scope' \in BOOLEAN, token' \in [user: Maybe(Users), good: BOOLEAN],
         user' \in Maybe(Users), isSaving' \in Maybe(Slots),
         pendingRememberScope' \in BOOLEAN \cup {None},
         call' \in [Slots -> GoodCalls], conn' \in [Streams -> GoodConns],
         enabled' \in BOOLEAN, ref' \in Maybe(Streams), timer' \in BOOLEAN,
         lost' \in BOOLEAN, out' \in BOOLEAN
  PROVE  Typed'
<1>1. call' \in [Slots -> CallType] /\ conn' \in [Streams -> ConnType]
  BY DEF GoodCalls, GoodConns
<1> QED BY <1>1 DEF Typed, TypeOK

LEMMA TypedParts ==
  ASSUME Typed
  PROVE  /\ active \subseteq Users /\ row \in [Ids -> RowType] /\ jar \in Maybe(Ids)
         /\ scope \in BOOLEAN /\ token \in [user: Maybe(Users), good: BOOLEAN]
         /\ user \in Maybe(Users) /\ isSaving \in Maybe(Slots)
         /\ pendingRememberScope \in BOOLEAN \cup {None}
         /\ call \in [Slots -> GoodCalls] /\ conn \in [Streams -> GoodConns]
         /\ enabled \in BOOLEAN /\ ref \in Maybe(Streams) /\ timer \in BOOLEAN
         /\ lost \in BOOLEAN /\ out \in BOOLEAN
         /\ token.user \in Maybe(Users) /\ token.good \in BOOLEAN
BY DEF Typed, TypeOK

LEMMA KeptRows ==
  ASSUME NEW rows \in [Ids -> RowType], NEW held
  PROVE  /\ Kept(rows, held) \in [Ids -> RowType]
         /\ \A k \in Ids : Kept(rows, held)[k] = IF k \in held THEN rows[k] ELSE Unused
BY Fixed DEF Kept

(* What waiting for the shared refresh does to the calls.                  *)
Joins(s, d) ==
  \E r \in Refreshes \ {s} : /\ call' = [call EXCEPT ![s] = Blocked(d, r)]
                             /\ UNCHANGED pendingRememberScope
Begins(s, d, sc) ==
  /\ Refreshes = {} /\ pendingRememberScope' = None
  /\ \E r \in Slots \ {s} :
       /\ Idle(r)
       /\ call' = [call EXCEPT ![s] = Blocked(d, r),
                               ![r] = NewRefresh(RefreshScope(sc))]

LEMMA Awaiting ==
  ASSUME NEW s, NEW h, NEW sc, AwaitRefresh(s, h, sc)
  PROVE  Joins(s, h) \/ Begins(s, h, sc)
BY DEF AwaitRefresh, Shared, Joins, Begins

(* The same in terms of fields: s waits on r, which was under way or has   *)
(* just been started with the cookie.                                      *)
Sits(s, d, r) ==
  /\ call'[s].kind = d.kind /\ call'[s].step = "waiting" /\ call'[s].on = r
  /\ call'[s].sent = d.sent /\ call'[s].got = d.got
  /\ call'[s].remember = d.remember /\ call'[s].retried = d.retried
Starts(r) ==
  /\ Refreshes = {} /\ Idle(r)
  /\ call'[r].kind = "refresh" /\ call'[r].step = "asked"
  /\ call'[r].sent = jar /\ call'[r].got = None
Awaits(s, d) ==
  \E r \in Slots \ {s} :
    /\ Sits(s, d, r)
    /\ \A x \in Slots \ {s, r} : call'[x] = call[x]
    /\ (r \in Refreshes /\ call'[r] = call[r]) \/ Starts(r)

LEMMA AwaitTyped ==
  ASSUME Typed, NEW s \in Slots, NEW h \in CallType, h.kind \in Waiters,
         NEW sc \in BOOLEAN, AwaitRefresh(s, h, sc)
  PROVE  /\ call' \in [Slots -> GoodCalls]
         /\ pendingRememberScope' \in BOOLEAN \cup {None}
         /\ Awaits(s, h)
<1>0. call \in [Slots -> GoodCalls] /\ pendingRememberScope \in BOOLEAN \cup {None}
  BY TypedParts
<1>1. CASE Joins(s, h)
  <2>1. PICK r \in Refreshes \ {s} : /\ call' = [call EXCEPT ![s] = Blocked(h, r)]
                                     /\ UNCHANGED pendingRememberScope
    BY <1>1 DEF Joins
  <2> DEFINE d == Blocked(h, r)
  <2>2. r \in Slots
    BY DEF Refreshes, Under
  <2>3. /\ d \in GoodCalls /\ d.kind = h.kind /\ d.step = "waiting" /\ d.sent = h.sent
        /\ d.got = h.got /\ d.remember = h.remember /\ d.retried = h.retried /\ d.on = r
    BY <2>2, BlockedFields
  <2>4. call' = [call EXCEPT ![s] = d]
    BY <2>1
  <2> HIDE DEF d
  <2>5. call' \in [Slots -> GoodCalls] /\ call'[s] = d /\ \A x \in Slots \ {s} : call'[x] = call[x]
    BY <1>0, <2>3, <2>4
  <2> QED BY <1>0, <2>1, <2>2, <2>3, <2>5 DEF Awaits, Sits
<1>2. CASE Begins(s, h, sc)
  <2>1. PICK r \in Slots \ {s} :
          /\ Idle(r)
          /\ call' = [call EXCEPT ![s] = Blocked(h, r),
                                  ![r] = NewRefresh(RefreshScope(sc))]
    BY <1>2 DEF Begins
  <2> DEFINE d == Blocked(h, r)
             n == NewRefresh(RefreshScope(sc))
  <2>2. RefreshScope(sc) \in BOOLEAN
    BY <1>0 DEF RefreshScope
  <2>3. /\ d \in GoodCalls /\ d.kind = h.kind /\ d.step = "waiting" /\ d.sent = h.sent
        /\ d.got = h.got /\ d.remember = h.remember /\ d.retried = h.retried /\ d.on = r
    BY BlockedFields
  <2>4. /\ n \in GoodCalls /\ n.kind = "refresh" /\ n.step = "asked" /\ n.sent = jar
        /\ n.got = None
    BY <2>2, NewRefreshPlain
  <2>5. call' = [call EXCEPT ![s] = d, ![r] = n]
    BY <2>1
  <2> HIDE DEF d, n
  <2>6. /\ call' \in [Slots -> GoodCalls] /\ call'[s] = d /\ call'[r] = n
        /\ \A x \in Slots \ {s, r} : call'[x] = call[x]
    BY <1>0, <2>3, <2>4, <2>5
  <2>7. Starts(r)
    BY <1>2, <2>1, <2>4, <2>6 DEF Begins, Starts
  <2>8. Sits(s, h, r)
    BY <2>3, <2>6 DEF Sits
  <2> QED BY <1>2, <2>6, <2>7, <2>8 DEF Begins, Awaits
<1> QED BY <1>1, <1>2, Awaiting
-----------------------------------------------------------------------------
(* Types, action by action. First the actions on a single plain record.    *)
(* What a step may make of a slot that neither refreshes nor saves.        *)
Plainly(c, d) ==
  /\ c.kind \notin {"refresh", "save"}
  /\ d.kind \notin {"refresh", "save"} /\ d.step # "waiting"
  /\ d.sent \in {None, c.sent, jar} /\ d.got \in {None, c.got}
PlainMove(s) ==
  /\ call' \in [Slots -> GoodCalls] /\ \A x \in Slots \ {s} : call'[x] = call[x]
  /\ Plainly(call[s], call'[s])

LEMMA PlainFits ==
  ASSUME NEW d \in CallType, d.kind \notin {"refresh", "save"}, d.step # "waiting"
  PROVE  d \in GoodCalls
BY DEF GoodCalls, CallFits

LEMMA PutPlain ==
  ASSUME Typed, NEW s \in Slots, NEW d \in CallType, Plainly(call[s], d),
         call' = [call EXCEPT ![s] = d]
  PROVE  PlainMove(s)
<1>1. d \in GoodCalls
  BY PlainFits DEF Plainly
<1>2. call \in [Slots -> GoodCalls]
  BY TypedParts
<1> QED BY <1>1, <1>2 DEF PlainMove

LEMMA PutNoCall ==
  ASSUME Typed, NEW s \in Slots, call[s].kind \notin {"refresh", "save"},
         call' = [call EXCEPT ![s] = NoCall]
  PROVE  PlainMove(s)
<1>1. NoCall \in CallType /\ Plainly(call[s], NoCall)
  BY Fixed, CallFields DEF Plainly
<1> QED BY <1>1, PutPlain

LEMMA AskedFields ==
  ASSUME Typed, NEW kind \in Requests
  PROVE  /\ Asked(kind) \in CallType
         /\ Asked(kind).kind = kind /\ Asked(kind).step = "asked"
         /\ Asked(kind).sent = None /\ Asked(kind).got = None
<1>1. token.user \in Maybe(Users) /\ token.good \in BOOLEAN
  BY TypedParts
<1> QED BY <1>1 DEF Asked, NoCall, CallType, Requests, Kinds, Maybe

LEMMA PutAsked ==
  ASSUME Typed, NEW s \in Slots, Idle(s), NEW kind \in Requests,
         call' = [call EXCEPT ![s] = Asked(kind)]
  PROVE  PlainMove(s)
<1>1. Plainly(call[s], Asked(kind))
  BY AskedFields DEF Plainly, Idle, Requests
<1> QED BY <1>1, AskedFields, PutPlain

(* Sign in and log out.                                                    *)
LEMMA SignInMoves ==
  ASSUME Typed, NEW kind \in Signing, NEW u \in Users, NEW save \in BOOLEAN,
         SignIn(kind, u, save)
  PROVE  \E s \in Slots : PlainMove(s)
<1>1. PICK s \in Slots :
       /\ Idle(s)
       /\ call' = [call EXCEPT ![s] = [NoCall EXCEPT !.kind = kind, !.step = "asked",
                     !.user = u, !.save = save]]
  BY DEF SignIn
<1> DEFINE d == [NoCall EXCEPT !.kind = kind, !.step = "asked", !.user = u, !.save = save]
<1>2. d \in CallType
  BY Fixed, CallFields DEF CallType, Signing, Kinds, Maybe
<1>3. d.kind = kind /\ d.step = "asked" /\ d.sent = None /\ d.got = None
  BY DEF NoCall
<1>4. call' = [call EXCEPT ![s] = d]
  BY <1>1
<1> HIDE DEF d
<1>5. Plainly(call[s], d)
  BY <1>1, <1>3 DEF Plainly, Idle, Signing
<1> QED BY <1>2, <1>4, <1>5, PutPlain

LEMMA LogoutMoves ==
  ASSUME Typed, Logout
  PROVE  \E s \in Slots : PlainMove(s)
<1>1. PICK s \in Slots :
       /\ Idle(s)
       /\ call' = [call EXCEPT ![s] = [NoCall EXCEPT !.kind = "logout", !.step = "asked",
                                                     !.sent = jar]]
  BY DEF Logout
<1> DEFINE d == [NoCall EXCEPT !.kind = "logout", !.step = "asked", !.sent = jar]
<1>2. d \in CallType
  BY Fixed, CallFields, TypedParts DEF CallType, Kinds, Maybe
<1>3. d.kind = "logout" /\ d.step = "asked" /\ d.sent = jar /\ d.got = None
  BY DEF NoCall
<1>4. call' = [call EXCEPT ![s] = d]
  BY <1>1
<1> HIDE DEF d
<1>5. Plainly(call[s], d)
  BY <1>1, <1>3 DEF Plainly, Idle
<1> QED BY <1>2, <1>4, <1>5, PutPlain

(* The server's answer to a request, to a refused sign in, to a log out.   *)
LEMMA ServeRequestMoves ==
  ASSUME Typed, NEW s \in Slots, ServeRequest(s)
  PROVE  PlainMove(s)
<1> DEFINE st == IF ~call[s].good THEN "unauthorized"
                 ELSE IF call[s].user \notin active THEN "inactive" ELSE "ok"
           d == [call[s] EXCEPT !.good = FALSE, !.step = st]
<1>1. st \in {"unauthorized", "inactive", "ok"}
  BY Zenon
<1>2. call[s] \in CallType /\ call[s].kind \in Requests
  BY TypedParts, CallFields DEF ServeRequest
<1>0. call' = [call EXCEPT ![s].good = FALSE, ![s].step = st]
  BY Zenon DEF ServeRequest
<1> HIDE DEF st
<1>3. call' = [call EXCEPT ![s] = d]
  BY <1>0, TypedParts
<1>4. d \in CallType
  BY <1>1, <1>2 DEF CallType
<1>5. d.kind = call[s].kind /\ d.step = st /\ d.sent = call[s].sent /\ d.got = call[s].got
  BY <1>2 DEF CallType
<1> HIDE DEF d
<1>6. Plainly(call[s], d)
  BY <1>1, <1>2, <1>5 DEF Plainly, Requests
<1> QED BY <1>3, <1>4, <1>6, PutPlain

LEMMA RefuseFields ==
  ASSUME Typed, NEW s \in Slots, Refuse(s)
  PROVE  \E d \in CallType :
           /\ call' = [call EXCEPT ![s] = d] /\ d.kind = call[s].kind /\ d.step = "refused"
           /\ d.sent = None /\ d.got = call[s].got /\ d.remember = call[s].remember
<1> DEFINE c == call[s]
           d == [c EXCEPT !.step = "refused", !.sent = None]
<1>1. c \in CallType
  BY TypedParts, CallFields
<1>2. call' = [call EXCEPT ![s] = d]
  BY TypedParts DEF Refuse
<1> HIDE DEF c
<1>3. d \in CallType
  BY <1>1 DEF CallType, Maybe
<1>4. /\ d.kind = c.kind /\ d.step = "refused" /\ d.sent = None /\ d.got = c.got
      /\ d.remember = c.remember
  BY <1>1 DEF CallType
<1> QED BY <1>2, <1>3, <1>4 DEF c

LEMMA ServeLogoutMoves ==
  ASSUME Typed, NEW s \in Slots, ServeLogout(s)
  PROVE  PlainMove(s)
<1> DEFINE c == call[s]
           d == [c EXCEPT !.step = "ok", !.sent = None]
<1>1. c \in CallType /\ c.kind = "logout"
  BY TypedParts, CallFields DEF ServeLogout
<1>2. call' = [call EXCEPT ![s] = d]
  BY TypedParts DEF ServeLogout
<1> HIDE DEF c
<1>3. d \in CallType
  BY <1>1 DEF CallType, Maybe
<1>4. d.kind = c.kind /\ d.step = "ok" /\ d.sent = None /\ d.got = c.got
  BY <1>1 DEF CallType
<1> HIDE DEF d
<1>5. Plainly(call[s], d)
  BY <1>1, <1>4 DEF Plainly, c
<1> QED BY <1>2, <1>3, <1>5, PutPlain

LEMMA RefuseMoves ==
  ASSUME Typed, NEW s \in Slots, call[s].kind \in Signing, Refuse(s)
  PROVE  PlainMove(s)
<1>1. PICK d \in CallType :
        /\ call' = [call EXCEPT ![s] = d] /\ d.kind = call[s].kind /\ d.step = "refused"
        /\ d.sent = None /\ d.got = call[s].got
  BY RefuseFields
<1>2. Plainly(call[s], d)
  BY <1>1 DEF Plainly, Signing
<1> QED BY <1>1, <1>2, PutPlain

(* A new refresh token, for a sign in or a refresh.                        *)
Minted(s, k) ==
  /\ call' \in [Slots -> GoodCalls] /\ \A x \in Slots \ {s} : call'[x] = call[x]
  /\ call'[s].kind = call[s].kind /\ call'[s].step = "ok"
  /\ call'[s].sent = None /\ call'[s].got = k /\ call'[s].remember = call[s].remember

LEMMA MintFields ==
  ASSUME Typed, NEW s \in Slots, call[s].kind \in Signing \cup {"refresh"},
         NEW u \in Maybe(Users), NEW others \in [Ids -> RowType], Mint(s, u, others)
  PROVE  \E k \in Ids :
           /\ row[k] = Unused /\ Minted(s, k)
           /\ row' = Kept([others EXCEPT ![k] = [user |-> u, state |-> "live"]],
                          HeldBy(jar, call'))
           /\ row' \in [Ids -> RowType]
<1>1. PICK k \in Ids :
        /\ row[k] = Unused
        /\ call' = [call EXCEPT ![s].step = "ok", ![s].sent = None, ![s].got = k]
        /\ row' = Kept([others EXCEPT ![k] = [user |-> u, state |-> "live"]],
                       HeldBy(jar, call'))
  BY DEF Mint
<1> DEFINE c == call[s]
           d == [c EXCEPT !.step = "ok", !.sent = None, !.got = k]
           new == [user |-> u, state |-> "live"]
           rows == [others EXCEPT ![k] = new]
<1>2. c \in CallType /\ c.kind \in Signing \cup {"refresh"}
  BY TypedParts, CallFields
<1>3. call' = [call EXCEPT ![s] = d]
  BY <1>1, TypedParts
<1> HIDE DEF c
<1>4. d \in CallType
  BY <1>2 DEF CallType, Maybe
<1>5. /\ d.kind = c.kind /\ d.step = "ok" /\ d.sent = None /\ d.got = k
      /\ d.remember = c.remember
  BY <1>2 DEF CallType
<1> HIDE DEF d
<1>6. d \in GoodCalls
  <2>1. k # None
    BY Fixed
  <2> QED BY <1>2, <1>4, <1>5, <2>1 DEF GoodCalls, CallFits, Signing
<1>7. Minted(s, k)
  <2>1. call \in [Slots -> GoodCalls]
    BY TypedParts
  <2>2. /\ call' \in [Slots -> GoodCalls] /\ call'[s] = d
        /\ \A x \in Slots \ {s} : call'[x] = call[x]
    BY <1>3, <1>6, <2>1
  <2> QED BY <1>5, <2>2 DEF Minted, c
<1>8. row' \in [Ids -> RowType]
  <2>1. new \in RowType
    BY DEF RowType
  <2> HIDE DEF new
  <2>2. rows \in [Ids -> RowType]
    BY <2>1
  <2>3. row' = Kept(rows, HeldBy(jar, call'))
    BY <1>1 DEF new
  <2> HIDE DEF rows
  <2> QED BY <2>2, <2>3, KeptRows
<1> QED BY <1>1, <1>7, <1>8
-----------------------------------------------------------------------------
(* The streams: types, the ref, and who waits for a refresh.               *)
ConnsCalm == \A c \in Streams : conn'[c].step = "waiting" =>
               conn[c].step = "waiting" /\ conn'[c].on = conn[c].on
StreamsKept == /\ conn' \in [Streams -> GoodConns] /\ ref' \in Maybe(Streams)
               /\ RefNames' /\ ConnsCalm

LEMMA StreamsStay ==
  ASSUME Typed, RefNames, UNCHANGED <<enabled, ref, conn>>
  PROVE  StreamsKept
BY TypedParts DEF StreamsKept, RefNames, Live, ConnsCalm

LEMMA Connected ==
  ASSUME Typed, RefNames, Connect, enabled'
  PROVE  StreamsKept
<1>1. PICK c \in Streams :
       /\ conn' = [conn EXCEPT ![c] = [NoConn EXCEPT !.step = "asked",
                                       !.user = token.user, !.good = token.good]]
       /\ ref' = c
  BY DEF Connect
<1> DEFINE d == [NoConn EXCEPT !.step = "asked", !.user = token.user, !.good = token.good]
<1>2. d \in ConnType /\ d.step = "asked" /\ d.event = "none" /\ d.aborted = FALSE
  BY Fixed, ConnFields, TypedParts DEF ConnType, NoConn
<1>3. conn' = [conn EXCEPT ![c] = d]
  BY <1>1
<1> HIDE DEF d
<1>4. d \in GoodConns
  BY <1>2 DEF GoodConns, ConnFits
<1>5. conn \in [Streams -> GoodConns] /\ \A x \in Streams : ~Live(x)
  BY TypedParts, Fixed DEF RefNames, Connect, NoneHeld
<1>6. /\ conn' \in [Streams -> GoodConns] /\ conn'[c] = d
      /\ \A x \in Streams \ {c} : conn'[x] = conn[x]
  BY <1>3, <1>4, <1>5
<1> QED BY <1>1, <1>2, <1>5, <1>6 DEF StreamsKept, RefNames, Live, ConnsCalm, Maybe

LEMMA Disconnected ==
  ASSUME Typed, RefNames, Disconnect
  PROVE  StreamsKept
<1>1. ASSUME NEW c \in Streams
      PROVE  /\ conn'[c] \in GoodConns /\ ~Live(c)'
             /\ conn'[c].step = "waiting" => conn[c].step = "waiting" /\ conn'[c].on = conn[c].on
  <2>0. conn[c] \in GoodConns
    BY TypedParts
  <2>1. CASE c # ref
    <3>1. conn'[c] = conn[c]
      BY <2>1 DEF Disconnect
    <3> QED BY <2>0, <2>1, <3>1 DEF RefNames, Live
  <2>2. CASE c = ref /\ conn[c].step = "waiting"
    <3> DEFINE d == [conn[c] EXCEPT !.aborted = TRUE]
    <3>1. conn'[c] = d
      BY <2>2 DEF Disconnect
    <3>2. d \in ConnType /\ d.step = "waiting" /\ d.aborted = TRUE /\ d.on = conn[c].on /\ d.event = conn[c].event
      BY <2>0, <2>2, ConnFields DEF ConnType
    <3> HIDE DEF d
    <3>3. d \in GoodConns
      BY <2>0, <2>2, <3>2, ConnFields DEF GoodConns, ConnFits
    <3> QED BY <2>2, <3>1, <3>2, <3>3 DEF Live
  <2>3. CASE c = ref /\ conn[c].step # "waiting"
    <3>1. conn'[c] = NoConn
      BY <2>3 DEF Disconnect
    <3> QED BY <3>1, Fixed DEF Live
  <2> QED BY <2>1, <2>2, <2>3
<1>2. conn' = [c \in Streams |-> conn'[c]] /\ ref' = None
  BY DEF Disconnect
<1>3. conn' \in [Streams -> GoodConns]
  BY <1>1, <1>2
<1> QED BY <1>1, <1>2, <1>3 DEF StreamsKept, RefNames, ConnsCalm, Maybe

LEMMA Clearing ==
  ASSUME Typed, RefNames, NEW gone \in SUBSET Streams, NEW rest \in [Streams -> GoodConns],
         \A c \in gone : rest[c] = NoConn,
         \A c \in Streams : rest[c].step \notin {"none", "orphan"} /\ ~rest[c].aborted => Live(c),
         ClearRef(gone, rest), UNCHANGED enabled
  PROVE  /\ conn' \in [Streams -> GoodConns] /\ ref' \in Maybe(Streams) /\ RefNames'
         /\ \A c \in Streams : conn'[c] = rest[c] \/ conn'[c].step = "orphan"
<1> DEFINE o == [NoConn EXCEPT !.step = "orphan"]
<1>1. o \in ConnType /\ o.step = "orphan" /\ o.event = "none" /\ o.aborted = FALSE
  BY Fixed, ConnFields DEF ConnType, NoConn
<1>2. conn' = [c \in Streams |->
                IF c = ref /\ gone \notin {{}, {ref}} /\ rest[c] # NoConn THEN o ELSE rest[c]]
  BY DEF ClearRef, Orphaned
<1> HIDE DEF o
<1>3. o \in GoodConns
  BY <1>1 DEF GoodConns, ConnFits
<1>4. conn' \in [Streams -> GoodConns]
  BY <1>2, <1>3
<1>5. \A c \in Streams : conn'[c] = rest[c] \/ conn'[c].step = "orphan"
  BY <1>1, <1>2
<1>6. ref' \in Maybe(Streams)
  BY TypedParts DEF ClearRef, Maybe
<1>7. ASSUME NEW c \in Streams, Live(c)' PROVE ref' = c /\ enabled'
  <2>1. conn'[c] = rest[c] /\ rest[c] # NoConn
    BY <1>5, <1>7, Fixed DEF Live
  <2>2. Live(c) /\ ref = c /\ enabled
    BY <1>7, <2>1 DEF RefNames, Live
  <2>3. gone = {} \/ gone = {ref}
    BY <1>1, <1>2, <1>7, <2>1, <2>2 DEF Live
  <2>4. c \notin gone
    BY <2>1
  <2> QED BY <2>2, <2>3, <2>4 DEF ClearRef
<1> QED BY <1>4, <1>5, <1>6, <1>7 DEF RefNames

LEMMA Gones ==
  ASSUME Typed, RefNames, NEW c \in Streams, Gone(c), UNCHANGED enabled
  PROVE  StreamsKept
<1> DEFINE rest == [conn EXCEPT ![c] = NoConn]
<1>1. /\ conn \in [Streams -> GoodConns] /\ rest \in [Streams -> GoodConns] /\ rest[c] = NoConn
      /\ \A x \in Streams \ {c} : rest[x] = conn[x]
  BY TypedParts, Fixed
<1>2. ClearRef({c}, rest)
  BY DEF Gone
<1> HIDE DEF rest
<1>3. /\ conn' \in [Streams -> GoodConns] /\ ref' \in Maybe(Streams) /\ RefNames'
      /\ \A x \in Streams : conn'[x] = rest[x] \/ conn'[x].step = "orphan"
  BY <1>1, <1>2, Fixed, Clearing DEF Live
<1>4. ConnsCalm
  BY <1>1, <1>3, Fixed DEF ConnsCalm
<1> QED BY <1>3, <1>4 DEF StreamsKept

LEMMA Opens ==
  ASSUME Typed, RefNames, NEW c \in Streams, StreamOpens(c)
  PROVE  StreamsKept
<1> DEFINE d == [NoConn EXCEPT !.step = "open", !.user = conn[c].user]
<1>1. conn[c] \in GoodConns /\ conn[c].user \in Users
  BY TypedParts DEF StreamOpens
<1>2. /\ d \in ConnType /\ d.step = "open" /\ d.event = "none" /\ d.aborted = FALSE
      /\ d.user # None
  BY <1>1, Fixed, ConnFields DEF ConnType, NoConn
<1>3. conn' = [conn EXCEPT ![c] = d]
  BY DEF StreamOpens
<1> HIDE DEF d
<1>4. d \in GoodConns
  BY <1>2 DEF GoodConns, ConnFits
<1>5. Live(c)
  BY <1>1, ConnFields DEF Live, StreamOpens, ConnFits
<1>6. /\ conn' \in [Streams -> GoodConns] /\ conn'[c] = d
      /\ \A x \in Streams \ {c} : conn'[x] = conn[x]
  BY <1>3, <1>4, TypedParts
<1> QED BY <1>2, <1>5, <1>6, TypedParts DEF StreamsKept, RefNames, Live, ConnsCalm, StreamOpens

(* An event changes neither what a stream is nor whose.                    *)
LEMMA Broadcasts ==
  ASSUME Typed, RefNames, NEW u \in Users, NEW event \in {"update", "role", "force"},
         NEW step \in {"open", "closing"}, Broadcast(u, event, step),
         UNCHANGED <<enabled, ref>>
  PROVE  /\ StreamsKept
         /\ \A c \in Streams : \/ conn'[c] = conn[c]
                               \/ conn[c].step = "open" /\ conn'[c].step = step
<1>1. ASSUME NEW c \in Streams
      PROVE  /\ conn'[c] \in GoodConns
             /\ \/ conn'[c] = conn[c]
                \/ /\ conn[c].step = "open" /\ conn'[c].step = step
                   /\ conn'[c].aborted = FALSE /\ Live(c)
  <2>0. conn[c] \in GoodConns
    BY TypedParts
  <2>1. CASE c \notin Streaming(u)
    BY <2>0, <2>1 DEF Broadcast
  <2>2. CASE c \in Streaming(u)
    <3> DEFINE e == IF conn[c].event = "none" THEN event ELSE conn[c].event
               d == [conn[c] EXCEPT !.step = step, !.event = e]
    <3>1. conn'[c] = d
      BY <2>0, <2>2 DEF Broadcast
    <3>2. e \in {"none", "update", "role", "force"}
      BY <2>0, ConnFields
    <3>3. conn[c].step = "open" /\ conn[c].user = u /\ conn[c].aborted = FALSE
      BY <2>0, <2>2, ConnFields DEF Streaming, ConnFits
    <3> HIDE DEF e
    <3>4. /\ d \in ConnType /\ d.step = step /\ d.user = conn[c].user
          /\ d.aborted = conn[c].aborted
      BY <2>0, <3>2, ConnFields DEF ConnType
    <3> HIDE DEF d
    <3>5. d \in GoodConns
      BY <3>3, <3>4, Fixed DEF GoodConns, ConnFits
    <3> QED BY <3>1, <3>3, <3>4, <3>5 DEF Live
  <2> QED BY <2>1, <2>2
<1>2. conn' \in [Streams -> GoodConns]
  <2>1. conn' = [c \in Streams |-> conn'[c]]
    BY DEF Broadcast
  <2> QED BY <1>1, <2>1
<1>3. RefNames' /\ ConnsCalm
  BY <1>1 DEF RefNames, Live, ConnsCalm
<1> QED BY <1>1, <1>2, <1>3, TypedParts DEF StreamsKept

LEMMA EventTaken ==
  ASSUME Typed, RefNames, NEW c \in Streams, conn' = [conn EXCEPT ![c].event = "none"],
         UNCHANGED <<enabled, ref>>
  PROVE  /\ StreamsKept
         /\ \A x \in Streams : conn'[x].step = conn[x].step
<1> DEFINE d == [conn[c] EXCEPT !.event = "none"]
<1>1. conn[c] \in GoodConns /\ conn \in [Streams -> GoodConns]
  BY TypedParts
<1>2. /\ d \in ConnType /\ d.step = conn[c].step /\ d.event = "none"
      /\ d.aborted = conn[c].aborted /\ d.user = conn[c].user /\ d.on = conn[c].on
  BY <1>1, ConnFields DEF ConnType
<1>3. conn' = [conn EXCEPT ![c] = d]
  BY <1>1
<1> HIDE DEF d
<1>4. d \in GoodConns
  BY <1>1, <1>2, ConnFields DEF GoodConns, ConnFits
<1>5. /\ conn' \in [Streams -> GoodConns] /\ conn'[c] = d
      /\ \A x \in Streams \ {c} : conn'[x] = conn[x]
  BY <1>1, <1>3, <1>4
<1> QED BY <1>2, <1>5, TypedParts DEF StreamsKept, RefNames, Live, ConnsCalm
-----------------------------------------------------------------------------
(* Who waits for whom, under steps that neither start nor end a refresh,   *)
(* or start one because there is none.                                     *)
Sharing == NoneStranded /\ ScopeReissued

LEMMA SavesWait ==
  ASSUME Typed, NEW s \in Under("save")
  PROVE  s \in Slots /\ call[s].kind = "save" /\ call[s].step = "waiting"
BY TypedParts, CallFields DEF Under, CallFits

LEMMA SharingStays ==
  ASSUME Sharing, UNCHANGED call, ConnsCalm
  PROVE  Sharing'
BY DEF Sharing, NoneStranded, ScopeReissued, ConnsCalm, Refreshes, Under

LEMMA PlainSharing ==
  ASSUME Typed, Sharing, NEW s \in Slots, \A x \in Slots \ {s} : call'[x] = call[x],
         call[s].kind \notin {"refresh", "save"}, call'[s].kind \notin {"refresh", "save"},
         call'[s].step # "waiting", ConnsCalm
  PROVE  Sharing'
<1>1. Refreshes' = Refreshes /\ Under("save")' = Under("save")
      /\ s \notin Refreshes /\ s \notin Under("save")
  BY DEF Refreshes, Under
<1>2. NoneStranded'
  BY <1>1 DEF Sharing, NoneStranded, ConnsCalm
<1>3. ASSUME NEW u \in Under("save")', call'[u].retried, Under("save")' = {u}
      PROVE  call'[call'[u].on].remember = call'[u].remember
  <2>1. u \in Under("save") /\ u \in Slots /\ call'[u] = call[u] /\ call[u].step = "waiting"
    BY <1>1, SavesWait
  <2>2. call[u].on \in Refreshes
    BY <2>1 DEF Sharing, NoneStranded
  <2>3. call'[call[u].on] = call[call[u].on]
    BY <1>1, <2>2 DEF Refreshes, Under
  <2> QED BY <1>1, <1>3, <2>1, <2>3 DEF Sharing, ScopeReissued
<1> QED BY <1>2, <1>3 DEF Sharing, ScopeReissued

(* The refresh under way is answered; nobody hears of it yet.              *)
LEMMA AnswerSharing ==
  ASSUME Typed, Sharing, NEW r \in Refreshes, \A x \in Slots \ {r} : call'[x] = call[x],
         call'[r].kind = "refresh", call'[r].remember = call[r].remember,
         call'[r].step # "waiting", ConnsCalm
  PROVE  Sharing'
<1>1. r \in Slots /\ Refreshes' = Refreshes /\ Under("save")' = Under("save")
  BY DEF Refreshes, Under
<1>2. NoneStranded'
  BY <1>1 DEF Sharing, NoneStranded, ConnsCalm
<1>3. ASSUME NEW u \in Under("save")', call'[u].retried, Under("save")' = {u}
      PROVE  call'[call'[u].on].remember = call'[u].remember
  <2>1. u \in Under("save") /\ u # r /\ u \in Slots /\ call[u].step = "waiting"
    BY <1>1, SavesWait DEF Refreshes, Under
  <2>2. call'[u] = call[u] /\ call[u].on = r
    BY <2>1 DEF Sharing, NoneStranded
  <2> QED BY <1>1, <1>3, <2>1, <2>2 DEF Sharing, ScopeReissued
<1> QED BY <1>2, <1>3 DEF Sharing, ScopeReissued

LEMMA AwaitSharing ==
  ASSUME Typed, Sharing, NEW s \in Slots, NEW h \in CallType, h.kind \in Waiters,
         h.kind = "save" => ~h.retried,
         call[s].kind \notin {"refresh", "save"}, Awaits(s, h), ConnsCalm
  PROVE  Sharing'
<1>1. PICK r \in Slots \ {s} :
        /\ Sits(s, h, r)
        /\ \A x \in Slots \ {s, r} : call'[x] = call[x]
        /\ (r \in Refreshes /\ call'[r] = call[r]) \/ Starts(r)
  BY DEF Awaits
<1>2. r \in Refreshes' /\ s \notin Refreshes' /\ s \notin Refreshes /\ s \notin Under("save")
  BY <1>1 DEF Refreshes, Under, Sits, Starts, Waiters, Requests
<1>3. Refreshes' = Refreshes \cup {r} /\ \A q \in Refreshes : q = r
  <2>1. \A x \in Slots \ {s, r} : x \in Refreshes' <=> x \in Refreshes
    BY <1>1 DEF Refreshes, Under
  <2>2. Refreshes' \subseteq Slots /\ Refreshes \subseteq Slots
    BY DEF Refreshes, Under
  <2>3. \A q \in Refreshes : q = r
    BY <1>1 DEF Sharing, NoneStranded, Starts
  <2> QED BY <1>2, <2>1, <2>2, <2>3
<1>4. \A x \in Slots \ {s, r} : call'[x].step = "waiting" => call'[x].on = r
  BY <1>1, <1>3 DEF Sharing, NoneStranded
<1>5. call'[r].step # "waiting"
  <2>1. CASE Starts(r)
    BY <2>1 DEF Starts
  <2>2. CASE r \in Refreshes /\ call'[r] = call[r]
    BY <2>2, TypedParts, CallFields DEF CallFits, Refreshes, Under
  <2> QED BY <1>1, <2>1, <2>2
<1>6. NoneStranded'
  <2>1. \A q, p \in Refreshes' : q = p
    BY <1>3
  <2>2. \A x \in Slots : call'[x].step = "waiting" => call'[x].on \in Refreshes'
    BY <1>1, <1>2, <1>4, <1>5 DEF Sits
  <2>3. \A c \in Streams : conn'[c].step = "waiting" => conn'[c].on \in Refreshes'
    BY <1>3 DEF Sharing, NoneStranded, ConnsCalm
  <2> QED BY <2>1, <2>2, <2>3 DEF NoneStranded
<1>7. ASSUME NEW u \in Under("save")', call'[u].retried, Under("save")' = {u}
      PROVE  call'[call'[u].on].remember = call'[u].remember
  <2>1. u \in Slots /\ call'[u].kind = "save"
    BY DEF Under
  <2>2. u # s
    BY <1>1, <1>7, <2>1 DEF Sits
  <2>3. u # r
    BY <1>2, <2>1 DEF Refreshes, Under
  <2>4. call'[u] = call[u] /\ u \in Under("save")
    BY <1>1, <2>1, <2>2, <2>3 DEF Under
  <2>5. call[u].on \in Refreshes
    BY <2>4, SavesWait DEF Sharing, NoneStranded
  <2>6. call'[call[u].on] = call[call[u].on]
    BY <1>1, <1>3, <2>5 DEF Starts
  <2>7. Under("save") = {u}
    <3>1. ASSUME NEW x \in Under("save") PROVE x = u
      <4>1. x \in Slots \ {s, r}
        <5>1. x \in Slots /\ x # s
          BY <1>2 DEF Under
        <5>2. x # r
          BY <1>1 DEF Under, Refreshes, Starts, Idle
        <5> QED BY <5>1, <5>2
      <4>2. x \in Under("save")'
        BY <1>1, <4>1 DEF Under
      <4> QED BY <1>7, <4>2
    <3> QED BY <2>4, <3>1
  <2> QED BY <1>7, <2>4, <2>6, <2>7 DEF Sharing, ScopeReissued
<1> QED BY <1>6, <1>7 DEF Sharing, ScopeReissued
-----------------------------------------------------------------------------
(* Refresh tokens, under steps that make none, revocations included.       *)
TokenCalm ==
  /\ \A x \in Slots : /\ call'[x].got \in {None, call[x].got}
                      /\ call'[x].sent \in {None, call[x].sent, jar}
  /\ \A r \in Slots : call'[r].kind = "refresh" /\ call'[r].step = "asked" =>
       \/ call[r].kind = "refresh" /\ call[r].step = "asked" /\ call'[r].sent = call[r].sent
       \/ call'[r].sent = jar /\ ~Answering
  /\ Answering => Answering'
CookieMoves ==
  \/ jar' \in {None, jar}
  \/ \E s \in Slots : jar' = call[s].got /\ call[s].got # None /\ call'[s].got = None

LEMMA StayCalm == ASSUME UNCHANGED call PROVE TokenCalm
BY DEF TokenCalm, Answering, Refreshes, Under

LEMMA PlainCalm ==
  ASSUME NEW s \in Slots, PlainMove(s)
  PROVE  TokenCalm
<1>1. \A r \in Slots : call'[r].kind = "refresh" => call'[r] = call[r]
  BY DEF PlainMove, Plainly
<1>2. Answering => Answering'
  BY DEF PlainMove, Plainly, Answering, Refreshes, Under
<1>3. \A x \in Slots : /\ call'[x].got \in {None, call[x].got}
                       /\ call'[x].sent \in {None, call[x].sent, jar}
  BY DEF PlainMove, Plainly
<1> QED BY <1>1, <1>2, <1>3 DEF TokenCalm

LEMMA StartCalm ==
  ASSUME NEW r \in Slots, Starts(r), \A x \in Slots \ {r} : call'[x] = call[x]
  PROVE  TokenCalm
BY DEF TokenCalm, Starts, Answering, Refreshes, Under

LEMMA AwaitCalm ==
  ASSUME NEW s \in Slots, NEW h \in CallType, h.kind \in Waiters,
         h.sent \in {None, call[s].sent}, h.got \in {None, call[s].got},
         call[s].kind # "refresh", Awaits(s, h)
  PROVE  TokenCalm
<1>1. PICK r \in Slots \ {s} :
        /\ Sits(s, h, r)
        /\ \A x \in Slots \ {s, r} : call'[x] = call[x]
        /\ (r \in Refreshes /\ call'[r] = call[r]) \/ Starts(r)
  BY DEF Awaits
<1>2. \A x \in Slots : /\ call'[x].got \in {None, call[x].got}
                       /\ call'[x].sent \in {None, call[x].sent, jar}
  BY <1>1 DEF Sits, Starts
<1>3. ASSUME NEW x \in Slots, call'[x].kind = "refresh", call'[x].step = "asked"
      PROVE  \/ call[x].kind = "refresh" /\ call[x].step = "asked" /\ call'[x].sent = call[x].sent
             \/ call'[x].sent = jar /\ ~Answering
  <2>1. x # s
    BY <1>1, <1>3 DEF Sits
  <2>2. call'[x] = call[x] \/ (x = r /\ Starts(r))
    BY <1>1, <2>1
  <2> QED BY <1>3, <2>2 DEF Starts, Answering
<1>4. Answering => Answering'
  BY <1>1 DEF Answering, Refreshes, Under, Starts
<1> QED BY <1>2, <1>3, <1>4 DEF TokenCalm

LEMMA Carried ==
  ASSUME Typed, Tokens, TokenCalm, CookieMoves, UNCHANGED lost,
         NEW rows \in [Ids -> RowType],
         \A k \in Ids : rows[k].state \in {row[k].state, "revoked"},
         row' = rows \/ row' = Kept(rows, HeldBy(jar', call'))
  PROVE  Tokens'
<1>0. /\ row \in [Ids -> RowType] /\ jar \in Maybe(Ids) /\ None \notin Ids
      /\ \A x \in Slots : call[x].got \in Maybe(Ids) /\ call[x].sent \in Maybe(Ids)
  BY TypedParts, CallFields, Fixed
<1>1. \A k \in Ids \cap HeldBy(jar', call') :
        row'[k].state \in {row[k].state, "revoked"} /\ k \in HeldBy(jar, call)
  <2>1. ASSUME NEW k \in Ids, k \in HeldBy(jar', call') PROVE k \in HeldBy(jar, call)
    BY <1>0, <2>1 DEF HeldBy, TokenCalm, CookieMoves
  <2> QED BY <1>0, <2>1, KeptRows
<1>2. Exist'
  BY <1>1 DEF Exist, Tokens
<1>3. \A x \in Slots : call'[x].got # None => call'[x].got = call[x].got /\ call[x].got \in Ids
  BY <1>0 DEF TokenCalm, Maybe
<1>4. Newborn'
  <2>1. ASSUME NEW s \in Slots, call'[s].got # None
        PROVE  row'[call'[s].got].state # "rotated"
    <3>1. call'[s].got \in Ids \cap HeldBy(jar', call')
      BY <1>3, <2>1 DEF HeldBy
    <3> QED BY <1>1, <1>3, <2>1, <3>1 DEF Tokens, Newborn
  <2>2. ASSUME NEW s \in Slots, call'[s].got # None
        PROVE  call'[s].got # jar'
    <3>1. call'[s].got # jar /\ \A u \in Slots \ {s} : call[u].got # call'[s].got
      BY <1>3, <2>2 DEF Tokens, Newborn
    <3> QED BY <2>2, <3>1 DEF CookieMoves
  <2>3. ASSUME NEW s \in Slots, call'[s].got # None, NEW u \in Slots
        PROVE  call'[u].sent # call'[s].got /\ (u # s => call'[u].got # call'[s].got)
    <3>1. /\ call'[s].got # jar /\ call[u].sent # call'[s].got
          /\ u # s => call[u].got # call'[s].got
      BY <1>3, <2>3 DEF Tokens, Newborn
    <3>2. call'[u].sent \in {None, call[u].sent, jar} /\ call'[u].got \in {None, call[u].got}
      BY DEF TokenCalm
    <3> QED BY <2>3, <3>1, <3>2
  <2> QED BY <2>1, <2>2, <2>3 DEF Newborn
<1>5. CookieFit'
  <2>1. CASE jar' = None
    BY <2>1 DEF CookieFit
  <2>2. CASE jar' = jar /\ jar # None
    <3>1. row'[jar].state \in {row[jar].state, "revoked"}
      BY <1>0, <1>1, <2>2 DEF HeldBy, Maybe
    <3> QED BY <2>2, <3>1 DEF Tokens, CookieFit, TokenCalm
  <2>3. ASSUME NEW s \in Slots, jar' = call[s].got, call[s].got # None
        PROVE  CookieFit'
    <3>1. jar' \in Ids
      BY <1>0, <2>3 DEF Maybe
    <3>2. row'[jar'].state \in {row[call[s].got].state, "revoked"}
      BY <1>1, <2>3, <3>1 DEF HeldBy
    <3> QED BY <2>3, <3>2 DEF Tokens, Newborn, CookieFit
  <2> QED BY <2>1, <2>2, <2>3 DEF CookieMoves
<1>6. NoSelfReplay'
  <2>1. ASSUME NEW r \in Slots, call'[r].kind = "refresh", call'[r].step = "asked",
               call'[r].sent # None
        PROVE  row'[call'[r].sent].state # "rotated" \/ lost'
    <3>1. call'[r].sent \in Ids \cap HeldBy(jar', call')
      BY <1>0, <2>1 DEF TokenCalm, HeldBy, Maybe
    <3>2. row'[call'[r].sent].state \in {row[call'[r].sent].state, "revoked"}
      BY <1>1, <3>1
    <3>3. CASE call[r].kind = "refresh" /\ call[r].step = "asked" /\ call'[r].sent = call[r].sent
      BY <2>1, <3>2, <3>3 DEF Tokens, NoSelfReplay, Refreshes, Under
    <3>4. CASE call'[r].sent = jar /\ ~Answering
      BY <2>1, <3>2, <3>4 DEF Tokens, CookieFit
    <3> QED BY <2>1, <3>3, <3>4 DEF TokenCalm
  <2> QED BY <2>1 DEF NoSelfReplay, Refreshes, Under
<1> QED BY <1>2, <1>4, <1>5, <1>6 DEF Tokens

LEMMA Quiet ==
  ASSUME Typed, Tokens, TokenCalm, CookieMoves, UNCHANGED lost,
         row' = row \/ row' = Kept(row, HeldBy(jar', call'))
  PROVE  Tokens'
<1>1. row \in [Ids -> RowType] /\ \A k \in Ids : row[k].state \in {row[k].state, "revoked"}
  BY TypedParts
<1> QED BY <1>1, Carried

(* A new token is nobody's, until the answer that brings it.               *)
LEMMA NewToken ==
  ASSUME Typed, Tokens, NEW k \in Ids, row[k] = Unused
  PROVE  /\ k \notin HeldBy(jar, call) /\ k # jar
         /\ \A x \in Slots : call[x].sent # k /\ call[x].got # k
BY DEF Tokens, Exist, Unused, HeldBy

LEMMA SignInTokens ==
  ASSUME Typed, Tokens, NEW s \in Slots, call[s].kind \in Signing, NEW k \in Ids, NEW u \in Maybe(Users),
         row[k] = Unused, Minted(s, k), UNCHANGED <<jar, lost>>,
         row' = Kept([row EXCEPT ![k] = [user |-> u, state |-> "live"]], HeldBy(jar, call'))
  PROVE  Tokens'
<1> DEFINE rows == [row EXCEPT ![k] = [user |-> u, state |-> "live"]]
<1>0. /\ row \in [Ids -> RowType] /\ jar \in Maybe(Ids) /\ None \notin Ids
      /\ \A x \in Slots : call[x].got \in Maybe(Ids) /\ call[x].sent \in Maybe(Ids)
      /\ [user |-> u, state |-> "live"] \in RowType
  BY TypedParts, CallFields, Fixed DEF RowType
<1>1. /\ rows \in [Ids -> RowType] /\ rows[k].state = "live"
      /\ \A j \in Ids \ {k} : rows[j] = row[j]
  BY <1>0
<1>2. row' = Kept(rows, HeldBy(jar, call'))
  OBVIOUS
<1> HIDE DEF rows
<1>3. \A j \in Ids \cap HeldBy(jar, call') :
        /\ row'[j] = rows[j]
        /\ j # k => row'[j] = row[j] /\ j \in HeldBy(jar, call)
  <2>1. ASSUME NEW j \in Ids, j \in HeldBy(jar, call'), j # k PROVE j \in HeldBy(jar, call)
    BY <1>0, <2>1 DEF HeldBy, Minted
  <2> QED BY <1>1, <1>2, <2>1, KeptRows
<1>4. k \notin HeldBy(jar, call) /\ k # jar
      /\ \A x \in Slots : call[x].sent # k /\ call[x].got # k
  BY NewToken
<1>5. Exist'
  BY <1>1, <1>3 DEF Tokens, Exist
<1>6. \A x \in Slots : /\ call'[x].sent \in {None, call[x].sent}
                       /\ call'[x].got = IF x = s THEN k ELSE call[x].got
                       /\ call'[x].kind = "refresh" => call'[x] = call[x]
  BY DEF Minted, Signing
<1>7. Newborn'
  <2>1. ASSUME NEW x \in Slots, call'[x].got # None
        PROVE  row'[call'[x].got].state # "rotated" /\ call'[x].got # jar
    <3>1. call'[x].got \in Ids \cap HeldBy(jar, call')
      BY <1>0, <1>6, <2>1 DEF HeldBy, Maybe
    <3>2. CASE x = s
      BY <1>1, <1>3, <1>4, <1>6, <3>1, <3>2
    <3>3. CASE x # s
      <4>1. call'[x].got = call[x].got /\ call[x].got # k
        BY <1>4, <1>6, <3>3
      <4>2. row'[call'[x].got] = row[call[x].got]
        BY <1>3, <3>1, <4>1
      <4> QED BY <2>1, <4>1, <4>2 DEF Tokens, Newborn
    <3> QED BY <3>2, <3>3
  <2>2. ASSUME NEW x \in Slots, call'[x].got # None, NEW y \in Slots
        PROVE  call'[y].sent # call'[x].got /\ (y # x => call'[y].got # call'[x].got)
    BY <1>0, <1>4, <1>6, <2>2, Fixed DEF Tokens, Newborn
  <2> QED BY <2>1, <2>2 DEF Newborn
<1>8. CookieFit'
  <2>1. jar # None => row'[jar] = row[jar]
    BY <1>0, <1>3, <1>4 DEF HeldBy, Maybe
  <2>2. Answering => Answering'
    BY DEF Answering, Refreshes, Under, Minted, Signing
  <2> QED BY <2>1, <2>2 DEF Tokens, CookieFit
<1>9. NoSelfReplay'
  <2>1. ASSUME NEW r \in Slots, call'[r].kind = "refresh", call'[r].step = "asked",
               call'[r].sent # None
        PROVE  row'[call'[r].sent].state # "rotated" \/ lost'
    <3>1. call'[r] = call[r] /\ call[r].sent \in Ids \cap HeldBy(jar, call') /\ call[r].sent # k
      BY <1>0, <1>4, <1>6, <2>1 DEF HeldBy, Maybe
    <3> QED BY <1>3, <2>1, <3>1 DEF Tokens, NoSelfReplay, Refreshes, Under
  <2> QED BY <2>1 DEF NoSelfReplay, Refreshes, Under
<1> QED BY <1>5, <1>7, <1>8, <1>9 DEF Tokens

(* The one refresh under way is answered: its token is rotated, the new    *)
(* one is on its way.                                                      *)
LEMMA RotationTokens ==
  ASSUME Typed, Tokens, NoneStranded, NEW r \in Refreshes, NEW k \in Ids, NEW u \in Maybe(Users),
         row[k] = Unused, Minted(r, k), UNCHANGED <<jar, lost>>,
         NEW old \in Ids, old = call[r].sent,
         row' = Kept([[row EXCEPT ![old].state = "rotated"]
                        EXCEPT ![k] = [user |-> u, state |-> "live"]], HeldBy(jar, call'))
  PROVE  Tokens'
<1> DEFINE new == [user |-> u, state |-> "live"]
           was == [row[old] EXCEPT !.state = "rotated"]
           rows == [[row EXCEPT ![old] = was] EXCEPT ![k] = new]
<1>0. /\ row \in [Ids -> RowType] /\ jar \in Maybe(Ids) /\ None \notin Ids /\ r \in Slots
      /\ \A x \in Slots : call[x].got \in Maybe(Ids) /\ call[x].sent \in Maybe(Ids)
      /\ new \in RowType /\ call[r].kind = "refresh"
  BY TypedParts, CallFields, Fixed DEF RowType, Refreshes, Under
<1>1. was \in RowType /\ was.state = "rotated" /\ new.state = "live"
  BY <1>0 DEF RowType
<1>2. row' = Kept(rows, HeldBy(jar, call'))
  BY <1>0
<1> HIDE DEF new, was
<1>3. /\ rows \in [Ids -> RowType] /\ rows[k].state = "live"
      /\ \A j \in Ids \ {k, old} : rows[j] = row[j]
      /\ old # k => rows[old].state = "rotated"
  BY <1>0, <1>1
<1> HIDE DEF rows
<1>4. \A j \in Ids \cap HeldBy(jar, call') :
        /\ row'[j] = rows[j]
        /\ j # k => j \in HeldBy(jar, call)
  <2>1. ASSUME NEW j \in Ids, j \in HeldBy(jar, call'), j # k PROVE j \in HeldBy(jar, call)
    BY <1>0, <2>1 DEF HeldBy, Minted
  <2> QED BY <1>3, <1>2, <2>1, KeptRows
<1>5. k \notin HeldBy(jar, call) /\ k # jar /\ k # old
      /\ \A x \in Slots : call[x].sent # k /\ call[x].got # k
  BY <1>0, NewToken
<1>6. Exist'
  <2>1. ASSUME NEW j \in Ids, j \in HeldBy(jar, call') PROVE row'[j].state # "unused"
    <3>1. row'[j] = rows[j] /\ (j # k => row[j].state # "unused")
      BY <1>4, <2>1 DEF Tokens, Exist
    <3>2. j = k \/ j = old \/ rows[j] = row[j]
      BY <1>3
    <3> QED BY <1>3, <3>1, <3>2
  <2> QED BY <2>1 DEF Exist
<1>7. \A x \in Slots : /\ call'[x].sent \in {None, call[x].sent}
                       /\ call'[x].got = IF x = r THEN k ELSE call[x].got
                       /\ call'[x].kind = "refresh" => x = r
  BY <1>0 DEF Minted, NoneStranded, Refreshes, Under
<1>8. Newborn'
  <2>1. ASSUME NEW x \in Slots, call'[x].got # None
        PROVE  row'[call'[x].got].state # "rotated" /\ call'[x].got # jar
    <3>1. call'[x].got \in Ids \cap HeldBy(jar, call')
      BY <1>0, <1>7, <2>1 DEF HeldBy, Maybe
    <3>2. CASE x = r
      BY <1>3, <1>4, <1>5, <1>7, <3>1, <3>2
    <3>3. CASE x # r
      <4>1. call'[x].got = call[x].got /\ call[x].got # old /\ call[x].got # k
        BY <1>0, <1>5, <1>7, <2>1, <3>3 DEF Tokens, Newborn
      <4>2. row'[call'[x].got] = row[call[x].got]
        BY <1>3, <1>4, <3>1, <4>1
      <4> QED BY <2>1, <4>1, <4>2 DEF Tokens, Newborn
    <3> QED BY <3>2, <3>3
  <2>2. ASSUME NEW x \in Slots, call'[x].got # None, NEW y \in Slots
        PROVE  call'[y].sent # call'[x].got /\ (y # x => call'[y].got # call'[x].got)
    BY <1>0, <1>5, <1>7, <2>2, Fixed DEF Tokens, Newborn
  <2> QED BY <2>1, <2>2 DEF Newborn
<1>9. Answering' /\ \A q \in Refreshes' : call'[q].step = "ok"
  BY <1>0, <1>7 DEF Answering, Refreshes, Under, Minted
<1> QED BY <1>6, <1>8, <1>9 DEF Tokens, CookieFit, NoSelfReplay
-----------------------------------------------------------------------------
(* A page load.                                                            *)
LEMMA Reloaded ==
  ASSUME IInv, NEW j \in Maybe(Ids), Reload(j),
         j = jar \/ \E r \in Refreshes : call[r].step = "ok" /\ j = call[r].got
  PROVE  IInv'
<1>0. Typed /\ Tokens /\ row \in [Ids -> RowType] /\ scope \in BOOLEAN
  BY TypedParts DEF IInv
<1>1. PICK s \in Slots :
       call' = [x \in Slots |-> IF x = s
                  THEN [NewRefresh(scope) EXCEPT !.sent = j, !.boot = TRUE]
                  ELSE NoCall]
  BY DEF Reload
<1> DEFINE d == BootCall(scope, j)
<1>2. /\ d \in GoodCalls /\ d.kind = "refresh" /\ d.step = "asked" /\ d.sent = j /\ d.got = None
  BY <1>0, BootRefresh
<1>3. call' = [x \in Slots |-> IF x = s THEN d ELSE NoCall]
  BY <1>1 DEF BootCall
<1> HIDE DEF d
<1>4. /\ call' \in [Slots -> GoodCalls] /\ call'[s] = d
      /\ \A x \in Slots \ {s} : call'[x] = NoCall
  BY <1>2, <1>3, Fixed
<1>5. /\ conn' \in [Streams -> GoodConns] /\ \A c \in Streams : conn'[c] = NoConn
  BY Fixed DEF Reload
<1>6. row' = Kept(row, {j}) /\ row' \in [Ids -> RowType] /\ jar' = j /\ out' = out
  BY <1>0, KeptRows DEF Reload, history
<1>7. lost' \in BOOLEAN
  BY TypedParts, <1>0 DEF Reload
<1>8. Typed'
  <2>1. /\ active' \subseteq Users /\ scope' \in BOOLEAN /\ out' \in BOOLEAN
        /\ user' \in Maybe(Users) /\ isSaving' \in Maybe(Slots) /\ ref' \in Maybe(Streams)
        /\ pendingRememberScope' \in BOOLEAN \cup {None} /\ enabled' \in BOOLEAN /\ timer' \in BOOLEAN
        /\ token' \in [user: Maybe(Users), good: BOOLEAN]
    BY <1>0, TypedParts, Fixed DEF Reload, Maybe
  <2> QED BY <1>4, <1>5, <1>6, <1>7, <2>1, TypedFrom
<1>9. /\ Refreshes' = {s} /\ Under("save")' = {}
      /\ \A x \in Slots : call'[x].step # "waiting" /\ call'[x].got = None
                         /\ call'[x].sent \in {None, j}
  BY <1>2, <1>4, Fixed DEF Refreshes, Under
<1>10. NoneStranded' /\ ScopeReissued' /\ RefNames'
  BY <1>5, <1>9, Fixed DEF NoneStranded, ScopeReissued, RefNames, Live
<1>11. j # None => /\ row'[j] = row[j] /\ row[j].state # "unused"
                   /\ row[j].state # "rotated" \/ lost'
  <2> SUFFICES ASSUME j # None
               PROVE  /\ row'[j] = row[j] /\ row[j].state # "unused"
                      /\ row[j].state # "rotated" \/ lost'
    OBVIOUS
  <2>1. j \in Ids /\ row'[j] = row[j]
    BY <1>0, <1>6, KeptRows DEF Maybe
  <2>2. CASE j = jar
    <3>1. j \in HeldBy(jar, call)
      BY <2>2 DEF HeldBy
    <3>2. row[j].state # "rotated" \/ lost \/ Answering
      BY <1>0, <2>2 DEF Tokens, CookieFit
    <3>3. Answering => \E q \in Refreshes : call[q].got # None
      BY <1>0, TypedParts, CallFields DEF Answering, CallFits, Refreshes, Under
    <3>4. lost' = (lost \/ \E q \in Refreshes : call[q].got # None)
      BY <2>2 DEF Reload
    <3> QED BY <1>0, <2>1, <3>1, <3>2, <3>3, <3>4 DEF Tokens, Exist
  <2>3. ASSUME NEW r \in Refreshes, j = call[r].got
        PROVE  row[j].state # "unused" /\ row[j].state # "rotated"
    <3>1. r \in Slots /\ j \in HeldBy(jar, call)
      BY <2>3 DEF Refreshes, Under, HeldBy
    <3> QED BY <1>0, <2>1, <2>3, <3>1 DEF Tokens, Exist, Newborn
  <2> QED BY <2>1, <2>2, <2>3
<1>12. Tokens'
  <2>1. \A k \in Ids : k \in HeldBy(jar', call') => k = j
    BY <1>6, <1>9, Fixed DEF HeldBy
  <2>2. Exist'
    BY <1>11, <2>1, Fixed DEF Exist
  <2> QED BY <1>6, <1>9, <1>11, <2>2 DEF Tokens, Newborn, CookieFit, NoSelfReplay
<1>13. Away'
  <2>1. ASSUME out PROVE j = None
    BY <2>1, <1>0, TypedParts, CallFields DEF IInv, Away, Refreshes, Under, Idle, CallFits
  <2>2. \A x \in Slots : Idle(x)' \/ (x \in Refreshes' /\ call'[x].sent = j /\ call'[x].got = None)
    BY <1>2, <1>4, <1>9, Fixed DEF Idle
  <2>3. user' = None /\ token' = NoToken
    BY DEF Reload
  <2> QED BY <1>5, <1>6, <2>1, <2>2, <2>3, Fixed DEF Away
<1> QED BY <1>8, <1>10, <1>12, <1>13 DEF IInv
-----------------------------------------------------------------------------
(* The promise settles: what becomes of a call that is not the refresh.    *)
(* Only a saved preference goes on waiting, for the refresh it starts.     *)
Goes(x, r, d) ==
  /\ d \in GoodCalls /\ d.kind # "refresh"
  /\ d.sent \in {None, call[x].sent} /\ d.got \in {None, call[x].got}
  /\ d.step = "waiting" \/ d.kind = "save" =>
       /\ x \in Draining(r) /\ d.kind = "save" /\ d.on = r /\ d.remember = call[x].remember
  /\ x \in Draining(r) => d.kind = "save"
  /\ call[x].kind = "none" => d.kind = "none"

LEMMA Going ==
  ASSUME Typed, Sharing, NEW r \in Refreshes, NEW ok \in BOOLEAN, ~Leaves(r, ok),
         NEW new \in [user: Maybe(Users), good: BOOLEAN], NEW x \in Slots \ {r}
  PROVE  Goes(x, r, NextOf(x, r, new))
<1> DEFINE c == call[x]
<1>0. /\ c \in GoodCalls /\ c \in CallType /\ CallFits(c) /\ c.kind # "refresh" /\ r \in Slots
      /\ c.step = "waiting" => c.on = r
      /\ x \in Waiting(r) <=> c.step = "waiting"
  <2>1. c \in GoodCalls
    BY TypedParts
  <2>2. c.kind # "refresh" /\ r \in Slots
    BY DEF Sharing, NoneStranded, Refreshes, Under
  <2>3. c.step = "waiting" => c.on = r
    BY DEF Sharing, NoneStranded
  <2> QED BY <2>1, <2>2, <2>3, CallFields DEF Waiting
<1>1. CASE x \in Waiting(r) /\ c.kind \in Requests
  <2> DEFINE d == [c EXCEPT !.step = "asked", !.retried = TRUE, !.on = None,
                            !.user = new.user, !.good = TRUE]
  <2>1. NextOf(x, r, new) = d
    BY <1>1 DEF NextOf, Draining, Requests
  <2>2. d \in CallType /\ d.kind = c.kind /\ d.step = "asked" /\ d.sent = c.sent /\ d.got = c.got
    BY <1>0 DEF CallType, Maybe
  <2> HIDE DEF d, c
  <2>3. d \in GoodCalls
    BY <1>1, <2>2, PlainFits DEF Requests
  <2> QED BY <1>0, <1>1, <2>1, <2>2, <2>3 DEF Goes, Requests, Draining, c
<1>2. CASE x \in Draining(r)
  <2> DEFINE d == [c EXCEPT !.retried = TRUE]
  <2>1. c.kind = "save" /\ x \in Waiting(r)
    BY <1>2 DEF Draining
  <2>2. NextOf(x, r, new) = d
    BY <1>2, <2>1 DEF NextOf, Requests
  <2>3. /\ d \in CallType /\ d.kind = c.kind /\ d.step = c.step /\ d.sent = c.sent /\ d.got = c.got
        /\ d.on = c.on /\ d.remember = c.remember
    BY <1>0 DEF CallType
  <2> HIDE DEF d, c
  <2>4. d \in GoodCalls
    BY <1>0, <2>1, <2>3 DEF GoodCalls, CallFits
  <2> QED BY <1>0, <1>2, <2>1, <2>2, <2>3, <2>4 DEF Goes, c
<1>3. CASE x \in Waiting(r) \ Draining(r) /\ c.kind = "save"
  <2>1. NextOf(x, r, new) = NoCall
    BY <1>3 DEF NextOf, Requests
  <2> QED BY <1>3, <2>1, Fixed DEF Goes
<1>4. CASE x \notin Waiting(r)
  <2>1. NextOf(x, r, new) = c
    BY <1>4 DEF NextOf, Draining
  <2>2. c.step # "waiting" /\ c.kind # "save"
    BY <1>0, <1>4 DEF CallFits
  <2> QED BY <1>0, <1>4, <2>1, <2>2 DEF Goes, Draining
<1>5. x \in Waiting(r) => c.kind \in Requests \cup {"save"}
  <2>1. x \in Waiting(r) => c.kind \in Requests \cup {"save", "event"}
    BY <1>0 DEF CallFits
  <2>2. ~(x \in Waiting(r) /\ c.kind = "event")
    BY DEF Leaves
  <2> QED BY <2>1, <2>2
<1> QED BY <1>1, <1>2, <1>3, <1>4, <1>5

(* The slot of the refresh itself.                                         *)
Leftover(r, new) ==
  /\ call'[r].kind = "none" \/ (call'[r].kind = "getMe" /\ new.good)
  /\ call'[r].step # "waiting" /\ call'[r].sent = None /\ call'[r].got = None
Reissued(r, j) ==
  /\ call'[r].kind = "refresh" /\ call'[r].step = "asked"
  /\ call'[r].sent = j /\ call'[r].got = None
  /\ \E first \in Draining(r) : call'[r].remember = call[first].remember

LEMMA SettledCalls ==
  ASSUME Typed, Sharing, NEW r \in Refreshes, NEW ok \in BOOLEAN, ~Leaves(r, ok),
         NEW new \in [user: Maybe(Users), good: BOOLEAN], NEW j \in Maybe(Ids),
         \/ Draining(r) # {} /\ Reissue(r, j, new)
         \/ /\ Draining(r) = {} /\ UNCHANGED pendingRememberScope
            /\ call' = [x \in Slots |-> NextOf(x, r, new)]
  PROVE  /\ call' \in [Slots -> GoodCalls]
         /\ pendingRememberScope' \in BOOLEAN \cup {None}
         /\ \A x \in Slots \ {r} : Goes(x, r, call'[x])
         /\ (Draining(r) = {} /\ Leftover(r, new)) \/ Reissued(r, j)
<1>0. /\ call \in [Slots -> GoodCalls] /\ r \in Slots /\ call[r].step # "waiting"
      /\ \A x \in Draining(r) : x \in Slots /\ x # r /\ call[x].remember \in BOOLEAN
      /\ pendingRememberScope \in BOOLEAN \cup {None}
  <2>1. r \in Slots /\ call[r].kind = "refresh"
    BY DEF Refreshes, Under
  <2>2. call \in [Slots -> GoodCalls] /\ pendingRememberScope \in BOOLEAN \cup {None}
    BY TypedParts
  <2>3. call[r].step # "waiting"
    BY <2>1, <2>2, CallFields DEF CallFits
  <2>4. \A x \in Draining(r) : x \in Slots /\ x # r
    BY <2>3 DEF Draining, Waiting
  <2>5. \A x \in Draining(r) : call[x].remember \in BOOLEAN
    BY <2>2, <2>4, CallFields
  <2> QED BY <2>1, <2>2, <2>3, <2>4, <2>5
<1>1. \A x \in Slots \ {r} : Goes(x, r, NextOf(x, r, new))
  BY Going
<1>2. CASE Draining(r) # {} /\ Reissue(r, j, new)
  <2>1. PICK first \in Draining(r) :
    /\ call' = [x \in Slots |->
         IF x = r THEN [NewRefresh(call[first].remember) EXCEPT !.sent = j]
                  ELSE NextOf(x, r, new)]
    /\ \/ Draining(r) = {first} /\ pendingRememberScope' = None
       \/ \E last \in Draining(r) \ {first} :
            pendingRememberScope' = call[last].remember
    BY <1>2 DEF Reissue
  <2>2. PICK m \in BOOLEAN : m = call[first].remember
    BY <1>0
  <2> DEFINE d == [NewRefresh(m) EXCEPT !.sent = j]
  <2>3. /\ d \in GoodCalls /\ d.kind = "refresh" /\ d.step = "asked" /\ d.sent = j
        /\ d.got = None /\ d.remember = m
    BY NewRefreshWith
  <2>4. call' = [x \in Slots |-> IF x = r THEN d ELSE NextOf(x, r, new)]
    BY <2>1, <2>2
  <2> HIDE DEF d
  <2>5. /\ call' \in [Slots -> GoodCalls] /\ call'[r] = d
        /\ \A x \in Slots \ {r} : call'[x] = NextOf(x, r, new)
    BY <1>0, <1>1, <2>3, <2>4 DEF Goes
  <2>6. pendingRememberScope' \in BOOLEAN \cup {None}
    BY <1>0, <2>1
  <2>7. Reissued(r, j)
    BY <2>2, <2>3, <2>5 DEF Reissued
  <2> QED BY <1>1, <2>5, <2>6, <2>7
<1>3. CASE /\ Draining(r) = {} /\ UNCHANGED pendingRememberScope
           /\ call' = [x \in Slots |-> NextOf(x, r, new)]
  <2> DEFINE d == [NoCall EXCEPT !.kind = "getMe", !.step = "asked",
                                 !.user = new.user, !.good = TRUE]
  <2>1. d \in CallType /\ d.kind = "getMe" /\ d.step = "asked" /\ d.sent = None /\ d.got = None
    BY Fixed, CallFields DEF CallType, Kinds, NoCall
  <2>2. NextOf(r, r, new) = IF call[r].boot /\ new.good THEN d ELSE NoCall
    BY <1>0 DEF NextOf, Draining, Waiting
  <2> HIDE DEF d
  <2>3. d \in GoodCalls
    BY <2>1, PlainFits
  <2>4. NextOf(r, r, new) = NoCall \/ (new.good /\ NextOf(r, r, new) = d)
    BY <2>2
  <2>5. /\ call' \in [Slots -> GoodCalls] /\ call'[r] = NextOf(r, r, new)
        /\ \A x \in Slots \ {r} : call'[x] = NextOf(x, r, new)
    <3>1. NextOf(r, r, new) \in GoodCalls
      BY <2>3, <2>4, Fixed
    <3>2. \A x \in Slots : NextOf(x, r, new) \in GoodCalls
      BY <1>1, <3>1 DEF Goes
    <3> QED BY <1>0, <1>3, <3>2
  <2>6. Leftover(r, new)
    BY <2>1, <2>4, <2>5, Fixed DEF Leftover
  <2> QED BY <1>0, <1>1, <1>3, <2>5, <2>6
<1> QED BY <1>2, <1>3

LEMMA SettledSharing ==
  ASSUME Typed, Sharing, NEW r \in Refreshes, NEW new, NEW j,
         \A x \in Slots \ {r} : Goes(x, r, call'[x]),
         (Draining(r) = {} /\ Leftover(r, new)) \/ Reissued(r, j),
         \A c \in Streams : conn'[c].step # "waiting"
  PROVE  Sharing'
<1>1. r \in Slots /\ r \notin Draining(r)
  BY TypedParts, CallFields DEF Refreshes, Under, Draining, Waiting, CallFits
<1>2. \A q \in Refreshes' : q = r
  BY <1>1 DEF Refreshes, Under, Goes
<1>3. Draining(r) # {} => Reissued(r, j) /\ r \in Refreshes'
  BY <1>1 DEF Reissued, Refreshes, Under
<1>4. \A x \in Slots : call'[x].step = "waiting" => x \in Draining(r) /\ call'[x].on = r
  BY <1>1 DEF Goes, Leftover, Reissued
<1>5. NoneStranded'
  BY <1>2, <1>3, <1>4 DEF NoneStranded
<1>6. ASSUME NEW u \in Under("save")', Under("save")' = {u}
      PROVE  call'[call'[u].on].remember = call'[u].remember
  <2>1. u \in Slots \ {r} /\ call'[u].kind = "save"
    BY <1>1 DEF Under, Leftover, Reissued
  <2>2. u \in Draining(r) /\ call'[u].on = r /\ call'[u].remember = call[u].remember
    BY <2>1 DEF Goes
  <2>3. \A x \in Draining(r) : x = u
    <3>1. ASSUME NEW x \in Draining(r) PROVE x \in Under("save")'
      <4>1. x \in Slots \ {r}
        BY <1>1 DEF Draining, Waiting
      <4> QED BY <4>1 DEF Goes, Under
    <3> QED BY <1>6, <3>1
  <2> QED BY <1>3, <2>2, <2>3 DEF Reissued
<1> QED BY <1>5, <1>6 DEF Sharing, ScopeReissued

(* The streams that waited go on or are gone.                              *)
LEMMA SettledStreams ==
  ASSUME Typed, RefNames, NoneStranded, NEW r \in Refreshes, NEW ok \in BOOLEAN,
         NEW new \in [user: Maybe(Users), good: BOOLEAN],
         ClearRef(GivenUp(r, ok), [c \in Streams |-> Resumed(c, r, ok, new)]),
         UNCHANGED enabled
  PROVE  /\ conn' \in [Streams -> GoodConns] /\ ref' \in Maybe(Streams) /\ RefNames'
         /\ \A c \in Streams : conn'[c].step # "waiting"
         /\ \A c \in Streams : conn[c].step # "waiting" =>
              conn'[c] = conn[c] \/ conn'[c].step = "orphan"
<1> DEFINE rest == [c \in Streams |-> Resumed(c, r, ok, new)]
<1>1. ASSUME NEW c \in Streams
      PROVE  /\ Resumed(c, r, ok, new) \in GoodConns
             /\ Resumed(c, r, ok, new).step # "waiting"
             /\ conn[c].step # "waiting" => Resumed(c, r, ok, new) = conn[c]
             /\ c \in GivenUp(r, ok) => Resumed(c, r, ok, new) = NoConn
             /\ (/\ Resumed(c, r, ok, new).step \notin {"none", "orphan"}
                 /\ ~Resumed(c, r, ok, new).aborted) => Live(c)
  <2> DEFINE e == conn[c]
             d == [e EXCEPT !.step = "asked", !.on = None, !.retried = TRUE,
                            !.user = new.user, !.good = TRUE]
  <2>0. e \in GoodConns /\ e \in ConnType /\ ConnFits(e)
    BY TypedParts, ConnFields
  <2>1. CASE e.step # "waiting"
    <3>1. Resumed(c, r, ok, new) = e /\ c \notin GivenUp(r, ok)
      BY <2>1 DEF Resumed, GivenUp
    <3> QED BY <2>0, <2>1, <3>1 DEF Live
  <2>2. CASE e.step = "waiting" /\ ok /\ ~e.aborted
    <3>1. e.on = r
      BY <2>2 DEF NoneStranded
    <3>2. Resumed(c, r, ok, new) = d /\ c \notin GivenUp(r, ok)
      BY <2>2, <3>1 DEF Resumed, GivenUp
    <3>3. d \in ConnType /\ d.step = "asked" /\ d.aborted = e.aborted /\ d.event = e.event
      BY <2>0 DEF ConnType, Maybe
    <3>4. Live(c)
      BY <2>2 DEF Live
    <3> HIDE DEF d, e
    <3>5. d \in GoodConns
      BY <2>0, <2>2, <3>3 DEF GoodConns, ConnFits
    <3> QED BY <2>2, <3>2, <3>3, <3>4, <3>5 DEF e
  <2>3. CASE e.step = "waiting" /\ ~(ok /\ ~e.aborted)
    <3>1. e.on = r
      BY <2>3 DEF NoneStranded
    <3>2. Resumed(c, r, ok, new) = NoConn
      BY <2>3, <3>1 DEF Resumed
    <3> QED BY <2>3, <3>2, Fixed
  <2> QED BY <2>1, <2>2, <2>3
<1>2. /\ rest \in [Streams -> GoodConns] /\ \A c \in Streams : rest[c] = Resumed(c, r, ok, new)
  BY <1>1
<1>3. ClearRef(GivenUp(r, ok), rest) /\ GivenUp(r, ok) \in SUBSET Streams
  BY DEF GivenUp
<1> HIDE DEF rest
<1>4. /\ \A c \in GivenUp(r, ok) : rest[c] = NoConn
      /\ \A c \in Streams : rest[c].step \notin {"none", "orphan"} /\ ~rest[c].aborted => Live(c)
  BY <1>1, <1>2, <1>3
<1>5. /\ conn' \in [Streams -> GoodConns] /\ ref' \in Maybe(Streams) /\ RefNames'
      /\ \A c \in Streams : conn'[c] = rest[c] \/ conn'[c].step = "orphan"
  BY <1>2, <1>3, <1>4, Clearing
<1> QED BY <1>1, <1>2, <1>5

(* The tokens: the cookie is the one brought, or stays; in that case, a    *)
(* successor that was brought is lost.                                     *)
LEMMA SettledTokens ==
  ASSUME Typed, Tokens, NoneStranded, NEW r \in Refreshes, NEW ok \in BOOLEAN,
         ok => call[r].got # None, NEW j, j = (IF ok THEN call[r].got ELSE jar),
         NEW new, \A x \in Slots \ {r} : Goes(x, r, call'[x]),
         Leftover(r, new) \/ Reissued(r, j),
         jar' = j, row' = Kept(row, HeldBy(jar', call')),
         lost' = IF ok THEN FALSE ELSE lost \/ call[r].got # None
  PROVE  Tokens'
<1>0. /\ row \in [Ids -> RowType] /\ jar \in Maybe(Ids) /\ None \notin Ids /\ r \in Slots
      /\ \A x \in Slots : call[x].got \in Maybe(Ids) /\ call[x].sent \in Maybe(Ids)
      /\ Refreshes = {r}
      /\ call[r].step = "ok" <=> call[r].got # None
  BY TypedParts, CallFields, Fixed DEF NoneStranded, Refreshes, Under, CallFits
<1>1. /\ \A x \in Slots : /\ call'[x].sent \in {None, call[x].sent, j}
                          /\ call'[x].got \in {None, call[x].got}
                          /\ call'[x].kind = "refresh" => x = r /\ call'[x].sent = j
      /\ call'[r].got = None
  BY <1>0 DEF Goes, Leftover, Reissued
<1>2. \A k \in Ids \cap HeldBy(jar', call') : row'[k] = row[k] /\ k \in HeldBy(jar, call)
  <2>1. ASSUME NEW k \in Ids, k \in HeldBy(jar', call') PROVE k \in HeldBy(jar, call)
    BY <1>0, <1>1, <2>1 DEF HeldBy
  <2> QED BY <1>0, <2>1, KeptRows
<1>3. Exist'
  BY <1>2 DEF Tokens, Exist
<1>4. \A x \in Slots : call'[x].got # None =>
        x # r /\ call'[x].got = call[x].got /\ call[x].got \in Ids
  BY <1>0, <1>1 DEF Maybe
<1>5. Newborn'
  <2>1. ASSUME NEW x \in Slots, call'[x].got # None
        PROVE  row'[call'[x].got].state # "rotated" /\ call'[x].got # jar'
    <3>1. call'[x].got \in Ids \cap HeldBy(jar', call')
      BY <1>4, <2>1 DEF HeldBy
    <3> QED BY <1>0, <1>2, <1>4, <2>1, <3>1 DEF Tokens, Newborn
  <2>2. ASSUME NEW x \in Slots, call'[x].got # None, NEW y \in Slots
        PROVE  call'[y].sent # call'[x].got /\ (y # x => call'[y].got # call'[x].got)
    <3>1. /\ call[x].got # jar /\ call[y].sent # call[x].got /\ call[x].got # None
          /\ call[r].got # call[x].got
          /\ y # x => call[y].got # call[x].got
      BY <1>0, <1>4, <2>2 DEF Tokens, Newborn
    <3>2. j # call[x].got
      BY <3>1
    <3>3. call'[y].sent # call[x].got
      BY <1>1, <3>1, <3>2
    <3>4. y # x => call'[y].got # call[x].got
      BY <1>1, <3>1
    <3> QED BY <1>4, <2>2, <3>3, <3>4
  <2> QED BY <2>1, <2>2 DEF Newborn
<1>6. j # None => row'[j].state # "rotated" \/ lost'
  <2>1. ASSUME j # None PROVE row'[j] = row[j]
    BY <1>0, <1>2, <2>1 DEF HeldBy, Maybe
  <2>2. CASE ok
    BY <1>0, <2>1, <2>2 DEF Tokens, Newborn
  <2>3. CASE ~ok
    <3>1. Answering => call[r].got # None
      BY <1>0 DEF Answering
    <3> QED BY <2>1, <2>3, <3>1 DEF Tokens, CookieFit
  <2> QED BY <2>2, <2>3
<1>7. CookieFit' /\ NoSelfReplay'
  BY <1>1, <1>6 DEF CookieFit, NoSelfReplay, Refreshes, Under
<1> QED BY <1>3, <1>5, <1>7 DEF Tokens

LEMMA Settled ==
  ASSUME IInv, NEW r \in Refreshes, NEW ok \in BOOLEAN, ok => call[r].step = "ok",
         Settle(r, ok)
  PROVE  IInv'
<1> DEFINE new == IF ok THEN [user |-> row[call[r].got].user, good |-> TRUE] ELSE NoToken
           j   == IF ok THEN call[r].got ELSE jar
<1>0. /\ Typed /\ Tokens /\ Sharing /\ NoneStranded /\ RefNames /\ Away
      /\ r \in Slots /\ row \in [Ids -> RowType] /\ jar \in Maybe(Ids) /\ None \notin Ids
      /\ call[r].got \in Maybe(Ids)
      /\ call[r].step = "ok" <=> call[r].got # None
  BY TypedParts, CallFields, Fixed DEF IInv, Sharing, Refreshes, Under, CallFits
<1>1. new \in [user: Maybe(Users), good: BOOLEAN] /\ j \in Maybe(Ids)
  <2>1. CASE ok
    <3>1. call[r].got \in Ids
      BY <1>0, <2>1 DEF Maybe
    <3>2. row[call[r].got].user \in Maybe(Users)
      BY <1>0, <3>1 DEF RowType
    <3> QED BY <1>0, <2>1, <3>2
  <2>2. CASE ~ok
    BY <1>0, <2>2, Fixed
  <2> QED BY <2>1, <2>2
<1>2. /\ j = jar \/ (call[r].step = "ok" /\ j = call[r].got)
      /\ ~ok => new = NoToken /\ j = jar
  OBVIOUS
<1>3. \/ Leaves(r, ok) /\ Reload(j)
      \/ /\ ~Leaves(r, ok)
         /\ jar' = j /\ token' = new
         /\ user' = IF call[r].boot THEN new.user ELSE user
         /\ \/ Draining(r) # {} /\ Reissue(r, j, new)
            \/ /\ Draining(r) = {} /\ UNCHANGED pendingRememberScope
               /\ call' = [x \in Slots |-> NextOf(x, r, new)]
         /\ isSaving' = IF isSaving \in Waiting(r) \ Draining(r) THEN None ELSE isSaving
         /\ row' = Kept(row, HeldBy(jar', call'))
         /\ ClearRef(GivenUp(r, ok), [c \in Streams |-> Resumed(c, r, ok, new)])
         /\ lost' = IF ok THEN FALSE ELSE lost \/ call[r].got # None
         /\ UNCHANGED <<active, scope, enabled, timer, out>>
  BY Zenon DEF Settle
<1>4. j = IF ok THEN call[r].got ELSE jar
  OBVIOUS
<1> HIDE DEF new, j
<1>5. CASE Leaves(r, ok) /\ Reload(j)
  BY <1>1, <1>2, <1>5, Reloaded
<1>6. CASE /\ ~Leaves(r, ok)
           /\ jar' = j /\ token' = new
           /\ user' = IF call[r].boot THEN new.user ELSE user
           /\ \/ Draining(r) # {} /\ Reissue(r, j, new)
              \/ /\ Draining(r) = {} /\ UNCHANGED pendingRememberScope
                 /\ call' = [x \in Slots |-> NextOf(x, r, new)]
           /\ isSaving' = IF isSaving \in Waiting(r) \ Draining(r) THEN None ELSE isSaving
           /\ row' = Kept(row, HeldBy(jar', call'))
           /\ ClearRef(GivenUp(r, ok), [c \in Streams |-> Resumed(c, r, ok, new)])
           /\ lost' = IF ok THEN FALSE ELSE lost \/ call[r].got # None
           /\ UNCHANGED <<active, scope, enabled, timer, out>>
  <2>1. /\ call' \in [Slots -> GoodCalls]
        /\ pendingRememberScope' \in BOOLEAN \cup {None}
        /\ \A x \in Slots \ {r} : Goes(x, r, call'[x])
        /\ (Draining(r) = {} /\ Leftover(r, new)) \/ Reissued(r, j)
    BY <1>0, <1>1, <1>6, SettledCalls
  <2>2. /\ conn' \in [Streams -> GoodConns] /\ ref' \in Maybe(Streams) /\ RefNames'
        /\ \A c \in Streams : conn'[c].step # "waiting"
        /\ \A c \in Streams : conn[c].step # "waiting" =>
             conn'[c] = conn[c] \/ conn'[c].step = "orphan"
    BY <1>0, <1>1, <1>6, SettledStreams
  <2>3. Sharing'
    BY <1>0, <2>1, <2>2, SettledSharing
  <2>4. Tokens'
    BY <1>0, <1>4, <1>6, <2>1, SettledTokens
  <2>5. Typed'
    <3>1. row' \in [Ids -> RowType]
      BY <1>0, <1>6, KeptRows
    <3>2. isSaving' \in Maybe(Slots) /\ lost' \in BOOLEAN
      BY <1>0, <1>6, TypedParts DEF Maybe
    <3>3. user' \in Maybe(Users) /\ token' \in [user: Maybe(Users), good: BOOLEAN]
      BY <1>0, <1>1, <1>6, TypedParts
    <3>4. /\ active' \subseteq Users /\ scope' \in BOOLEAN /\ enabled' \in BOOLEAN
          /\ timer' \in BOOLEAN /\ out' \in BOOLEAN
      BY <1>0, <1>6, TypedParts
    <3>5. jar' \in Maybe(Ids)
      BY <1>1, <1>6
    <3> QED BY <2>1, <2>2, <3>1, <3>2, <3>3, <3>4, <3>5, TypedFrom
  <2>6. Away'
    <3> SUFFICES ASSUME out
                 PROVE  Away'
      BY <1>6 DEF Away
    <3>1. /\ user = None /\ jar = None /\ call[r].got = None
          /\ \A x \in Slots \ {r} : call[x].kind = "none"
      BY <1>0 DEF Away, Idle, Refreshes, Under, NoneStranded
    <3>2. ~ok
      BY <1>0, <3>1
    <3>3. user' = None /\ token' = NoToken /\ jar' = None /\ j = None
      BY <1>2, <1>6, <3>1, <3>2, Fixed
    <3>4. \A x \in Slots \ {r} : Idle(x)'
      BY <2>1, <3>1 DEF Goes, Idle
    <3>5. call'[r].kind = "none" \/ (call'[r].kind = "refresh" /\ call'[r].sent = None /\ call'[r].got = None)
      BY <1>2, <2>1, <3>2, <3>3, Fixed DEF Leftover, Reissued
    <3>6. \A x \in Slots : Idle(x)' \/ (x \in Refreshes' /\ call'[x].sent = None
                                                         /\ call'[x].got = None)
      BY <1>0, <3>4, <3>5 DEF Idle, Refreshes, Under
    <3>7. /\ \A c \in Streams : conn[c].step # "waiting"
          /\ \A c \in Streams : conn[c].step \in {"none", "open", "closing", "orphan"}
      BY <1>0 DEF Away
    <3>8. \A c \in Streams : conn'[c].step \in {"none", "open", "closing", "orphan"}
      BY <1>6, <2>2, <3>7
    <3> QED BY <3>3, <3>6, <3>8 DEF Away
  <2> QED BY <2>2, <2>3, <2>4, <2>5, <2>6 DEF IInv, Sharing
<1> QED BY <1>3, <1>5, <1>6
-----------------------------------------------------------------------------
(* The invariant from its parts, and what a step must do for them.         *)
LEMMA Parts ==
  ASSUME IInv
  PROVE  Typed /\ Sharing /\ NoneStranded /\ Tokens /\ RefNames /\ ScopeReissued /\ Away
BY DEF IInv, Sharing

(* What is under way shows that the tab is not logged out.                 *)
LEMMA Present ==
  ASSUME IInv,
         \/ user # None \/ token # NoToken \/ jar # None
         \/ \E s \in Slots : call[s].kind \notin {"none", "refresh"}
         \/ \E c \in Streams : conn[c].step \in {"asked", "waiting"}
  PROVE  ~out
BY DEF IInv, Away, Idle, Refreshes, Under

LEMMA OnlyCalls ==
  ASSUME IInv, ~out', out' \in BOOLEAN, NEW s \in Slots, PlainMove(s), user' \in Maybe(Users),
         UNCHANGED <<server, device, token, isSaving, pendingRememberScope, stream, lost>>
  PROVE  IInv'
<1>1. Typed'
  BY Parts, TypedParts, TypedFrom DEF PlainMove, server, device, stream
<1>2. StreamsKept
  BY Parts, StreamsStay DEF stream
<1>3. Sharing'
  BY <1>2, Parts, PlainSharing DEF PlainMove, Plainly, StreamsKept
<1>4. Tokens'
  BY Parts, PlainCalm, Quiet DEF CookieMoves, server, device
<1> QED BY <1>1, <1>2, <1>3, <1>4 DEF IInv, Sharing, StreamsKept, Away

LEMMA OnlyStreams ==
  ASSUME IInv, StreamsKept, active' \subseteq Users, enabled' \in BOOLEAN, timer' \in BOOLEAN,
         out => \A c \in Streams : conn'[c].step \in {"none", "open", "closing", "orphan"},
         UNCHANGED <<row, device, token, user, isSaving, pendingRememberScope, call, history>>
  PROVE  IInv'
<1>1. Typed'
  BY Parts, TypedParts, TypedFrom DEF StreamsKept, device, history
<1>2. Sharing'
  BY Parts, SharingStays DEF StreamsKept
<1>3. Tokens'
  BY Parts, StayCalm, Quiet DEF CookieMoves, device, history
<1>4. Away'
  BY Parts DEF Away, device, history, Idle, Refreshes, Under
<1> QED BY <1>1, <1>2, <1>3, <1>4 DEF IInv, Sharing, StreamsKept

(* A handler of slot s, which neither refreshes nor saves, waits from here *)
(* on as h.                                                                *)
LEMMA NowAwaits ==
  ASSUME IInv, ~out, NEW s \in Slots, call[s].kind \notin {"refresh", "save"},
         NEW h \in CallType, h.kind \in Waiters, h.kind = "save" => ~h.retried,
         h.sent \in {None, call[s].sent}, h.got \in {None, call[s].got},
         NEW sc \in BOOLEAN, AwaitRefresh(s, h, sc), StreamsKept,
         scope' \in BOOLEAN, isSaving' \in Maybe(Slots),
         UNCHANGED <<server, jar, token, user, enabled, timer, history>>
  PROVE  IInv'
<1>1. /\ call' \in [Slots -> GoodCalls]
      /\ pendingRememberScope' \in BOOLEAN \cup {None}
      /\ Awaits(s, h)
  BY Parts, AwaitTyped
<1>2. Typed'
  BY <1>1, Parts, TypedParts, TypedFrom DEF StreamsKept, server, history
<1>3. Sharing'
  BY <1>1, Parts, AwaitSharing DEF StreamsKept
<1>4. TokenCalm
  BY <1>1, AwaitCalm
<1>5. Tokens'
  BY <1>4, Parts, Quiet DEF CookieMoves, server, history
<1> QED BY <1>2, <1>3, <1>5 DEF IInv, Sharing, StreamsKept, Away, history
-----------------------------------------------------------------------------
(* Action by action.                                                       *)
LEMMA LoadPageKeeps == ASSUME IInv, LoadPage PROVE IInv'
BY Parts, TypedParts, Reloaded DEF LoadPage

LEMMA AskingKeeps ==
  ASSUME IInv, SendRequest \/ RefreshUser
  PROVE  IInv'
<1>1. PICK s \in Slots, kind \in Requests :
        Idle(s) /\ call' = [call EXCEPT ![s] = Asked(kind)]
  BY DEF SendRequest, RefreshUser, Requests
<1>2. PlainMove(s)
  BY <1>1, Parts, PutAsked
<1>3. ~out
  BY Present DEF SendRequest, RefreshUser, ScreenShown
<1>4. /\ UNCHANGED <<server, device, token, user, isSaving, pendingRememberScope, stream, history>>
  BY DEF SendRequest, RefreshUser
<1> QED BY <1>2, <1>3, <1>4, Parts, TypedParts, OnlyCalls DEF history

LEMMA ServeRequestKeeps ==
  ASSUME IInv, NEW s \in Slots, ServeRequest(s)
  PROVE  IInv'
<1>1. PlainMove(s)
  BY Parts, ServeRequestMoves
<1>2. ~out
  BY Present DEF ServeRequest, Requests
<1>3. UNCHANGED <<server, device, token, user, isSaving, pendingRememberScope, stream, history>>
  BY DEF ServeRequest
<1> QED BY <1>1, <1>2, <1>3, Parts, TypedParts, OnlyCalls DEF history

LEMMA RequestAnsweredKeeps ==
  ASSUME IInv, NEW s \in Slots, RequestAnswered(s)
  PROVE  IInv'
<1>0. /\ call[s].kind \in Requests /\ call[s].kind \notin {"refresh", "save"} /\ ~out
      /\ call[s] \in CallType /\ call[s].user \in Maybe(Users)
  BY Present, Parts, TypedParts, CallFields DEF RequestAnswered, Requests
<1>1. CASE /\ call[s].step = "ok"
           /\ call' = [call EXCEPT ![s] = NoCall]
           /\ user' \in {user, call[s].user}
           /\ UNCHANGED <<server, jar, scope, token, isSaving, pendingRememberScope,
                          stream, history>>
  <2>1. PlainMove(s)
    BY <1>0, <1>1, Parts, PutNoCall
  <2>2. user' \in Maybe(Users)
    BY <1>0, <1>1, Parts, TypedParts
  <2>3. /\ UNCHANGED <<server, device, token, isSaving, pendingRememberScope, stream, lost>>
        /\ out' = out
    BY <1>1 DEF history, device
  <2>4. ~out' /\ out' \in BOOLEAN
    BY <1>0, <2>3, Parts, TypedParts
  <2> QED BY <2>1, <2>2, <2>3, <2>4, OnlyCalls
<1>2. CASE /\ AwaitRefresh(s, call[s], scope)
           /\ UNCHANGED <<server, device, token, user, isSaving, stream, history>>
  <2>1. StreamsKept
    BY <1>2, Parts, StreamsStay DEF stream
  <2>2. scope \in BOOLEAN /\ isSaving \in Maybe(Slots)
    BY Parts, TypedParts
  <2>3. PICK sc \in BOOLEAN : sc = scope
    BY <2>2
  <2>4. PICK h \in CallType : h = call[s]
    BY <1>0
  <2>5. AwaitRefresh(s, h, sc)
    BY <1>2, <2>3, <2>4
  <2>6. /\ h.kind \in Waiters /\ h.kind # "save"
        /\ h.sent \in {None, call[s].sent} /\ h.got \in {None, call[s].got}
    BY <1>0, <2>4 DEF Waiters
  <2> QED BY <1>0, <1>2, <2>1, <2>2, <2>5, <2>6, NowAwaits DEF device, stream
<1>3. CASE /\ call' = [call EXCEPT ![s] = NoCall]
           /\ UNCHANGED <<server, device, token, user, isSaving, pendingRememberScope,
                          stream, history>>
  <2>1. PlainMove(s)
    BY <1>0, <1>3, Parts, PutNoCall
  <2> QED BY <1>0, <1>3, <2>1, Parts, TypedParts, OnlyCalls DEF history
<1>4. CASE Reload(jar)
  BY <1>4, Parts, TypedParts, Reloaded
<1>5. CASE /\ call[s].step = "ok"
           /\ call' = [call EXCEPT ![s] = NoCall]
           /\ IF call[s].kind = "request" THEN UNCHANGED user ELSE user' = call[s].user
           /\ UNCHANGED <<server, jar, scope, token, isSaving, pendingRememberScope,
                          stream, history>>
  <2>1. user' \in {user, call[s].user}
    BY <1>5
  <2> QED BY <1>1, <1>5, <2>1
<1> QED BY Zenon, <1>2, <1>3, <1>4, <1>5 DEF RequestAnswered

LEMMA RequestFailsKeeps ==
  ASSUME IInv, NEW s \in Slots, RequestFails(s)
  PROVE  IInv'
<1>1. PlainMove(s)
  BY Parts, PutNoCall DEF RequestFails, Requests
<1>2. ~out
  BY Present DEF RequestFails, Requests
<1>3. UNCHANGED <<server, device, token, user, isSaving, pendingRememberScope, stream, history>>
  BY DEF RequestFails
<1> QED BY <1>1, <1>2, <1>3, Parts, TypedParts, OnlyCalls DEF history

LEMMA ExpireKeeps == ASSUME IInv, Expire PROVE IInv'
<1>0. /\ token \in [user: Maybe(Users), good: BOOLEAN] /\ token.good
      /\ token' = [token EXCEPT !.good = FALSE] /\ token # NoToken
      /\ UNCHANGED <<server, device, user, isSaving, pendingRememberScope, call, stream, history>>
  BY Parts, TypedParts, Fixed DEF Expire
<1>1. ~out /\ token' \in [user: Maybe(Users), good: BOOLEAN]
  BY <1>0, Present
<1>2. Typed'
  BY <1>0, <1>1, Parts, TypedParts, TypedFrom DEF server, device, stream, history
<1>3. StreamsKept
  BY <1>0, Parts, StreamsStay DEF stream
<1>4. Sharing'
  BY <1>0, <1>3, Parts, SharingStays DEF StreamsKept
<1>5. Tokens'
  BY <1>0, Parts, StayCalm, Quiet DEF CookieMoves, server, device, history
<1> QED BY <1>0, <1>1, <1>2, <1>3, <1>4, <1>5 DEF IInv, Sharing, StreamsKept, Away, history

LEMMA SubmitKeeps ==
  ASSUME IInv, SubmitLogin \/ SubmitPin \/ VerifyPassword
  PROVE  IInv'
<1>1. PICK kind \in Signing, u \in Users, save \in BOOLEAN : SignIn(kind, u, save)
  <2>1. CASE SubmitLogin
    BY <2>1 DEF SubmitLogin, Signing
  <2>2. CASE SubmitPin
    <3>1. PICK u \in HasPin : SignIn("pinLogin", u, FALSE)
      BY <2>2 DEF SubmitPin
    <3> QED BY <3>1, BrowserAssumption DEF Signing
  <2>3. CASE VerifyPassword
    <3>1. user \in Users
      BY <2>3, Parts, TypedParts DEF VerifyPassword, VerifyForm, ScreenShown, Maybe
    <3> QED BY <2>3, <3>1 DEF VerifyPassword, Signing
  <2> QED BY <2>1, <2>2, <2>3
<1>2. PICK s \in Slots : PlainMove(s)
  BY <1>1, Parts, SignInMoves
<1>3. /\ out' = FALSE
      /\ UNCHANGED <<server, device, token, user, isSaving, pendingRememberScope, stream, lost>>
  BY <1>1 DEF SignIn
<1> QED BY <1>2, <1>3, Parts, TypedParts, OnlyCalls

LEMMA LogoutKeeps == ASSUME IInv, Logout PROVE IInv'
<1>1. PICK s \in Slots : PlainMove(s)
  BY Parts, LogoutMoves
<1>2. ~out
  BY Present DEF Logout, Sidebar, ScreenShown
<1>3. UNCHANGED <<server, device, token, user, isSaving, pendingRememberScope, stream, history>>
  BY DEF Logout
<1> QED BY <1>1, <1>2, <1>3, Parts, TypedParts, OnlyCalls DEF history

LEMMA ServeRefreshKeeps ==
  ASSUME IInv, NEW r \in Slots, ServeRefresh(r)
  PROVE  IInv'
<1> DEFINE k == call[r].sent
           revoked == [j \in Ids |-> IF row[j].user = row[k].user
                         THEN [row[j] EXCEPT !.state = "revoked"] ELSE row[j]]
<1>0. /\ call[r].kind = "refresh" /\ call[r].step = "asked" /\ r \in Refreshes
      /\ call[r].got = None /\ call[r] \in CallType
      /\ row \in [Ids -> RowType] /\ k \in Maybe(Ids)
      /\ UNCHANGED <<active, device, token, user, isSaving, pendingRememberScope, stream, history>>
  BY Parts, TypedParts, CallFields DEF ServeRefresh, Refreshes, Under, CallFits
<1>1. StreamsKept
  BY <1>0, Parts, StreamsStay DEF stream
<1>2. ASSUME call' \in [Slots -> GoodCalls], \A x \in Slots \ {r} : call'[x] = call[x],
             call'[r].kind = "refresh", call'[r].remember = call[r].remember,
             row' \in [Ids -> RowType], Tokens', Away'
      PROVE  IInv'
  <2>1. call'[r].step # "waiting"
    BY <1>2, CallFields DEF CallFits
  <2>2. Sharing'
    BY <1>0, <1>1, <1>2, <2>1, Parts, AnswerSharing DEF StreamsKept
  <2>3. Typed'
    BY <1>0, <1>2, Parts, TypedParts, TypedFrom DEF device, stream, history
  <2> QED BY <1>1, <1>2, <2>2, <2>3 DEF IInv, Sharing, StreamsKept
<1>3. ASSUME Refuse(r), NEW rows \in [Ids -> RowType],
             \A j \in Ids : rows[j].state \in {row[j].state, "revoked"},
             row' = Kept(rows, HeldBy(jar, call'))
      PROVE  IInv'
  <2>1. PICK d \in CallType :
           /\ call' = [call EXCEPT ![r] = d] /\ d.kind = call[r].kind /\ d.step = "refused"
           /\ d.sent = None /\ d.got = call[r].got /\ d.remember = call[r].remember
    BY <1>3, Parts, RefuseFields
  <2>2. d \in GoodCalls
    BY <1>0, <2>1 DEF GoodCalls, CallFits
  <2>3. /\ call' \in [Slots -> GoodCalls] /\ call'[r] = d
        /\ \A x \in Slots \ {r} : call'[x] = call[x]
    BY <2>1, <2>2, Parts, TypedParts
  <2>4. \A q \in Refreshes : q = r
    BY <1>0, Parts DEF NoneStranded
  <2>5. TokenCalm
    <3>1. ~Answering
      BY <1>0, <2>4 DEF Answering
    <3>2. \A x \in Slots : /\ call'[x].got \in {None, call[x].got}
                           /\ call'[x].sent \in {None, call[x].sent, jar}
      BY <2>1, <2>3
    <3>3. \A x \in Slots : call'[x].kind = "refresh" /\ call'[x].step = "asked" =>
                             call'[x] = call[x]
      BY <2>1, <2>3
    <3> QED BY <3>1, <3>2, <3>3 DEF TokenCalm
  <2>6. Tokens'
    BY <1>0, <1>3, <2>5, Parts, Carried DEF CookieMoves, device, history
  <2>7. row' \in [Ids -> RowType]
    BY <1>3, KeptRows
  <2>8. Away'
    <3>1. out => \A x \in Slots : Idle(x)' \/ (x \in Refreshes' /\ call'[x].sent = None
                                                                /\ call'[x].got = None)
      BY <1>0, <2>1, <2>3, Parts DEF Away, Idle, Refreshes, Under
    <3> QED BY <1>0, <3>1, Parts DEF Away, device, stream, history
  <2> QED BY <1>0, <1>2, <2>1, <2>3, <2>6, <2>7, <2>8
<1>4. CASE Refuse(r) /\ row' = Kept(row, HeldBy(jar, call'))
  BY <1>0, <1>3, <1>4
<1>5. CASE k # None /\ Mint(r, row[k].user, [row EXCEPT ![k].state = "rotated"])
  <2> DEFINE was == [row[k] EXCEPT !.state = "rotated"]
             others == [row EXCEPT ![k] = was]
  <2>0. k \in Ids /\ row[k] \in RowType
    BY <1>0, <1>5 DEF Maybe
  <2>1. was \in RowType
    BY <2>0 DEF RowType
  <2>2. others = [row EXCEPT ![k].state = "rotated"] /\ row[k].user \in Maybe(Users)
    BY <1>0, <2>0 DEF RowType
  <2> HIDE DEF was
  <2>3. others \in [Ids -> RowType]
    BY <1>0, <2>1
  <2> HIDE DEF others
  <2>4. Mint(r, row[k].user, others)
    BY <1>5, <2>2
  <2>5. PICK n \in Ids :
           /\ row[n] = Unused /\ Minted(r, n)
           /\ row' = Kept([others EXCEPT ![n] = [user |-> row[k].user, state |-> "live"]],
                          HeldBy(jar, call'))
           /\ row' \in [Ids -> RowType]
    BY <1>0, <2>2, <2>3, <2>4, Parts, MintFields
  <2>6. row' = Kept([[row EXCEPT ![k].state = "rotated"]
                        EXCEPT ![n] = [user |-> row[k].user, state |-> "live"]], HeldBy(jar, call'))
    BY <2>2, <2>5
  <2>7. UNCHANGED <<jar, lost>>
    BY <1>0 DEF device, history
  <2>8. Tokens'
    BY <1>0, <2>0, <2>2, <2>5, <2>6, <2>7, Parts, RotationTokens
  <2>9. ~out /\ ~out'
    BY <1>0, <1>5, Parts DEF Away, Idle, history
  <2> QED BY <1>0, <1>2, <2>5, <2>8, <2>9 DEF Minted, Away
<1>6. CASE /\ k # None /\ Refuse(r) /\ row' = Kept(revoked, HeldBy(jar, call'))
  <2>1. ASSUME NEW j \in Ids
        PROVE  revoked[j] \in RowType /\ revoked[j].state \in {row[j].state, "revoked"}
    <3>1. row[j] \in RowType
      BY <1>0
    <3>2. [row[j] EXCEPT !.state = "revoked"] \in RowType
      BY <3>1 DEF RowType
    <3>3. [row[j] EXCEPT !.state = "revoked"].state = "revoked"
      BY <3>1 DEF RowType
    <3> QED BY <3>1, <3>2, <3>3
  <2>2. revoked \in [Ids -> RowType]
    BY <2>1
  <2> HIDE DEF revoked
  <2> QED BY <1>3, <1>6, <2>1, <2>2
<1> QED BY Zenon, <1>4, <1>5, <1>6 DEF ServeRefresh

LEMMA RefreshEndsKeeps ==
  ASSUME IInv, NEW r \in Slots, RefreshAnswered(r) \/ RefreshFails(r)
  PROVE  IInv'
<1>1. r \in Refreshes
  BY DEF RefreshAnswered, RefreshFails, Refreshes, Under
<1>2. CASE RefreshAnswered(r) /\ call[r].step = "ok"
  <2>1. Settle(r, TRUE)
    <3>1. (call[r].step = "ok") = TRUE
      BY <1>2
    <3> QED BY <1>2, <3>1 DEF RefreshAnswered
  <2> QED BY <1>1, <1>2, <2>1, Settled
<1>3. CASE RefreshAnswered(r) /\ call[r].step # "ok"
  <2>1. Settle(r, FALSE)
    <3>1. (call[r].step = "ok") = FALSE
      BY <1>3
    <3> QED BY <1>3, <3>1 DEF RefreshAnswered
  <2> QED BY <1>1, <2>1, Settled
<1>4. CASE RefreshFails(r)
  BY <1>1, <1>4, Settled DEF RefreshFails
<1> QED BY <1>2, <1>3, <1>4

LEMMA ServeSignInKeeps ==
  ASSUME IInv, NEW s \in Slots, ServeSignIn(s)
  PROVE  IInv'
<1>0. /\ call[s].kind \in Signing /\ call[s].kind \notin {"refresh", "save"} /\ ~out /\ ~out'
      /\ UNCHANGED <<active, device, token, user, isSaving, pendingRememberScope, stream, history>>
  BY Present DEF ServeSignIn, Signing, history
<1>1. CASE Refuse(s) /\ UNCHANGED row
  <2>1. PlainMove(s)
    BY <1>0, <1>1, Parts, RefuseMoves
  <2> QED BY <1>0, <1>1, <2>1, Parts, TypedParts, OnlyCalls DEF server, history
<1>2. CASE call[s].user \in active /\ Mint(s, call[s].user, row)
  <2>1. call[s].user \in Maybe(Users) /\ row \in [Ids -> RowType]
    BY Parts, TypedParts, CallFields
  <2>2. PICK k \in Ids :
           /\ row[k] = Unused /\ Minted(s, k)
           /\ row' = Kept([row EXCEPT ![k] = [user |-> call[s].user, state |-> "live"]],
                          HeldBy(jar, call'))
           /\ row' \in [Ids -> RowType]
    BY <1>0, <1>2, <2>1, Parts, MintFields
  <2>3. UNCHANGED <<jar, lost>>
    BY <1>0 DEF device, history
  <2>4. Tokens'
    BY <1>0, <2>1, <2>2, <2>3, Parts, SignInTokens
  <2>5. StreamsKept
    BY <1>0, Parts, StreamsStay DEF stream
  <2>6. Sharing'
    BY <1>0, <2>2, <2>5, Parts, PlainSharing DEF Minted, Signing, StreamsKept
  <2>7. Typed'
    BY <1>0, <2>2, Parts, TypedParts, TypedFrom DEF Minted, device, stream, history
  <2> QED BY <1>0, <2>4, <2>5, <2>6, <2>7 DEF IInv, Sharing, StreamsKept, Away
<1> QED BY <1>1, <1>2 DEF ServeSignIn

(* A sign in or a log out ends: the slot is free, the cookie may be the    *)
(* answer's or gone.                                                       *)
LEMMA EndKeeps ==
  ASSUME IInv, NEW s \in Slots, call[s].kind \notin {"refresh", "save"},
         call' = [call EXCEPT ![s] = NoCall],
         jar' \in {None, jar} \/ (jar' = call[s].got /\ call[s].got # None),
         token' \in [user: Maybe(Users), good: BOOLEAN], user' \in Maybe(Users),
         scope' \in BOOLEAN, out' \in BOOLEAN, Away',
         row' = Kept(row, HeldBy(jar', call')),
         UNCHANGED <<active, isSaving, pendingRememberScope, stream, lost>>
  PROVE  IInv'
<1>1. PlainMove(s) /\ call'[s].got = None
  BY Parts, TypedParts, PutNoCall, Fixed
<1>2. row' \in [Ids -> RowType]
  BY Parts, TypedParts, KeptRows
<1>3. jar' \in Maybe(Ids)
  BY Parts, TypedParts, CallFields DEF Maybe
<1>4. Typed'
  BY <1>1, <1>2, <1>3, Parts, TypedParts, TypedFrom DEF PlainMove, stream
<1>5. StreamsKept
  BY Parts, StreamsStay DEF stream
<1>6. Sharing'
  BY <1>1, <1>5, Parts, PlainSharing DEF PlainMove, Plainly, StreamsKept
<1>7. CookieMoves
  BY <1>1 DEF CookieMoves
<1>8. Tokens'
  BY <1>1, <1>7, Parts, PlainCalm, Quiet
<1> QED BY <1>4, <1>5, <1>6, <1>8 DEF IInv, Sharing, StreamsKept

LEMMA SignedInKeeps ==
  ASSUME IInv, NEW s \in Slots, SignedIn(s)
  PROVE  IInv'
<1>1. /\ call[s].kind \notin {"refresh", "save"} /\ ~out /\ out' = out
      /\ UNCHANGED <<active, isSaving, pendingRememberScope, stream, lost>>
  BY Present DEF SignedIn, Signing, history
<1>2. /\ call[s].user \in Maybe(Users) /\ scope \in BOOLEAN /\ out \in BOOLEAN
  BY Parts, TypedParts, CallFields
<1>3. /\ token' \in [user: Maybe(Users), good: BOOLEAN] /\ user' \in Maybe(Users)
      /\ scope' \in BOOLEAN
  BY <1>2 DEF SignedIn
<1>4. Away'
  BY <1>1 DEF Away
<1> QED BY <1>1, <1>2, <1>3, <1>4, EndKeeps DEF SignedIn

LEMMA SignInFailsKeeps ==
  ASSUME IInv, NEW s \in Slots, SignInFails(s)
  PROVE  IInv'
<1>1. /\ call[s].kind \notin {"refresh", "save"} /\ ~out /\ out' = out /\ jar' = jar
      /\ scope' = scope /\ token' = token /\ user' = user
      /\ UNCHANGED <<active, isSaving, pendingRememberScope, stream, lost>>
  BY Present DEF SignInFails, Signing, device, history
<1>2. Away'
  BY <1>1 DEF Away
<1> QED BY <1>1, <1>2, Parts, TypedParts, EndKeeps DEF SignInFails

LEMMA ServeLogoutKeeps ==
  ASSUME IInv, NEW s \in Slots, ServeLogout(s)
  PROVE  IInv'
<1> DEFINE k == call[s].sent
           rows == IF k # None /\ row[k].state = "live"
                     THEN [row EXCEPT ![k].state = "revoked"] ELSE row
<1>0. /\ ~out /\ ~out' /\ row \in [Ids -> RowType] /\ k \in Maybe(Ids)
      /\ row' = Kept(rows, HeldBy(jar, call'))
      /\ UNCHANGED <<active, device, token, user, isSaving, pendingRememberScope, stream, history>>
  BY Present, Parts, TypedParts, CallFields DEF ServeLogout, history
<1>1. rows \in [Ids -> RowType] /\ \A j \in Ids : rows[j].state \in {row[j].state, "revoked"}
  <2> DEFINE was == [row[k] EXCEPT !.state = "revoked"]
             revoked == [row EXCEPT ![k] = was]
  <2>1. CASE k # None /\ row[k].state = "live"
    <3>1. k \in Ids /\ row[k] \in RowType
      BY <1>0, <2>1 DEF Maybe
    <3>2. was \in RowType /\ was.state = "revoked"
      BY <3>1 DEF RowType
    <3>3. rows = revoked
      BY <1>0, <2>1, <3>1
    <3> HIDE DEF was
    <3>4. revoked \in [Ids -> RowType]
      BY <1>0, <3>1, <3>2
    <3>5. \A j \in Ids : revoked[j] = IF j = k THEN was ELSE row[j]
      BY <1>0, <3>1
    <3> HIDE DEF revoked
    <3>6. \A j \in Ids : revoked[j].state \in {row[j].state, "revoked"}
      BY <3>2, <3>5
    <3> QED BY <3>3, <3>4, <3>6
  <2>2. CASE ~(k # None /\ row[k].state = "live")
    BY <1>0, <2>2
  <2> QED BY <2>1, <2>2
<1> HIDE DEF rows
<1>2. PlainMove(s)
  BY Parts, ServeLogoutMoves
<1>3. row' \in [Ids -> RowType]
  BY <1>0, <1>1, KeptRows
<1>4. Typed'
  BY <1>0, <1>2, <1>3, Parts, TypedParts, TypedFrom DEF PlainMove, device, stream, history
<1>5. StreamsKept
  BY <1>0, Parts, StreamsStay DEF stream
<1>6. Sharing'
  BY <1>2, <1>5, Parts, PlainSharing DEF PlainMove, Plainly, StreamsKept
<1>7. Tokens'
  BY <1>0, <1>1, <1>2, Parts, PlainCalm, Carried DEF CookieMoves, device, history
<1> QED BY <1>0, <1>4, <1>5, <1>6, <1>7 DEF IInv, Sharing, StreamsKept, Away

LEMMA LoggedOutKeeps ==
  ASSUME IInv, NEW s \in Slots, LoggedOut(s)
  PROVE  IInv'
<1>1. /\ call[s].kind \notin {"refresh", "save"}
      /\ UNCHANGED <<active, scope, isSaving, pendingRememberScope, stream, lost>>
  BY DEF LoggedOut
<1>2. /\ jar' \in {None, jar} /\ call' = [call EXCEPT ![s] = NoCall]
      /\ token' = NoToken /\ user' = None /\ row' = Kept(row, HeldBy(jar', call'))
  BY DEF LoggedOut
<1>3. out' \in BOOLEAN
  BY DEF LoggedOut
<1>4. ASSUME out'
      PROVE  /\ jar' = None /\ \A x \in Slots : Idle(x)'
             /\ \A c \in Streams : conn'[c].step \in {"none", "open"}
  <2>1. /\ call[s].step = "ok" /\ \A x \in Slots \ {s} : Idle(x)
        /\ \A c \in Streams : conn[c].step \in {"none", "open"}
    BY <1>4 DEF LoggedOut
  <2>2. jar' = None
    BY <2>1 DEF LoggedOut
  <2>3. \A x \in Slots : Idle(x)'
    BY <1>2, <2>1, Parts, TypedParts, Fixed DEF Idle
  <2> QED BY <1>1, <2>1, <2>2, <2>3 DEF stream
<1>5. Away'
  BY <1>2, <1>4 DEF Away
<1> QED BY <1>1, <1>2, <1>3, <1>5, Parts, TypedParts, Fixed, EndKeeps DEF Maybe

LEMMA SaveSettingsKeeps == ASSUME IInv, SaveSettings PROVE IInv'
<1>1. PICK remember \in BOOLEAN, s \in Slots :
       /\ scope' = remember
       /\ Idle(s) /\ isSaving' = s
       /\ StartReissue(s, [NoCall EXCEPT !.kind = "save", !.remember = remember],
                       remember)
  BY DEF SaveSettings
<1> DEFINE h == [NoCall EXCEPT !.kind = "save", !.remember = remember]
<1>2. /\ h \in CallType /\ h.kind = "save" /\ h.sent = None /\ h.got = None
      /\ h.retried = FALSE
  BY Fixed, CallFields DEF CallType, Kinds, NoCall
<1>3. AwaitRefresh(s, h, remember)
  BY <1>1 DEF StartReissue
<1> HIDE DEF h
<1>4. /\ ~out /\ call[s].kind \notin {"refresh", "save"} /\ h.kind \in Waiters
      /\ scope' \in BOOLEAN /\ isSaving' \in Maybe(Slots)
  BY <1>1, <1>2, Present DEF SaveSettings, SettingsForm, ScreenShown, Idle, Waiters, Maybe
<1>5. UNCHANGED <<server, jar, token, user, stream, history>>
  BY DEF SaveSettings
<1>6. StreamsKept
  BY <1>5, Parts, StreamsStay DEF stream
<1>7. UNCHANGED <<server, jar, token, user, enabled, timer, history>>
  BY <1>5 DEF stream
<1> QED BY <1>2, <1>3, <1>4, <1>6, <1>7, NowAwaits

LEMMA LeaveSettingsKeeps == ASSUME IInv, LeaveSettings PROVE IInv'
<1>0. /\ isSaving' = None
      /\ UNCHANGED <<server, device, token, user, pendingRememberScope, call, stream, history>>
  BY DEF LeaveSettings
<1>1. StreamsKept
  BY <1>0, Parts, StreamsStay DEF stream
<1>2. Typed'
  BY <1>0, Parts, TypedParts, TypedFrom DEF server, device, stream, history, Maybe
<1>3. Sharing'
  BY <1>0, <1>1, Parts, SharingStays DEF StreamsKept
<1>4. Tokens'
  BY <1>0, Parts, StayCalm, Quiet DEF CookieMoves, server, device, history
<1>5. Away'
  BY <1>0, Parts DEF Away, device, stream, history, Idle, Refreshes, Under
<1> QED BY <1>1, <1>2, <1>3, <1>4, <1>5 DEF IInv, Sharing, StreamsKept

(* Who connects has a token, and is not logged out.                        *)
LEMMA ConnectsPresent == ASSUME IInv, Connect PROVE ~out
<1>1. token # NoToken
  BY Fixed DEF Connect
<1> QED BY <1>1, Present

LEMMA AwayStreams ==
  ASSUME IInv, out
  PROVE  \A c \in Streams : conn[c].step \in {"none", "open", "closing", "orphan"}
BY DEF IInv, Away

LEMMA EnabledEffectKeeps == ASSUME IInv, EnabledEffect PROVE IInv'
<1>0. UNCHANGED <<row, device, token, user, isSaving, pendingRememberScope, call, history>>
      /\ active' = active /\ enabled # (user # None)
      /\ enabled' = (user # None)
  BY DEF EnabledEffect, server
<1>1. active' \subseteq Users /\ enabled' \in BOOLEAN /\ timer \in BOOLEAN
  BY <1>0, Parts, TypedParts
<1>2. CASE enabled' /\ Connect /\ UNCHANGED timer
  BY <1>0, <1>1, <1>2, Parts, Connected, ConnectsPresent, OnlyStreams
<1>3. CASE enabled' /\ UNCHANGED <<ref, conn>> /\ UNCHANGED timer
  <2>1. user # None /\ ~enabled
    BY <1>0, <1>1, <1>3, Parts, TypedParts
  <2>2. RefNames' /\ ConnsCalm
    BY <1>3, <2>1, Parts DEF RefNames, Live, ConnsCalm
  <2>3. StreamsKept
    BY <1>3, <2>2, Parts, TypedParts DEF StreamsKept
  <2>4. ~out
    BY <2>1, Present
  <2> QED BY <1>0, <1>1, <1>3, <2>3, <2>4, OnlyStreams
<1>4. CASE Disconnect
  <2>1. StreamsKept
    BY <1>4, Parts, Disconnected
  <2>2. timer' \in BOOLEAN
    BY <1>1, <1>4 DEF Disconnect
  <2>3. out => \A c \in Streams : conn'[c].step \in {"none", "open", "closing", "orphan"}
    BY <1>4, AwayStreams, Fixed DEF Disconnect
  <2> QED BY <1>0, <1>1, <2>1, <2>2, <2>3, OnlyStreams
<1> QED BY Zenon, <1>2, <1>3, <1>4 DEF EnabledEffect

LEMMA VisibleKeeps == ASSUME IInv, Visible PROVE IInv'
<1>0. /\ Connect /\ enabled' = enabled /\ enabled /\ timer' = timer /\ active' = active
      /\ UNCHANGED <<row, device, token, user, isSaving, pendingRememberScope, call, history>>
  BY DEF Visible, server
<1> QED BY <1>0, Parts, TypedParts, Connected, ConnectsPresent, OnlyStreams

LEMMA TimerFiresKeeps == ASSUME IInv, TimerFires PROVE IInv'
<1>0. /\ timer' = FALSE /\ enabled' = enabled /\ active' = active
      /\ UNCHANGED <<row, device, token, user, isSaving, pendingRememberScope, call, history>>
      /\ active \subseteq Users /\ enabled \in BOOLEAN
  BY Parts, TypedParts DEF TimerFires, server
<1>1. CASE TimerMay /\ Connect
  BY <1>0, <1>1, Parts, Connected, ConnectsPresent, OnlyStreams DEF TimerMay
<1>2. CASE UNCHANGED <<ref, conn>>
  <2>1. StreamsKept
    BY <1>0, <1>2, Parts, StreamsStay
  <2>2. out => \A c \in Streams : conn'[c].step \in {"none", "open", "closing", "orphan"}
    BY <1>2, AwayStreams
  <2> QED BY <1>0, <2>1, <2>2, OnlyStreams
<1> QED BY Zenon, <1>1, <1>2 DEF TimerFires

LEMMA StreamOpensKeeps ==
  ASSUME IInv, NEW c \in Streams, StreamOpens(c)
  PROVE  IInv'
<1>0. /\ conn[c].step = "asked" /\ enabled' = enabled /\ timer' = timer /\ active' = active
      /\ UNCHANGED <<row, device, token, user, isSaving, pendingRememberScope, call, history>>
  BY DEF StreamOpens, server
<1>1. ~out
  BY <1>0, Present
<1> QED BY <1>0, <1>1, Parts, TypedParts, Opens, OnlyStreams

(* A stream ends; all others stay or are orphans.                          *)
LEMMA GoneSteps ==
  ASSUME IInv, NEW c \in Streams, Gone(c)
  PROVE  \A x \in Streams : conn'[x].step \in {"none", "orphan", conn[x].step}
<1> DEFINE rest == [conn EXCEPT ![c] = NoConn]
           o == [NoConn EXCEPT !.step = "orphan"]
<1>1. o.step = "orphan"
  BY DEF NoConn
<1>2. conn \in [Streams -> GoodConns]
  BY Parts, TypedParts
<1>3. \A x \in Streams : rest[x].step \in {"none", conn[x].step}
  BY <1>2, Fixed
<1> HIDE DEF rest, o
<1>4. \A x \in Streams : conn'[x] = o \/ conn'[x] = rest[x]
  BY DEF Gone, ClearRef, Orphaned, rest, o
<1> QED BY <1>1, <1>3, <1>4

LEMMA StreamRefusedKeeps ==
  ASSUME IInv, NEW c \in Streams, StreamRefused(c)
  PROVE  IInv'
<1>0. /\ conn[c].step = "asked" /\ enabled' = enabled /\ timer' = timer /\ active' = active
      /\ UNCHANGED <<row, device, token, user, isSaving, history>>
  BY DEF StreamRefused, server, history
<1>1. ~out /\ Live(c)
  BY <1>0, Present, Parts, TypedParts, ConnFields DEF Live, ConnFits
<1>2. CASE StreamAwaitsRefresh(c) /\ UNCHANGED ref
  <2> DEFINE w(r) == [NoConn EXCEPT !.step = "waiting", !.on = r]
  <2>1. ASSUME NEW r \in Slots, conn' = [conn EXCEPT ![c] = w(r)]
        PROVE  /\ conn' \in [Streams -> GoodConns] /\ RefNames' /\ ref' \in Maybe(Streams)
               /\ conn'[c].on = r /\ \A x \in Streams \ {c} : conn'[x] = conn[x]
    <3> DEFINE d == w(r)
    <3>1. /\ d \in ConnType /\ d.step = "waiting" /\ d.event = "none" /\ d.on = r
      BY Fixed, ConnFields DEF ConnType, NoConn, Maybe
    <3>2. conn' = [conn EXCEPT ![c] = d]
      BY <2>1
    <3> HIDE DEF d
    <3>3. d \in GoodConns
      BY <3>1 DEF GoodConns, ConnFits
    <3>4. /\ conn' \in [Streams -> GoodConns] /\ conn'[c] = d
          /\ \A x \in Streams \ {c} : conn'[x] = conn[x]
      BY <3>2, <3>3, Parts, TypedParts
    <3>5. RefNames'
      BY <1>0, <1>1, <1>2, <3>4, Parts DEF RefNames, Live
    <3> QED BY <1>2, <3>1, <3>4, <3>5, Parts, TypedParts
  <2>2. ASSUME NEW r \in Refreshes, conn' = [conn EXCEPT ![c] = w(r)],
               UNCHANGED <<call, pendingRememberScope>>
        PROVE  IInv'
    <3>0. r \in Slots
      BY DEF Refreshes, Under
    <3>1. /\ conn' \in [Streams -> GoodConns] /\ RefNames' /\ ref' \in Maybe(Streams)
          /\ conn'[c].on = r /\ \A x \in Streams \ {c} : conn'[x] = conn[x]
      BY <2>1, <2>2, <3>0
    <3>2. Sharing'
      <4>1. Refreshes' = Refreshes /\ Under("save")' = Under("save")
        BY <2>2 DEF Refreshes, Under
      <4> QED BY <2>2, <3>1, <4>1, Parts DEF Sharing, NoneStranded, ScopeReissued
    <3>3. Tokens'
      BY <1>0, <2>2, Parts, StayCalm, Quiet DEF CookieMoves, device, history
    <3>4. Typed'
      BY <1>0, <2>2, <3>1, Parts, TypedParts, TypedFrom DEF device, history
    <3> QED BY <1>0, <1>1, <3>1, <3>2, <3>3, <3>4 DEF IInv, Sharing, Away, history
  <2>3. ASSUME Refreshes = {}, NEW r \in Slots, Idle(r), conn' = [conn EXCEPT ![c] = w(r)],
               call' = [call EXCEPT ![r] = NewRefresh(RefreshScope(scope))],
               pendingRememberScope' = None
        PROVE  IInv'
    <3>1. /\ conn' \in [Streams -> GoodConns] /\ RefNames' /\ ref' \in Maybe(Streams)
          /\ conn'[c].on = r /\ \A x \in Streams \ {c} : conn'[x] = conn[x]
      BY <2>1, <2>3
    <3> DEFINE n == NewRefresh(RefreshScope(scope))
    <3>2. RefreshScope(scope) \in BOOLEAN
      BY Parts, TypedParts DEF RefreshScope
    <3>3. /\ n \in GoodCalls /\ n.kind = "refresh" /\ n.step = "asked" /\ n.sent = jar
          /\ n.got = None
      <4>1. PICK m \in BOOLEAN : m = RefreshScope(scope)
        BY <3>2
      <4> DEFINE e == NewRefresh(m)
      <4>2. /\ e \in GoodCalls /\ e.kind = "refresh" /\ e.step = "asked" /\ e.sent = jar
            /\ e.got = None
        BY Parts, NewRefreshPlain
      <4> QED BY <4>1, <4>2
    <3>4. call' = [call EXCEPT ![r] = n]
      BY <2>3
    <3> HIDE DEF n
    <3>5. /\ call' \in [Slots -> GoodCalls] /\ call'[r] = n
          /\ \A x \in Slots \ {r} : call'[x] = call[x]
      BY <3>3, <3>4, Parts, TypedParts
    <3>6. Starts(r)
      BY <2>3, <3>3, <3>5 DEF Starts
    <3>7. NoneStranded' /\ ScopeReissued'
      <4>1. Refreshes' = {r}
        BY <2>3, <3>3, <3>5 DEF Refreshes, Under
      <4>2. \A x \in Slots : call'[x].step # "waiting"
        BY <2>3, <3>3, <3>5, Parts DEF NoneStranded
      <4>3. \A x \in Streams : conn'[x].step = "waiting" => x = c
        BY <2>3, <3>1, Parts DEF NoneStranded
      <4>4. Under("save")' = {}
        BY <3>5, <4>2, CallFields DEF Under, CallFits
      <4> QED BY <3>1, <4>1, <4>2, <4>3, <4>4 DEF NoneStranded, ScopeReissued
    <3>8. Tokens'
      BY <1>0, <3>5, <3>6, Parts, StartCalm, Quiet DEF CookieMoves, device, history
    <3>9. Typed'
      BY <1>0, <2>3, <3>1, <3>5, Parts, TypedParts, TypedFrom DEF device, history
    <3> QED BY <1>0, <1>1, <3>1, <3>7, <3>8, <3>9 DEF IInv, Away, history
  <2> QED BY Zenon, <1>2, <2>2, <2>3 DEF StreamAwaitsRefresh, Shared
<1>3. CASE Gone(c) /\ UNCHANGED <<call, pendingRememberScope>>
  <2>1. StreamsKept
    BY <1>0, <1>3, Parts, Gones
  <2> QED BY <1>0, <1>1, <1>3, <2>1, Parts, TypedParts, OnlyStreams
<1> QED BY Zenon, <1>2, <1>3 DEF StreamRefused

LEMMA StreamEndsKeeps ==
  ASSUME IInv, NEW c \in Streams, StreamEnds(c)
  PROVE  IInv'
<1>0. /\ enabled' = enabled /\ active' = active /\ Gone(c) /\ timer' \in {timer, TRUE}
      /\ UNCHANGED <<row, device, token, user, isSaving, pendingRememberScope, call, history>>
  BY DEF StreamEnds, scheduleReconnect, server, history
<1>1. StreamsKept
  BY <1>0, Parts, Gones
<1>2. out => \A x \in Streams : conn'[x].step \in {"none", "open", "closing", "orphan"}
  BY <1>0, GoneSteps, AwayStreams
<1> QED BY <1>0, <1>1, <1>2, Parts, TypedParts, OnlyStreams

LEMMA NotifyKeeps == ASSUME IInv, Notify \/ Deactivate PROVE IInv'
<1>0. /\ UNCHANGED <<row, device, token, user, isSaving, pendingRememberScope, call, history>>
      /\ enabled' = enabled /\ ref' = ref /\ timer' = timer /\ active' \subseteq active
  BY DEF Notify, Deactivate, server
<1>1. PICK u \in Users, event \in {"update", "role", "force"}, step \in {"open", "closing"} :
        Broadcast(u, event, step)
  <2>1. CASE Notify
    BY <2>1 DEF Notify
  <2>2. CASE Deactivate
    BY <2>2, Parts, TypedParts DEF Deactivate
  <2> QED BY <2>1, <2>2
<1>2. /\ StreamsKept
      /\ \A c \in Streams : \/ conn'[c] = conn[c]
                            \/ conn[c].step = "open" /\ conn'[c].step = step
  BY <1>0, <1>1, Parts, Broadcasts
<1>3. out => \A x \in Streams : conn'[x].step \in {"none", "open", "closing", "orphan"}
  BY <1>2, AwayStreams
<1> QED BY <1>0, <1>2, <1>3, Parts, TypedParts, OnlyStreams

LEMMA HandleEventKeeps ==
  ASSUME IInv, NEW c \in Streams, HandleEvent(c)
  PROVE  IInv'
<1> DEFINE passed == Dropped(c) \/ (conn[c].event = "update" /\ IsRefreshing)
<1>0. conn[c].event # "none"
  BY DEF HandleEvent
<1>1. ~passed => ~out
  <2>1. conn[c].user # None
    BY <1>0, Parts, TypedParts, ConnFields DEF ConnFits
  <2> QED BY <2>1, Present DEF Dropped
<1> HIDE DEF passed
<1>2. CASE Reload(jar)
  BY <1>2, Parts, TypedParts, Reloaded
<1>3. CASE /\ conn' = [conn EXCEPT ![c].event = "none"]
           /\ UNCHANGED <<server, device, token, user, isSaving, enabled, ref, timer,
                          history>>
           /\ \/ passed /\ UNCHANGED <<call, pendingRememberScope>>
              \/ /\ ~passed
                 /\ \E s \in Slots : Idle(s) /\ call' = [call EXCEPT ![s] = Asked("update")]
                 /\ UNCHANGED pendingRememberScope
              \/ /\ ~passed
                 /\ \E s \in Slots :
                      Idle(s) /\ AwaitRefresh(s, [NoCall EXCEPT !.kind = "event"], scope)
  <2>1. StreamsKept /\ \A x \in Streams : conn'[x].step = conn[x].step
    BY <1>3, Parts, EventTaken
  <2>2. CASE UNCHANGED <<call, pendingRememberScope>>
    <3>1. out => \A x \in Streams : conn'[x].step \in {"none", "open", "closing", "orphan"}
      BY <2>1, AwayStreams
    <3>2. UNCHANGED <<row, device, token, user, isSaving, pendingRememberScope, call, history>>
      BY <1>3, <2>2 DEF server
    <3>3. active' \subseteq Users /\ enabled' \in BOOLEAN /\ timer' \in BOOLEAN
      BY <1>3, Parts, TypedParts DEF server
    <3> QED BY <2>1, <3>1, <3>2, <3>3, OnlyStreams
  <2>3. ASSUME NEW s \in Slots, Idle(s), call' = [call EXCEPT ![s] = Asked("update")],
               ~passed, UNCHANGED pendingRememberScope
        PROVE  IInv'
    <3>1. PlainMove(s)
      BY <2>3, Parts, PutAsked DEF Requests
    <3>2. Typed'
      BY <1>3, <2>1, <2>3, <3>1, Parts, TypedParts, TypedFrom
         DEF PlainMove, StreamsKept, server, device, history
    <3>3. Sharing'
      BY <2>1, <3>1, Parts, PlainSharing DEF PlainMove, Plainly, StreamsKept
    <3>4. Tokens'
      BY <1>3, <3>1, Parts, PlainCalm, Quiet DEF CookieMoves, server, device, history
    <3> QED BY <1>1, <1>3, <2>1, <2>3, <3>2, <3>3, <3>4 DEF IInv, Sharing, StreamsKept, Away, history
  <2>4. ASSUME NEW s \in Slots, Idle(s), ~passed,
               AwaitRefresh(s, [NoCall EXCEPT !.kind = "event"], scope)
        PROVE  IInv'
    <3> DEFINE h == [NoCall EXCEPT !.kind = "event"]
    <3>1. h \in CallType /\ h.kind = "event" /\ h.sent = None /\ h.got = None
      BY Fixed, CallFields DEF CallType, Kinds, NoCall
    <3>2. PICK sc \in BOOLEAN : sc = scope
      BY Parts, TypedParts
    <3>3. AwaitRefresh(s, h, sc)
      BY <2>4, <3>2
    <3> HIDE DEF h
    <3>4. /\ ~out /\ call[s].kind \notin {"refresh", "save"} /\ h.kind \in Waiters
          /\ h.kind # "save"
      BY <1>1, <2>4, <3>1 DEF Idle, Waiters
    <3>5. /\ scope' \in BOOLEAN /\ isSaving' \in Maybe(Slots)
          /\ UNCHANGED <<server, jar, token, user, enabled, timer, history>>
      BY <1>3, Parts, TypedParts DEF device
    <3> QED BY <2>1, <3>1, <3>3, <3>4, <3>5, NowAwaits
  <2> QED BY <1>3, <2>2, <2>3, <2>4
<1> QED BY Zenon, <1>2, <1>3 DEF HandleEvent, passed
-----------------------------------------------------------------------------
LEMMA Started == Init => IInv
<1> SUFFICES ASSUME Init
             PROVE  IInv
  OBVIOUS
<1>1. PICK s \in Slots : call = [[x \in Slots |-> NoCall] EXCEPT
                            ![s] = [NewRefresh(scope) EXCEPT !.boot = TRUE]]
  BY DEF Init
<1> DEFINE d == [NewRefresh(scope) EXCEPT !.boot = TRUE]
<1>2. jar \in Maybe(Ids) /\ row \in [Ids -> RowType] /\ scope = TRUE
  <2>1. CASE jar = None /\ row = [k \in Ids |-> Unused]
    BY <2>1, Fixed DEF Init, Maybe
  <2>2. ASSUME NEW k \in Ids, NEW u \in Users, jar = k,
               row = [[j \in Ids |-> Unused] EXCEPT ![k] = [user |-> u, state |-> "live"]]
        PROVE  jar \in Maybe(Ids) /\ row \in [Ids -> RowType]
    BY <2>2, Fixed DEF RowType, Maybe
  <2> QED BY <2>1, <2>2 DEF Init
<1>3. d \in CallType /\ d.kind = "refresh" /\ d.step = "asked" /\ d.sent = jar /\ d.got = None
  BY <1>2 DEF NewRefresh, NoCall, CallType, Maybe, Kinds
<1>4. call = [[x \in Slots |-> NoCall] EXCEPT ![s] = d]
  BY <1>1
<1> HIDE DEF d
<1>5. d \in GoodCalls
  BY <1>3 DEF GoodCalls, CallFits
<1>6. /\ call \in [Slots -> GoodCalls] /\ call[s] = d
      /\ \A x \in Slots \ {s} : call[x] = NoCall
  BY <1>4, <1>5, Fixed
<1>7. conn \in [Streams -> GoodConns] /\ \A c \in Streams : conn[c] = NoConn
  BY Fixed DEF Init
<1>8. Typed
  <2>1. call \in [Slots -> CallType] /\ conn \in [Streams -> ConnType]
    BY <1>6, <1>7 DEF GoodCalls, GoodConns
  <2>2. /\ active \subseteq Users /\ token \in [user: Maybe(Users), good: BOOLEAN]
        /\ user \in Maybe(Users) /\ isSaving \in Maybe(Slots) /\ ref \in Maybe(Streams)
        /\ pendingRememberScope \in BOOLEAN \cup {None} /\ enabled \in BOOLEAN
        /\ timer \in BOOLEAN /\ lost \in BOOLEAN /\ out \in BOOLEAN
    BY Fixed DEF Init, Maybe
  <2> QED BY <1>2, <1>6, <1>7, <2>1, <2>2 DEF Typed, TypeOK
<1>9. Refreshes = {s} /\ Under("save") = {} /\ \A x \in Slots : call[x].step # "waiting"
  BY <1>3, <1>6, Fixed DEF Refreshes, Under
<1>10. NoneStranded /\ ScopeReissued /\ RefNames
  BY <1>7, <1>9, Fixed DEF NoneStranded, ScopeReissued, RefNames, Live
<1>11. jar # None => row[jar].state = "live"
  BY Fixed DEF Init
<1>12. \A x \in Slots : call[x].got = None /\ call[x].sent \in {None, jar}
  BY <1>3, <1>6, Fixed
<1>13. Exist
  <2>1. ASSUME NEW k \in Ids, k \in HeldBy(jar, call) PROVE row[k].state # "unused"
    BY <1>11, <1>12, <2>1, Fixed DEF HeldBy
  <2> QED BY <2>1 DEF Exist
<1>14. Tokens
  BY <1>11, <1>12, <1>13 DEF Tokens, Newborn, CookieFit, NoSelfReplay, Refreshes, Under
<1>15. Away
  BY DEF Init, Away
<1> QED BY <1>8, <1>10, <1>14, <1>15 DEF IInv

LEMMA Stepped == IInv /\ [Next]_vars => IInv'
<1> SUFFICES ASSUME IInv, [Next]_vars
             PROVE  IInv'
  OBVIOUS
<1>1. CASE Next
  <2>1. CASE LoadPage \/ SendRequest \/ RefreshUser \/ Expire
    BY <2>1, LoadPageKeeps, AskingKeeps, ExpireKeeps
  <2>2. CASE SubmitLogin \/ SubmitPin \/ VerifyPassword \/ Logout
    BY <2>2, SubmitKeeps, LogoutKeeps
  <2>3. CASE SaveSettings \/ LeaveSettings
    BY <2>3, SaveSettingsKeeps, LeaveSettingsKeeps
  <2>4. CASE EnabledEffect \/ Visible \/ TimerFires \/ Notify \/ Deactivate
    BY <2>4, EnabledEffectKeeps, VisibleKeeps, TimerFiresKeeps, NotifyKeeps
  <2>5. ASSUME NEW s \in Slots,
               \/ ServeRequest(s) \/ RequestAnswered(s) \/ RequestFails(s)
               \/ ServeRefresh(s) \/ RefreshAnswered(s) \/ RefreshFails(s)
               \/ ServeSignIn(s) \/ SignedIn(s) \/ SignInFails(s)
               \/ ServeLogout(s) \/ LoggedOut(s)
        PROVE  IInv'
    BY <2>5, ServeRequestKeeps, RequestAnsweredKeeps, RequestFailsKeeps, ServeRefreshKeeps,
       RefreshEndsKeeps, ServeSignInKeeps, SignedInKeeps, SignInFailsKeeps,
       ServeLogoutKeeps, LoggedOutKeeps
  <2>6. ASSUME NEW c \in Streams,
               StreamOpens(c) \/ StreamRefused(c) \/ StreamEnds(c) \/ HandleEvent(c)
        PROVE  IInv'
    BY <2>6, StreamOpensKeeps, StreamRefusedKeeps, StreamEndsKeeps, HandleEventKeeps
  <2> QED BY Zenon, <1>1, <2>1, <2>2, <2>3, <2>4, <2>5, <2>6 DEF Next
<1>2. CASE UNCHANGED vars
  <2>1. UNCHANGED <<active, row, jar, scope, token, user, isSaving, pendingRememberScope,
                    call, enabled, ref, conn, timer, lost, out>>
    BY <1>2 DEF vars, server, device, stream, history
  <2>2. StreamsKept
    BY <2>1, Parts, StreamsStay
  <2>3. /\ active' \subseteq Users /\ enabled' \in BOOLEAN /\ timer' \in BOOLEAN
        /\ out => \A c \in Streams : conn'[c].step \in {"none", "open", "closing", "orphan"}
    BY <2>1, Parts, TypedParts, AwayStreams
  <2> QED BY <2>1, <2>2, <2>3, OnlyStreams DEF device, history
<1> QED BY <1>1, <1>2

LEMMA Inductive == Spec => []IInv
BY Started, Stepped, PTL DEF Spec

(* The variables of the tab and of the server hold what they may hold.     *)
THEOREM TypeCorrect == Spec => []TypeOK
<1>1. IInv => TypeOK
  BY DEF IInv, Typed
<1> QED BY <1>1, Inductive, PTL

(* A tab never presents a refresh token it has itself had rotated, unless  *)
(* the answer that brought the successor got lost: so the server's reuse   *)
(* detection never takes the tab for a thief. Whatever requests, streams   *)
(* and handlers ask for a refresh share one, and its answer sets the       *)
(* cookie before another is asked for (refreshSessionTokens).              *)
THEOREM TokensAreNotReplayed == Spec => []NoSelfReplay
<1>1. IInv => NoSelfReplay
  BY DEF IInv, Tokens
<1> QED BY <1>1, Inductive, PTL

(* "one tab opens one stream" (events.go), however many the tab may hold:  *)
(* whoever connects looks at abortControllerRef first, in the same step,   *)
(* and only a stream that ends, or one given up while it waited, clears it.*)
THEOREM TabHoldsOneStream == Spec => []OneStream
<1>1. ASSUME RefNames
      PROVE  OneStream
  <2> DEFINE S == {c \in Streams : /\ conn[c].step \notin {"none", "orphan"}
                                   /\ ~conn[c].aborted}
  <2>1. S \subseteq {ref}
    BY <1>1 DEF RefNames, Live
  <2>2. S = {} \/ S = {ref}
    BY <2>1
  <2>3. Cardinality({}) = 0 /\ Cardinality({ref}) = 1
    BY FS_EmptySet, FS_Singleton
  <2>4. Cardinality(S) <= 1
    <3>1. CASE S = {}
      <4>1. Cardinality(S) = 0
        BY <2>3, <3>1
      <4> QED BY <4>1
    <3>2. CASE S = {ref}
      <4>1. Cardinality(S) = 1
        BY <2>3, <3>2
      <4> QED BY <4>1
    <3> QED BY <2>2, <3>1, <3>2
  <2> QED BY <2>4 DEF OneStream
<1>2. IInv => OneStream
  BY <1>1 DEF IInv
<1> QED BY <1>2, Inductive, PTL

(* The refresh a saved preference waits for, once it has let another end,  *)
(* carries the scope that was chosen (reissueSessionCookie), unless two    *)
(* savings overlap.                                                        *)
THEOREM ChosenScopeIsSent == Spec => []ScopeReissued
<1>1. IInv => ScopeReissued
  BY DEF IInv
<1> QED BY <1>1, Inductive, PTL

(* After a log out with nothing else under way no user, token, cookie or   *)
(* stream comes back without a new sign in, whatever timers, listeners and *)
(* page loads follow (logout, auth-context.tsx; useUserEvents.ts).         *)
THEOREM LoggedOutStays == Spec => []LogoutIsFinal
<1>1. ASSUME IInv
      PROVE  LogoutIsFinal
  <2>1. ASSUME out, NEW c \in Streams, conn[c].step \notin {"none", "orphan"}
        PROVE  enabled
    <3>1. conn[c].step \in {"open", "closing"}
      BY <1>1, <2>1, AwayStreams
    <3>2. Live(c)
      BY <1>1, <3>1, Parts, TypedParts, ConnFields DEF Live, ConnFits
    <3> QED BY <1>1, <3>2, Parts DEF RefNames
  <2> QED BY <1>1, <2>1 DEF IInv, Away, LogoutIsFinal
<1>2. IInv => LogoutIsFinal
  BY <1>1
<1> QED BY <1>2, Inductive, PTL

(* Whoever waits for the shared refresh waits for one that is under way,   *)
(* and there is never a second one: no caller's promise is left pending    *)
(* when the refresh settles (refreshPromise, auth-session.ts).             *)
THEOREM RefreshIsShared == Spec => []NoneStranded
<1>1. IInv => NoneStranded
  BY DEF IInv
<1> QED BY <1>1, Inductive, PTL
-----------------------------------------------------------------------------
(* Quick Access. No account stands on the list twice, and each that does   *)
(* stands behind those that came since its last request only.              *)
Ranked(list, s) == \A i, j \in DOMAIN list : i < j => list[i] \in s[list[j]]
ListOK(list) == list \in Seq(Accounts) /\ IsInjective(list)

(* Of a list without repetitions filter takes out one place.               *)
LEMMA KeptUpTo ==
  ASSUME NEW list, ListOK(list), NEW u, NEW i \in 0..Len(list)
  PROVE  KeptTo(list, u, i) = IF \E p \in 1..i : list[p] = u THEN i - 1 ELSE i
<1>1. i \in Nat /\ IsFiniteSet(1..i) /\ Cardinality(1..i) = i
  BY FS_Interval
<1>2. CASE \E p \in 1..i : list[p] = u
  <2>1. PICK p \in 1..i : list[p] = u
    BY <1>2
  <2>2. \A j \in 1..i : list[j] = u => j = p
    BY <2>1 DEF ListOK, IsInjective
  <2>3. {j \in 1..i : list[j] # u} = (1..i) \ {p}
    BY <2>1, <2>2
  <2>4. Cardinality((1..i) \ {p}) = i - 1
    BY <1>1, FS_RemoveElement
  <2> QED BY <1>2, <2>3, <2>4 DEF KeptTo
<1>3. CASE ~ \E p \in 1..i : list[p] = u
  <2>1. {j \in 1..i : list[j] # u} = 1..i
    BY <1>3
  <2> QED BY <1>1, <1>3, <2>1 DEF KeptTo
<1> QED BY <1>2, <1>3

LEMMA Unlisted ==
  ASSUME NEW list, ListOK(list), NEW u, u \notin Range(list)
  PROVE  removeAccount(list, u) = list
<1>1. \A i \in 1..Len(list) : list[i] # u
  BY DEF ListOK, Range
<1>2. \A i \in 0..Len(list) : KeptTo(list, u, i) = i
  BY <1>1, KeptUpTo
<1>3. KeptTo(list, u, Len(list)) = Len(list) /\ DOMAIN list = 1..Len(list)
  BY <1>2 DEF ListOK
<1>4. ASSUME NEW n \in 1..Len(list)
      PROVE  Nth(list, u, n) = n
  BY <1>1, <1>2, <1>3 DEF Nth
<1>5. removeAccount(list, u) = [n \in 1..Len(list) |-> list[n]]
  BY <1>3, <1>4 DEF removeAccount
<1> QED BY <1>5 DEF ListOK

LEMMA TakenOut ==
  ASSUME NEW list, ListOK(list), NEW u, NEW p \in 1..Len(list), list[p] = u
  PROVE  removeAccount(list, u) =
           [n \in 1..(Len(list) - 1) |-> IF n < p THEN list[n] ELSE list[n + 1]]
<1>0. Len(list) \in Nat /\ DOMAIN list = 1..Len(list) /\ p \in Nat
  BY DEF ListOK
<1>1. \A i \in 1..Len(list) : list[i] = u => i = p
  BY <1>0 DEF ListOK, IsInjective
<1>2. \A i \in 0..Len(list) : KeptTo(list, u, i) = IF i < p THEN i ELSE i - 1
  <2> TAKE i \in 0..Len(list)
  <2>1. (\E q \in 1..i : list[q] = u) <=> p <= i
    BY <1>0, <1>1
  <2> QED BY <1>0, <2>1, KeptUpTo
<1>3. KeptTo(list, u, Len(list)) = Len(list) - 1
  BY <1>0, <1>2
<1>4. ASSUME NEW n \in 1..(Len(list) - 1)
      PROVE  Nth(list, u, n) = IF n < p THEN n ELSE n + 1
  <2> DEFINE place == IF n < p THEN n ELSE n + 1
  <2>1. place \in DOMAIN list /\ list[place] # u /\ KeptTo(list, u, place) = n
    BY <1>0, <1>1, <1>2
  <2>2. ASSUME NEW i \in DOMAIN list, list[i] # u, KeptTo(list, u, i) = n
        PROVE  i = place
    BY <1>0, <1>2, <2>2
  <2> HIDE DEF place
  <2>3. Nth(list, u, n) = place
    BY <2>1, <2>2 DEF Nth
  <2> QED BY <2>3 DEF place
<1>5. \A n \in 1..(Len(list) - 1) :
        list[Nth(list, u, n)] = IF n < p THEN list[n] ELSE list[n + 1]
  BY <1>4
<1> QED BY <1>3, <1>5 DEF removeAccount

LEMMA Removed ==
  ASSUME NEW list, ListOK(list), NEW u
  PROVE  LET r == removeAccount(list, u) IN
         /\ ListOK(r) /\ Range(r) = Range(list) \ {u}
         /\ Len(r) = IF u \in Range(list) THEN Len(list) - 1 ELSE Len(list)
         /\ \A s : Ranked(list, s) => Ranked(r, s)
<1>1. CASE u \notin Range(list)
  BY <1>1, Unlisted
<1>2. CASE u \in Range(list)
  <2>0. Len(list) \in Nat /\ DOMAIN list = 1..Len(list) /\ list \in Seq(Accounts)
    BY DEF ListOK
  <2>1. PICK p \in 1..Len(list) : list[p] = u
    BY <1>2, <2>0 DEF Range
  <2>2. PICK r : r = removeAccount(list, u)
    OBVIOUS
  <2>3. r = [n \in 1..(Len(list) - 1) |-> IF n < p THEN list[n] ELSE list[n + 1]]
    BY <2>1, <2>2, TakenOut
  <2>4. \A n \in 1..(Len(list) - 1) : list[n] \in Accounts /\ list[n + 1] \in Accounts
    BY <2>0
  <2>5. /\ r \in Seq(Accounts) /\ Len(r) = Len(list) - 1 /\ DOMAIN r = 1..(Len(list) - 1)
        /\ \A n \in 1..(Len(list) - 1) : r[n] = IF n < p THEN list[n] ELSE list[n + 1]
    BY <2>0, <2>1, <2>3, <2>4
  <2>6. IsInjective(r)
    <3> SUFFICES ASSUME NEW m \in 1..(Len(list) - 1), NEW n \in 1..(Len(list) - 1), r[m] = r[n]
                 PROVE  m = n
      BY <2>5 DEF IsInjective
    <3> DEFINE a == IF m < p THEN m ELSE m + 1
               b == IF n < p THEN n ELSE n + 1
    <3>1. a \in DOMAIN list /\ b \in DOMAIN list /\ list[a] = list[b]
      BY <2>0, <2>1, <2>5
    <3>2. a = b
      BY <3>1 DEF ListOK, IsInjective
    <3> QED BY <3>2, <2>1, <2>0
  <2>7. Range(r) = Range(list) \ {u}
    <3>1. ASSUME NEW n \in DOMAIN r PROVE r[n] \in Range(list) \ {u}
      <4> DEFINE a == IF n < p THEN n ELSE n + 1
      <4>1. a \in DOMAIN list /\ a # p /\ r[n] = list[a]
        BY <2>0, <2>1, <2>5
      <4> HIDE DEF a
      <4> QED BY <2>0, <2>1, <4>1 DEF ListOK, IsInjective, Range
    <3>2. ASSUME NEW a \in DOMAIN list, list[a] # u PROVE list[a] \in Range(r)
      <4>1. a # p
        BY <2>1, <3>2
      <4>2. CASE a < p
        <5>1. a \in DOMAIN r /\ r[a] = list[a]
          BY <2>0, <2>1, <2>5, <4>2
        <5> QED BY <5>1 DEF Range
      <4>3. CASE a > p
        <5>1. a - 1 \in DOMAIN r /\ r[a - 1] = list[a]
          BY <2>0, <2>1, <2>5, <4>3
        <5> QED BY <5>1 DEF Range
      <4> QED BY <2>0, <2>1, <4>1, <4>2, <4>3
    <3> QED BY <3>1, <3>2 DEF Range
  <2>8. ASSUME NEW s, Ranked(list, s) PROVE Ranked(r, s)
    <3> SUFFICES ASSUME NEW m \in 1..(Len(list) - 1), NEW n \in 1..(Len(list) - 1), m < n
                 PROVE  r[m] \in s[r[n]]
      BY <2>5 DEF Ranked
    <3> DEFINE a == IF m < p THEN m ELSE m + 1
               b == IF n < p THEN n ELSE n + 1
    <3>1. a \in DOMAIN list /\ b \in DOMAIN list /\ a < b /\ r[m] = list[a] /\ r[n] = list[b]
      BY <2>0, <2>1, <2>5
    <3> HIDE DEF a, b
    <3> QED BY <3>1, <2>8 DEF Ranked
  <2> QED BY <1>2, <2>2, <2>5, <2>6, <2>7, <2>8 DEF ListOK
<1> QED BY <1>1, <1>2

(* An account saved goes to the front. The others count it, and the one    *)
(* that falls off the end has counted all that are left.                   *)
LEMMA Put ==
  ASSUME NEW list, ListOK(list), Len(list) <= MAX_ACCOUNTS, NEW u \in Accounts,
         NEW s, Ranked(list, s), NEW t \in [Accounts -> SUBSET Accounts],
         \A v \in Accounts \ {u} : t[v] = s[v] \cup {u},
         \A v \in Accounts : IsFiniteSet(t[v])
  PROVE  LET new == saveAccount(list, u) IN
         /\ ListOK(new) /\ Len(new) <= MAX_ACCOUNTS /\ Ranked(new, t)
         /\ u \in Range(new) /\ Range(new) \subseteq Range(list) \cup {u}
         /\ u \in Range(list) => Range(new) = Range(list)
         /\ \A v \in Range(list) \ Range(new) : Cardinality(t[v]) >= MAX_ACCOUNTS
<1>1. PICK r : r = removeAccount(list, u)
  OBVIOUS
<1>2. /\ ListOK(r) /\ Range(r) = Range(list) \ {u} /\ Ranked(r, s)
      /\ Len(r) = IF u \in Range(list) THEN Len(list) - 1 ELSE Len(list)
  BY <1>1, Removed
<1>3. PICK full : full = <<u>> \o r
  OBVIOUS
<1>4. /\ full \in Seq(Accounts) /\ Len(full) = Len(r) + 1 /\ full[1] = u
      /\ \A i \in 2..Len(full) : full[i] = r[i - 1] /\ i - 1 \in DOMAIN r
      /\ r \in Seq(Accounts) /\ Len(r) \in Nat /\ DOMAIN r = 1..Len(r)
      /\ DOMAIN full = 1..Len(full) /\ list \in Seq(Accounts) /\ Len(list) \in Nat
  BY <1>2, <1>3 DEF ListOK
<1>5. \A i \in DOMAIN r : r[i] # u /\ r[i] \in Accounts
  <2> TAKE i \in DOMAIN r
  <2>1. r[i] \in Accounts
    BY <1>4
  <2>2. r[i] \in Range(r)
    BY DEF Range
  <2> QED BY <1>2, <2>1, <2>2
<1>6. IsInjective(full)
  <2> SUFFICES ASSUME NEW i \in DOMAIN full, NEW j \in DOMAIN full, full[i] = full[j]
               PROVE  i = j
    BY DEF IsInjective
  <2>1. CASE i = 1 \/ j = 1
    <3>1. \A k \in DOMAIN full : k = 1 \/ (k - 1 \in DOMAIN r /\ full[k] = r[k - 1])
      BY <1>4
    <3>2. \A k \in DOMAIN full : k = 1 \/ full[k] # u
      BY <1>5, <3>1
    <3> QED BY <1>4, <2>1, <3>2
  <2>2. CASE i # 1 /\ j # 1
    <3>1. i - 1 \in DOMAIN r /\ j - 1 \in DOMAIN r /\ r[i - 1] = r[j - 1]
      BY <1>4, <2>2
    <3> QED BY <1>2, <1>4, <3>1 DEF ListOK, IsInjective
  <2> QED BY <2>1, <2>2
<1>7. Ranked(full, t)
  <2> SUFFICES ASSUME NEW i \in DOMAIN full, NEW j \in DOMAIN full, i < j
               PROVE  full[i] \in t[full[j]]
    BY DEF Ranked
  <2>1. j - 1 \in DOMAIN r /\ full[j] = r[j - 1]
    BY <1>4
  <2>2. t[full[j]] = s[full[j]] \cup {u}
    BY <1>5, <2>1
  <2>3. CASE i = 1
    BY <1>4, <2>2, <2>3
  <2>4. CASE i # 1
    <3>1. i - 1 \in DOMAIN r /\ full[i] = r[i - 1] /\ i - 1 < j - 1
      BY <1>4, <2>4
    <3>2. r[i - 1] \in s[r[j - 1]]
      BY <1>2, <2>1, <3>1 DEF Ranked
    <3> QED BY <2>1, <2>2, <3>1, <3>2
  <2> QED BY <2>3, <2>4
<1>8. Range(full) = Range(list) \cup {u}
  <2>1. ASSUME NEW i \in DOMAIN full PROVE full[i] \in Range(r) \cup {u}
    <3>1. i = 1 \/ (i - 1 \in DOMAIN r /\ full[i] = r[i - 1])
      BY <1>4
    <3> QED BY <1>4, <3>1 DEF Range
  <2>2. ASSUME NEW i \in DOMAIN r PROVE r[i] \in Range(full)
    <3>1. i + 1 \in DOMAIN full /\ full[i + 1] = r[i]
      BY <1>4
    <3> QED BY <3>1 DEF Range
  <2>3. u \in Range(full)
    BY <1>4 DEF Range
  <2>4. Range(full) = Range(r) \cup {u}
    BY <2>1, <2>2, <2>3 DEF Range
  <2> QED BY <1>2, <2>4
<1>9. MAX_ACCOUNTS \in Nat /\ MAX_ACCOUNTS # 0
  BY QuickAccessAssumption
<1>10. CASE Len(full) <= MAX_ACCOUNTS
  <2>1. saveAccount(list, u) = full
    BY <1>1, <1>3, <1>4, <1>9, <1>10 DEF saveAccount, Newest
  <2> QED BY <1>4, <1>6, <1>7, <1>8, <1>10, <2>1 DEF ListOK
<1>11. CASE Len(full) > MAX_ACCOUNTS
  <2>1. /\ Len(full) = MAX_ACCOUNTS + 1 /\ u \notin Range(list)
    BY <1>2, <1>4, <1>9, <1>11
  <2>2. PICK new : new = SubSeq(full, 1, MAX_ACCOUNTS)
    OBVIOUS
  <2>3. /\ new \in Seq(Accounts) /\ Len(new) = MAX_ACCOUNTS
        /\ DOMAIN new = 1..MAX_ACCOUNTS /\ \A i \in 1..MAX_ACCOUNTS : new[i] = full[i]
    BY <1>4, <1>9, <2>1, <2>2
  <2>4. saveAccount(list, u) = new
    BY <1>1, <1>3, <1>11, <2>2 DEF saveAccount, Newest
  <2>0. \A i \in DOMAIN new : i \in DOMAIN full /\ new[i] = full[i]
    BY <1>4, <1>9, <2>1, <2>3
  <2>5. ListOK(new)
    BY <1>6, <2>0, <2>3 DEF ListOK, IsInjective
  <2>6. Ranked(new, t)
    BY <1>7, <2>0 DEF Ranked
  <2>7. u \in Range(new)
    <3>1. 1 \in DOMAIN new /\ new[1] = u
      BY <1>4, <1>9, <2>3
    <3> QED BY <3>1 DEF Range
  <2>8. Range(new) \subseteq Range(full)
    BY <2>0 DEF Range
  <2>9. ASSUME NEW v \in Range(list) \ Range(new)
        PROVE  Cardinality(t[v]) >= MAX_ACCOUNTS
    <3>1. PICK k \in DOMAIN full : full[k] = v
      BY <1>8 DEF Range
    <3>2. k = MAX_ACCOUNTS + 1
      <4>1. k \notin 1..MAX_ACCOUNTS
        BY <2>3, <3>1 DEF Range
      <4> QED BY <1>4, <1>9, <2>1, <4>1
    <3>3. \A i \in 1..MAX_ACCOUNTS : full[i] \in t[v]
      <4> TAKE i \in 1..MAX_ACCOUNTS
      <4>1. i \in DOMAIN full /\ i < k
        BY <1>4, <1>9, <2>1, <3>2
      <4> QED BY <1>7, <3>1, <4>1 DEF Ranked
    <3>4. v \in Accounts
      BY <1>4, <3>1
    <3> DEFINE f == [i \in 1..MAX_ACCOUNTS |-> full[i]]
    <3>5. f \in [1..MAX_ACCOUNTS -> t[v]] /\ IsInjective(f)
      <4>1. 1..MAX_ACCOUNTS \subseteq DOMAIN full
        BY <1>4, <1>9, <2>1
      <4>2. IsInjective(f)
        BY <1>6, <4>1 DEF IsInjective
      <4> QED BY <3>3, <4>2
    <3>6. f \in Injection(1..MAX_ACCOUNTS, t[v])
      BY <3>5 DEF Injection
    <3> HIDE DEF f
    <3>7. Cardinality(1..MAX_ACCOUNTS) <= Cardinality(t[v])
      BY <3>4, <3>6, FS_Injection
    <3>8. Cardinality(1..MAX_ACCOUNTS) = MAX_ACCOUNTS
      BY <1>9, FS_Interval
    <3>9. Cardinality(t[v]) \in Nat
      BY <3>4, FS_CardinalityType
    <3> QED BY <1>9, <3>7, <3>8, <3>9
  <2> QED BY <1>8, <1>9, <2>1, <2>3, <2>4, <2>5, <2>6, <2>7, <2>8, <2>9
<1> QED BY <1>4, <1>9, <1>10, <1>11

(* What stands before an account on the list came after its last request:  *)
(* without this an account that falls off the end could be missed by fewer *)
(* than MAX_ACCOUNTS others.                                               *)
QuickInv ==
  /\ ListOK(accounts) /\ Len(accounts) <= MAX_ACCOUNTS /\ trusted \in BOOLEAN
  /\ saved \subseteq Accounts /\ since \in [Accounts -> SUBSET Accounts]
  /\ \A u \in Accounts : IsFiniteSet(since[u])
  /\ Range(accounts) \subseteq saved
  /\ Ranked(accounts, since)
  /\ \A u \in saved : u \in Range(accounts) \/ Cardinality(since[u]) >= MAX_ACCOUNTS

(* Whoever signs in is counted for everybody else.                         *)
LEMMA Counted ==
  ASSUME QuickInv, NEW u \in Accounts, NEW wish, NEW dev, Becomes(dev, u, wish)
  PROVE  /\ since' \in [Accounts -> SUBSET Accounts]
         /\ \A v \in Accounts \ {u} : since'[v] = since[v] \cup {u}
         /\ since'[u] = IF wish = "yes" THEN {} ELSE since[u]
         /\ \A v \in Accounts : IsFiniteSet(since'[v])
         /\ \A v \in Accounts \ {u} :
              Cardinality(since[v]) >= MAX_ACCOUNTS => Cardinality(since'[v]) >= MAX_ACCOUNTS
<1>1. /\ since' \in [Accounts -> SUBSET Accounts]
      /\ \A v \in Accounts \ {u} : since'[v] = since[v] \cup {u}
      /\ since'[u] = IF wish = "yes" THEN {} ELSE since[u]
  BY DEF Becomes, QuickInv
<1>2. ASSUME NEW v \in Accounts \ {u}
      PROVE  /\ IsFiniteSet(since'[v])
             /\ Cardinality(since[v]) >= MAX_ACCOUNTS => Cardinality(since'[v]) >= MAX_ACCOUNTS
  <2>1. IsFiniteSet(since[v]) /\ Cardinality(since[v]) \in Nat
    BY FS_CardinalityType DEF QuickInv
  <2>2. /\ IsFiniteSet(since[v] \cup {u})
        /\ Cardinality(since[v] \cup {u}) \in
             {Cardinality(since[v]), Cardinality(since[v]) + 1}
    BY <2>1, FS_AddElement
  <2>3. since'[v] = since[v] \cup {u}
    BY <1>1
  <2>4. PICK m \in Nat : m = Cardinality(since[v])
    BY <2>1
  <2>5. PICK n \in {m, m + 1} : n = Cardinality(since[v] \cup {u})
    BY <2>2, <2>4
  <2>6. m >= MAX_ACCOUNTS => n >= MAX_ACCOUNTS
    BY QuickAccessAssumption
  <2> QED BY <2>2, <2>3, <2>4, <2>5, <2>6
<1>3. IsFiniteSet(since'[u])
  BY <1>1, FS_EmptySet DEF QuickInv
<1> QED BY <1>1, <1>2, <1>3

LEMMA Listed ==
  ASSUME QuickInv, NEW u \in Accounts, NEW wish \in {"yes", "no", "same"},
         NEW dev, Becomes(dev, u, wish), dev.trusted \in BOOLEAN,
         NEW new, new = dev.accounts,
         ListOK(new), Len(new) <= MAX_ACCOUNTS, Ranked(new, since'),
         wish = "yes" => u \in Range(new) /\ Range(new) \subseteq Range(accounts) \cup {u},
         wish = "no" => Range(new) \subseteq Range(accounts) \ {u},
         wish = "same" => Range(new) \subseteq Range(accounts),
         \A v \in Range(accounts) \ Range(new) :
           (v = u /\ wish = "no") \/ Cardinality(since'[v]) >= MAX_ACCOUNTS
  PROVE  QuickInv'
<1>1. accounts' = new /\ trusted' \in BOOLEAN
  BY DEF Becomes
<1>2. saved' = IF wish = "yes" THEN saved \cup {u}
               ELSE IF wish = "no" THEN saved \ {u} ELSE saved
  BY DEF Becomes
<1>3. saved' \subseteq Accounts /\ Range(new) \subseteq saved'
  BY <1>2 DEF QuickInv
<1>4. ASSUME NEW v \in saved', v \notin Range(new)
      PROVE  Cardinality(since'[v]) >= MAX_ACCOUNTS
  <2>1. v \in saved /\ (v = u => wish = "same")
    BY <1>2, <1>4
  <2>2. CASE v \in Range(accounts)
    BY <1>4, <2>1, <2>2
  <2>3. CASE v \notin Range(accounts)
    <3>1. Cardinality(since[v]) >= MAX_ACCOUNTS /\ v \in Accounts
      BY <2>1, <2>3 DEF QuickInv
    <3> QED BY <2>1, <3>1, Counted
  <2> QED BY <2>2, <2>3
<1> QED BY <1>1, <1>3, <1>4, Counted DEF QuickInv, ListOK, Ranked

(* The three ways a list is written.                                       *)
LEMMA SavedNow ==
  ASSUME QuickInv, NEW u \in Accounts, NEW wish \in {"yes", "same"},
         NEW dev, Becomes(dev, u, wish), dev.trusted \in BOOLEAN,
         dev.accounts = saveAccount(accounts, u),
         wish = "same" => u \in Range(accounts)
  PROVE  QuickInv'
<1>1. PICK t : t = since'
  OBVIOUS
<1>2. PICK new : new = saveAccount(accounts, u)
  OBVIOUS
<1>3. /\ t \in [Accounts -> SUBSET Accounts] /\ \A v \in Accounts : IsFiniteSet(t[v])
      /\ \A v \in Accounts \ {u} : t[v] = since[v] \cup {u}
  BY <1>1, Counted
<1>4. /\ ListOK(new) /\ Len(new) <= MAX_ACCOUNTS /\ Ranked(new, t)
      /\ u \in Range(new) /\ Range(new) \subseteq Range(accounts) \cup {u}
      /\ u \in Range(accounts) => Range(new) = Range(accounts)
      /\ \A v \in Range(accounts) \ Range(new) : Cardinality(t[v]) >= MAX_ACCOUNTS
  BY <1>2, <1>3, Put DEF QuickInv
<1> QED BY <1>1, <1>2, <1>4, Listed

LEMMA Widened ==
  ASSUME QuickInv, NEW u \in Accounts, NEW wish \in {"no", "same"}, NEW dev,
         Becomes(dev, u, wish), NEW new, ListOK(new), Ranked(new, since),
         Range(new) \subseteq Range(accounts)
  PROVE  Ranked(new, since')
<1>1. \A v \in Accounts : since[v] \subseteq since'[v]
  BY Counted
<1>2. \A i \in DOMAIN new : new[i] \in Accounts
  BY DEF ListOK
<1> QED BY <1>1, <1>2 DEF Ranked

LEMMA RemovedNow ==
  ASSUME QuickInv, NEW u \in Accounts, NEW dev, Becomes(dev, u, "no"),
         dev.trusted \in BOOLEAN, dev.accounts = removeAccount(accounts, u)
  PROVE  QuickInv'
<1>1. PICK new : new = removeAccount(accounts, u)
  OBVIOUS
<1>2. /\ ListOK(new) /\ Range(new) = Range(accounts) \ {u} /\ Len(new) <= MAX_ACCOUNTS
      /\ Ranked(new, since)
  <2>1. /\ ListOK(new) /\ Range(new) = Range(accounts) \ {u} /\ Ranked(new, since)
        /\ Len(new) \in {Len(accounts) - 1, Len(accounts)}
    BY <1>1, Removed DEF QuickInv
  <2>2. Len(accounts) \in Nat /\ Len(accounts) <= MAX_ACCOUNTS /\ MAX_ACCOUNTS \in Nat
    BY QuickAccessAssumption DEF QuickInv, ListOK
  <2> QED BY <2>1, <2>2
<1>3. Ranked(new, since')
  BY <1>2, Widened
<1> QED BY <1>1, <1>2, <1>3, Listed

LEMMA LeftAlone ==
  ASSUME QuickInv, NEW u \in Accounts, NEW dev, Becomes(dev, u, "same"),
         dev.trusted \in BOOLEAN, dev.accounts = accounts
  PROVE  QuickInv'
<1>1. PICK new : new = accounts
  OBVIOUS
<1>2. ListOK(new) /\ Len(new) <= MAX_ACCOUNTS /\ Ranked(new, since)
  BY <1>1 DEF QuickInv
<1>3. Ranked(new, since')
  BY <1>1, <1>2, Widened
<1> QED BY <1>1, <1>2, <1>3, Listed

LEMMA NotListed ==
  ASSUME QuickInv, NEW u, u \notin Range(accounts)
  PROVE  removeAccount(accounts, u) = accounts
  BY Unlisted DEF QuickInv

LEMMA Persists ==
  ASSUME QuickInv, NEW u \in Accounts, Persist(u)
  PROVE  QuickInv'
<1>1. PICK pin \in BOOLEAN, save \in {"yes", "no", "same"} :
        Becomes(persistAuthUser(Device, u, pin, save), u,
                IF save = "yes" /\ ~pin THEN "same" ELSE save)
  BY DEF Persist
<1>2. PICK dev : dev = persistAuthUser(Device, u, pin, save)
  OBVIOUS
<1>3. PICK wish \in {"yes", "no", "same"} : wish = IF save = "yes" /\ ~pin THEN "same" ELSE save
  OBVIOUS
<1>4. Becomes(dev, u, wish)
  BY <1>1, <1>2, <1>3
<1>5. CASE save = "yes" \/ (save = "same" /\ u \in Range(accounts))
  <2>1. /\ dev.accounts = IF pin THEN saveAccount(accounts, u) ELSE accounts
        /\ dev.trusted = TRUE
    BY <1>2, <1>5 DEF persistAuthUser, resolveSaveAccountPreference, getAccount, Device
  <2>2. CASE pin
    BY <1>3, <1>4, <1>5, <2>1, <2>2, SavedNow
  <2>3. CASE ~pin
    BY <1>3, <1>4, <1>5, <2>1, <2>3, LeftAlone
  <2> QED BY <2>2, <2>3
<1>6. CASE save = "no" \/ (save = "same" /\ u \notin Range(accounts))
  <2>1. /\ dev.accounts = removeAccount(accounts, u)
        /\ dev.trusted = FALSE
    BY <1>2, <1>6 DEF persistAuthUser, resolveSaveAccountPreference, getAccount, Device
  <2>2. CASE save = "no"
    BY <1>3, <1>4, <2>1, <2>2, RemovedNow
  <2>3. CASE save = "same"
    BY <1>3, <1>4, <1>6, <2>1, <2>3, NotListed, LeftAlone
  <2> QED BY <1>6, <2>2, <2>3
<1> QED BY <1>5, <1>6

LEMMA Toggles ==
  ASSUME QuickInv, NEW u \in Accounts, ToggleSettings(u)
  PROVE  QuickInv'
<1>1. PICK save \in {"yes", "no"} : Becomes(ToggleQuickAccess(Device, u, save), u, save)
  BY DEF ToggleSettings
<1>2. PICK dev : dev = ToggleQuickAccess(Device, u, save)
  OBVIOUS
<1>3. CASE save = "yes"
  <2>1. dev.accounts = saveAccount(accounts, u) /\ dev.trusted = TRUE
    BY <1>2, <1>3 DEF ToggleQuickAccess, Device
  <2> QED BY <1>1, <1>2, <1>3, <2>1, SavedNow
<1>4. CASE save = "no"
  <2>1. dev.accounts = removeAccount(accounts, u) /\ dev.trusted = FALSE
    BY <1>2, <1>4 DEF ToggleQuickAccess, Device
  <2> QED BY <1>1, <1>2, <1>4, <2>1, RemovedNow
<1> QED BY <1>3, <1>4

(* The check of a password leaves the list as it was, or moves the account *)
(* to the front, once or twice.                                            *)
LEMMA VerifyWrites ==
  ASSUME QuickInv, NEW u \in Accounts, NEW pin \in BOOLEAN,
         NEW dev, dev = Verify(Device, u, pin)
  PROVE  /\ dev.trusted = trusted
         /\ u \in Range(accounts) =>
              dev.accounts \in {saveAccount(accounts, u),
                                   saveAccount(saveAccount(accounts, u), u)}
         /\ u \notin Range(accounts) => dev.accounts = accounts
<1>1. PICK after : after = persistAuthUser(Device, u, pin, "same")
  OBVIOUS
<1>2. /\ dev.accounts = IF u \in Range(accounts) THEN saveAccount(after.accounts, u)
                           ELSE removeAccount(after.accounts, u)
      /\ dev.trusted = trusted
  BY <1>1 DEF Verify, Captured, Device, getAccount
<1>3. after.accounts = IF u \in Range(accounts)
                       THEN IF pin THEN saveAccount(accounts, u) ELSE accounts
                       ELSE removeAccount(accounts, u)
  BY <1>1 DEF persistAuthUser, resolveSaveAccountPreference, getAccount, Device
<1> QED BY <1>2, <1>3, NotListed

LEMMA Checks ==
  ASSUME QuickInv, NEW u \in Accounts, CheckPassword(u)
  PROVE  QuickInv'
<1>1. PICK pin \in BOOLEAN : Becomes(Verify(Device, u, pin), u, "same")
  BY DEF CheckPassword
<1>2. PICK dev : dev = Verify(Device, u, pin)
  OBVIOUS
<1>3. Becomes(dev, u, "same") /\ dev.trusted \in BOOLEAN
  BY <1>1, <1>2, VerifyWrites DEF QuickInv
<1>4. CASE u \notin Range(accounts)
  BY <1>2, <1>3, <1>4, VerifyWrites, LeftAlone
<1>5. CASE u \in Range(accounts) /\ dev.accounts = saveAccount(accounts, u)
  BY <1>3, <1>5, SavedNow
<1>6. CASE u \in Range(accounts) /\ dev.accounts = saveAccount(saveAccount(accounts, u), u)
  <2>1. PICK t : t = since'
    OBVIOUS
  <2>2. PICK once : once = saveAccount(accounts, u)
    OBVIOUS
  <2>3. PICK new : new = saveAccount(once, u)
    OBVIOUS
  <2>4. /\ t \in [Accounts -> SUBSET Accounts] /\ \A v \in Accounts : IsFiniteSet(t[v])
        /\ \A v \in Accounts \ {u} : t[v] = since[v] \cup {u}
    BY <1>3, <2>1, Counted
  <2>5. /\ ListOK(once) /\ Len(once) <= MAX_ACCOUNTS /\ Ranked(once, t)
        /\ u \in Range(once) /\ Range(once) = Range(accounts)
    BY <1>6, <2>2, <2>4, Put DEF QuickInv
  <2>6. \A v \in Accounts \ {u} : t[v] = t[v] \cup {u}
    BY <2>4
  <2>7. /\ ListOK(new) /\ Len(new) <= MAX_ACCOUNTS /\ Ranked(new, t)
        /\ Range(new) = Range(once)
    BY <2>3, <2>4, <2>5, <2>6, Put
  <2> QED BY <1>3, <1>6, <2>1, <2>2, <2>3, <2>5, <2>7, Listed
<1> QED BY <1>2, <1>4, <1>5, <1>6, VerifyWrites

LEMMA TakesOut ==
  ASSUME QuickInv, NEW u \in Accounts, TakeOut(u)
  PROVE  QuickInv'
<1>1. PICK new : new = removeAccount(accounts, u)
  OBVIOUS
<1>2. /\ accounts' = new /\ saved' = saved \ {u} /\ trusted' = trusted /\ since' = since
  BY <1>1 DEF TakeOut, Forget, Device
<1>3. /\ ListOK(new) /\ Range(new) = Range(accounts) \ {u} /\ Len(new) <= MAX_ACCOUNTS
      /\ Ranked(new, since)
  <2>1. /\ ListOK(new) /\ Range(new) = Range(accounts) \ {u} /\ Ranked(new, since)
        /\ Len(new) \in {Len(accounts) - 1, Len(accounts)}
    BY <1>1, Removed DEF QuickInv
  <2>2. Len(accounts) \in Nat /\ Len(accounts) <= MAX_ACCOUNTS /\ MAX_ACCOUNTS \in Nat
    BY QuickAccessAssumption DEF QuickInv, ListOK
  <2> QED BY <2>1, <2>2
<1> QED BY <1>2, <1>3 DEF QuickInv

LEMMA QuickStart == QuickInit => QuickInv
<1> SUFFICES ASSUME QuickInit PROVE QuickInv
  OBVIOUS
<1>1. ListOK(accounts) /\ Range(accounts) = {} /\ Len(accounts) = 0 /\ Ranked(accounts, since)
  BY DEF QuickInit, ListOK, IsInjective, Range, Ranked
<1>2. 0 <= MAX_ACCOUNTS
  BY QuickAccessAssumption
<1> QED BY <1>1, <1>2, FS_EmptySet DEF QuickInit, QuickInv

(* Whatever log ins, refreshes, refusals and removals come, for any        *)
(* accounts and any size of the list: AccountManager lists an account      *)
(* once, only one saved on request, and drops one that was saved only for  *)
(* MAX_ACCOUNTS others; the settings' check of a password leaves list and  *)
(* trust as they were.                                                     *)
THEOREM QuickAccessKept == QuickSpec => []QuickAccessRight
<1>1. QuickInv => QuickAccessRight
  <2> SUFFICES ASSUME QuickInv, NEW u \in Accounts, NEW pin \in BOOLEAN
               PROVE  /\ Range(Verify(Device, u, pin).accounts) = Range(accounts)
                      /\ Verify(Device, u, pin).trusted = trusted
    BY DEF QuickInv, QuickAccessRight, ListOK
  <2>1. PICK dev : dev = Verify(Device, u, pin)
    OBVIOUS
  <2>2. PICK t : t = [v \in Accounts |-> IF v = u THEN since[v] ELSE since[v] \cup {u}]
    OBVIOUS
  <2>3. /\ t \in [Accounts -> SUBSET Accounts] /\ \A v \in Accounts : IsFiniteSet(t[v])
        /\ \A v \in Accounts \ {u} : t[v] = since[v] \cup {u} /\ t[v] = t[v] \cup {u}
    BY <2>2, FS_AddElement DEF QuickInv
  <2>4. CASE u \in Range(accounts)
    <3>1. PICK once : once = saveAccount(accounts, u)
      OBVIOUS
    <3>2. /\ ListOK(once) /\ Len(once) <= MAX_ACCOUNTS /\ Ranked(once, t)
          /\ u \in Range(once) /\ Range(once) = Range(accounts)
      BY <2>3, <2>4, <3>1, Put DEF QuickInv
    <3>3. Range(saveAccount(once, u)) = Range(once)
      BY <2>3, <3>2, Put
    <3> QED BY <2>1, <2>4, <3>1, <3>2, <3>3, VerifyWrites
  <2>5. CASE u \notin Range(accounts)
    BY <2>1, <2>5, VerifyWrites
  <2> QED BY <2>4, <2>5
<1>2. ASSUME QuickInv, [QuickNext]_quickVars PROVE QuickInv'
  <2>1. CASE UNCHANGED quickVars
    BY <1>2, <2>1 DEF quickVars, QuickInv, ListOK, Ranked
  <2> QED BY <1>2, <2>1, Persists, Toggles, Checks, TakesOut DEF QuickNext
<1> QED BY QuickStart, <1>1, <1>2, PTL DEF QuickSpec
=============================================================================
