------------------------------- MODULE Sessions -------------------------------
(***************************************************************************)
(* The sessions of one user: login, refresh with rotation, grace window    *)
(* and reuse detection, logout, and the credential changes and archivings  *)
(* they race with, interleaved at the statements on users and              *)
(* refresh_tokens. Tabs and browsers are request slots; a refresh may      *)
(* present any token ever stored, since cookies are shared by tabs and     *)
(* answers get lost. A token past its expiry is refused before the         *)
(* database is asked and is the same as one nobody presents.               *)
(*                                                                         *)
(* A family is named by the token of its login. Tokens are numbered in the *)
(* order of their rows, which is the order in which a bulk UPDATE visits   *)
(* them.                                                                   *)
(***************************************************************************)
EXTENDS Integers, FiniteSets

CONSTANTS
  Slots,      \* request slots, each one request
  None,       \* no slot, no token, no family
  MaxTokens   \* bound: the rows refresh_tokens may hold

ASSUME ConstantsAssumption ==
  /\ IsFiniteSet(Slots)
  /\ MaxTokens \in Nat \ {0}
  /\ None \notin Slots \cup (1..MaxTokens)

Tokens == 1..MaxTokens
Kinds  == {"login", "refresh", "logout", "credentials", "edit", "edit_credentials",
           "archive", "restore"}

VARIABLES
  user,       \* users: is_active, token_version, and whose change set the credential
  row,        \* refresh_tokens: "absent", "live", or revoked_reason
  family,     \* refresh_tokens.family_id
  recent,     \* revoked_at is at most refreshReuseGraceWindow ago
  access,     \* token_version of the access token issued along, and its credential
  parent,     \* the token presented for it (history)
  via,        \* how it was issued (history)
  lock,       \* the transaction that holds the token's row
  pc,         \* the statement each slot is about to execute
  req,        \* its kind and the token it presents
  seen,       \* the users row it has read
  status,     \* the refresh_tokens row it has read
  todo,       \* rows a bulk UPDATE has still to visit
  found       \* rows its snapshot held live (history)

tokens == <<row, family, recent, access, parent, via>>
locals == <<req, seen, status, todo, found>>
vars   == <<user, tokens, lock, pc, locals>>
-----------------------------------------------------------------------------
Reasons  == {"token_refresh", "user_logout", "user_credentials_changed",
             "token_family_reuse"}
Steps    == {"token", "user", "create", "rotate", "insert", "revoke",
             "snapshot", "visit", "bump", "flag"}
Terminal == {"done", "refused", "failed"}
Users    == [active: BOOLEAN, version: Nat, secret: Slots \cup {None}]
Stored   == {k \in Tokens : row[k] # "absent"}
Live     == {k \in Tokens : row[k] = "live"}
Idle     == [kind |-> "login", token |-> None]

Goto(t, step) == pc' = [pc EXCEPT ![t] = step]
Release(t) == lock' = [k \in Tokens |-> IF lock[k] = t THEN None ELSE lock[k]]

(* Mutant: what was stored under the reason is the request's kind.         *)
ReasonOfKind(t) == req[t].kind
Reason(t) == IF req[t].kind = "refresh" THEN "token_family_reuse"
                                        ELSE "user_credentials_changed"

(* Mutant: every recent revocation counts as a sibling's rotation.         *)
RecentlyRevoked(t) == recent[req[t].token]
(* isRecentlyRotatedToken.                                                 *)
RecentlyRotated(t) == status[t] = "token_refresh" /\ recent[req[t].token]

(* Mutant: Rotate without "AND revoked_at IS NULL".                        *)
RotatableAgain(k) == row[k] # "absent"
Rotatable(k) == row[k] = "live"

(* Mutant: a bulk UPDATE that does not look again at a row it waited for.  *)
RevocableBlindly(k) == TRUE
Revocable(k) == row[k] = "live"

(* Mutant: a bulk UPDATE that skips locked rows.                           *)
SkipsLocked(k) == lock[k] # None
Skips(k) == FALSE

(* Mutant: the version is read and written back in two statements.         *)
VersionReadBefore(t) == seen[t].version + 1
(* token_version = token_version + 1.                                      *)
NextVersion(t) == user.version + 1

(* is_active as UserRepository.Update writes it: of the row the handler    *)
(* read unless the form sets it; Deactivate clears it.                     *)
ActiveAfter(t) == CASE req[t].kind = "archive" -> FALSE
                    [] req[t].kind = "restore" -> TRUE
                    [] OTHER                   -> seen[t].active

(* The rows a bulk UPDATE is about.                                        *)
Scope(t) ==
  IF req[t].kind = "refresh"
    THEN {k \in Live : family[k] = family[req[t].token]}
    ELSE Live

(* A row is added: a login's starts a family, a refresh continues one.     *)
Store(t, k, how) ==
  LET p == req[t].token IN
  /\ row[k] = "absent" /\ \A j \in 1..(k - 1) : row[j] # "absent"
  /\ family' = [family EXCEPT ![k] = IF p = None THEN k ELSE family[p]]
  /\ parent' = [parent EXCEPT ![k] = p]
  /\ via' = [via EXCEPT ![k] = how]
  /\ access' = [access EXCEPT ![k] = [version |-> seen[t].version,
                                      secret  |-> seen[t].secret]]
-----------------------------------------------------------------------------
(* A request arrives; what the handlers refuse without a write (malformed  *)
(* requests, forms with a stale expected_updated_at) leaves no trace.      *)
Begin(t) ==
  /\ pc[t] = "idle"
  /\ \E kind \in Kinds, k \in Stored \cup {None} :
       /\ kind \in {"refresh", "logout"} <=> k # None
       /\ req' = [req EXCEPT ![t] = [kind |-> kind, token |-> k]]
       /\ Goto(t, CASE kind = "refresh" -> "token"
                    [] kind = "logout"  -> "revoke"
                    [] OTHER            -> "user")
  /\ UNCHANGED <<user, tokens, lock, seen, status, todo, found>>

(* Refresh: GetByTokenHash.                                                *)
ReadToken(t) ==
  /\ pc[t] = "token"
  /\ status' = [status EXCEPT ![t] = row[req[t].token]]
  /\ Goto(t, "user")
  /\ UNCHANGED <<user, tokens, lock, req, seen, todo, found>>

(* GetByEmail or GetByID and the decision on what was read: an archived    *)
(* user can only be restored. A login that gets here proved the credential *)
(* of this row; a refresh rotates a live token, continues a recently       *)
(* rotated one, and takes any other for reuse. An edit of the email alone  *)
(* revokes tokens without a new version.                                   *)
ReadUser(t) ==
  LET kind == req[t].kind IN
  /\ pc[t] = "user"
  /\ seen' = [seen EXCEPT ![t] = user]
  /\ \/ ~user.active /\ kind # "restore" /\ Goto(t, "refused")
     \/ /\ user.active \/ kind = "restore"
        /\ \/ kind = "login" /\ Goto(t, "create")
           \/ kind \in {"credentials", "edit_credentials"} /\ Goto(t, "bump")
           \/ kind \in {"edit", "edit_credentials", "archive", "restore"} /\ Goto(t, "flag")
           \/ /\ kind = "refresh"
              /\ Goto(t, IF status[t] = "live" THEN "rotate"
                         ELSE IF RecentlyRotated(t) THEN "create" ELSE "snapshot")
  /\ UNCHANGED <<user, tokens, lock, req, status, todo, found>>

(* Login, and the grace window: INSERT of a live token.                    *)
Create(t) ==
  /\ pc[t] = "create"
  /\ \E k \in Tokens : /\ Store(t, k, IF req[t].token = None THEN "login" ELSE "grace")
                       /\ row' = [row EXCEPT ![k] = "live"]
  /\ Goto(t, "done")
  /\ UNCHANGED <<user, recent, lock, locals>>

(* Rotate: UPDATE ... WHERE revoked_at IS NULL, which waits for the row;   *)
(* no row is ErrRefreshTokenNotActive, answered 401.                       *)
RevokePresented(t) ==
  LET p == req[t].token IN
  /\ pc[t] = "rotate"
  /\ lock[p] = None
  /\ \/ /\ ~Rotatable(p)
        /\ Goto(t, "refused")
        /\ UNCHANGED lock
     \/ /\ Rotatable(p)
        /\ lock' = [lock EXCEPT ![p] = t]
        /\ Goto(t, "insert")
  /\ UNCHANGED <<user, tokens, locals>>

(* Rotate: INSERT of the replacement, and COMMIT.                          *)
CommitRotation(t) ==
  LET p == req[t].token IN
  /\ pc[t] = "insert"
  /\ \E k \in Tokens :
       /\ Store(t, k, "rotation")
       /\ row' = [row EXCEPT ![p] = "token_refresh", ![k] = "live"]
  /\ recent' = [recent EXCEPT ![p] = TRUE]
  /\ Release(t)
  /\ Goto(t, "done")
  /\ UNCHANGED <<user, locals>>

(* Logout: UPDATE of the presented token alone.                            *)
Revoke(t) ==
  LET p == req[t].token IN
  /\ pc[t] = "revoke"
  /\ lock[p] = None
  /\ IF row[p] = "live"
       THEN /\ row' = [row EXCEPT ![p] = "user_logout"]
            /\ recent' = [recent EXCEPT ![p] = TRUE]
       ELSE UNCHANGED <<row, recent>>
  /\ Goto(t, "done")
  /\ UNCHANGED <<user, family, access, parent, via, lock, locals>>

(* UpdatePassword, UpdatePIN: the credential and its version.              *)
Bump(t) ==
  /\ pc[t] = "bump"
  /\ user' = [user EXCEPT !.version = NextVersion(t), !.secret = t]
  /\ Goto(t, IF req[t].kind = "credentials" THEN "snapshot" ELSE "flag")
  /\ UNCHANGED <<tokens, lock, locals>>

(* RevokeAllForUser or RevokeFamily begins: the rows its snapshot shows.   *)
Snapshot(t) ==
  /\ pc[t] = "snapshot"
  /\ todo'  = [todo EXCEPT ![t] = Scope(t)]
  /\ found' = [found EXCEPT ![t] = Scope(t)]
  /\ Goto(t, "visit")
  /\ UNCHANGED <<user, tokens, lock, req, seen, status>>

(* It waits for each row and looks again at what it waited for.            *)
Visit(t) ==
  /\ pc[t] = "visit"
  /\ \E k \in todo[t] :
       /\ \A j \in todo[t] : k <= j
       /\ Skips(k) \/ lock[k] = None
       /\ lock' = IF Revocable(k) /\ ~Skips(k) THEN [lock EXCEPT ![k] = t] ELSE lock
       /\ todo' = [todo EXCEPT ![t] = @ \ {k}]
  /\ UNCHANGED <<user, tokens, pc, req, seen, status, found>>

(* It commits; reuse is answered 401, a credential change 200.             *)
CommitRevocation(t) ==
  LET mine == {k \in Tokens : lock[k] = t} IN
  /\ pc[t] = "visit" /\ todo[t] = {}
  /\ row' = [k \in Tokens |-> IF k \in mine THEN Reason(t) ELSE row[k]]
  /\ recent' = [k \in Tokens |-> recent[k] \/ k \in mine]
  /\ Release(t)
  /\ Goto(t, IF req[t].kind = "refresh" THEN "refused" ELSE "done")
  /\ UNCHANGED <<user, family, access, parent, via, locals>>

(* UserRepository.Update writes every column; the role, which it writes    *)
(* too, raises no version.                                                 *)
Flag(t) ==
  /\ pc[t] = "flag"
  /\ user' = [user EXCEPT !.active = ActiveAfter(t)]
  /\ Goto(t, IF req[t].kind = "edit_credentials" THEN "snapshot" ELSE "done")
  /\ UNCHANGED <<tokens, lock, locals>>

(* A statement fails or times out; what was committed before stays.        *)
Fail(t) ==
  /\ pc[t] \in Steps
  /\ Goto(t, "failed")
  /\ Release(t)
  /\ UNCHANGED <<user, tokens, locals>>

(* Thirty seconds go by.                                                   *)
WindowEnds(k) ==
  /\ recent[k]
  /\ recent' = [recent EXCEPT ![k] = FALSE]
  /\ UNCHANGED <<user, row, family, access, parent, via, lock, pc, locals>>
-----------------------------------------------------------------------------
(* One browser is logged in.                                               *)
Init ==
  /\ user = [active |-> TRUE, version |-> 0, secret |-> None]
  /\ row = [k \in Tokens |-> IF k = 1 THEN "live" ELSE "absent"]
  /\ family = [k \in Tokens |-> IF k = 1 THEN 1 ELSE None]
  /\ recent = [k \in Tokens |-> FALSE]
  /\ access = [k \in Tokens |-> [version |-> 0, secret |-> None]]
  /\ parent = [k \in Tokens |-> None]
  /\ via = [k \in Tokens |-> "login"]
  /\ lock = [k \in Tokens |-> None]
  /\ pc = [t \in Slots |-> "idle"]
  /\ req = [t \in Slots |-> Idle]
  /\ seen = [t \in Slots |-> user]
  /\ status = [t \in Slots |-> "absent"]
  /\ todo = [t \in Slots |-> {}]
  /\ found = [t \in Slots |-> {}]

Next ==
  \/ \E t \in Slots :
       \/ Begin(t) \/ ReadToken(t) \/ ReadUser(t) \/ Create(t)
       \/ RevokePresented(t) \/ CommitRotation(t) \/ Revoke(t) \/ Bump(t)
       \/ Snapshot(t) \/ Visit(t) \/ CommitRevocation(t) \/ Flag(t) \/ Fail(t)
  \/ \E k \in Tokens : WindowEnds(k)

Spec == Init /\ [][Next]_vars
-----------------------------------------------------------------------------
TypeOK ==
  /\ user \in Users
  /\ row \in [Tokens -> {"absent", "live"} \cup Reasons]
  /\ family \in [Tokens -> Tokens \cup {None}]
  /\ recent \in [Tokens -> BOOLEAN]
  /\ access \in [Tokens -> [version: Nat, secret: Slots \cup {None}]]
  /\ parent \in [Tokens -> Tokens \cup {None}]
  /\ via \in [Tokens -> {"login", "rotation", "grace"}]
  /\ lock \in [Tokens -> Slots \cup {None}]
  /\ pc \in [Slots -> {"idle"} \cup Steps \cup Terminal]
  /\ req \in [Slots -> [kind: Kinds, token: Tokens \cup {None}]]
  /\ seen \in [Slots -> Users]
  /\ status \in [Slots -> {"absent", "live"} \cup Reasons]
  /\ todo \in [Slots -> SUBSET Tokens] /\ found \in [Slots -> SUBSET Tokens]

(* A session is continued only from a token that was rotated, in its own   *)
(* family: never from one that was logged out, contained after reuse or    *)
(* ended by a credential change, whatever refreshes were under way.        *)
ContinuesRotated ==
  \A k \in Tokens : parent[k] # None
    => row[parent[k]] = "token_refresh" /\ family[k] = family[parent[k]]

(* However many tabs rotate a token at once, one gets its successor: the   *)
(* live tokens of a login are one more than those the grace window issued  *)
(* at most.                                                                *)
Members(f) == {k \in Stored : family[k] = f}
FamilyLine ==
  \A f \in Tokens : Members(f) # {} =>
    Cardinality(Members(f) \cap Live)
      <= 1 + Cardinality({k \in Members(f) : via[k] = "grace"})

(* The revocation that came first stands: no later statement overwrites    *)
(* its reason, which decides whether the grace window applies.             *)
FirstReasonStands ==
  [][\A k \in Tokens : row[k] \in Reasons => row'[k] = row[k]]_vars

(* When a credential change or a reuse is answered, every token that was   *)
(* live when its revocation began is dead, even one that a rotation held   *)
(* at that moment and gave back.                                           *)
RevocationComplete ==
  \A t \in Slots : (pc[t] \in {"done", "refused"}) => found[t] \cap Live = {}

(* AuthMiddleware lets an access token pass only while the credential it   *)
(* was issued under is the user's: two overlapping changes do not end up   *)
(* at the version an access token issued in between carries.               *)
Passes(k) == user.active /\ access[k].version = user.version
AccessFollowsCredential ==
  \A k \in Stored : Passes(k) => access[k].secret = user.secret

(* "lets a sibling tab that just rotated still exchange": no refresh is    *)
(* refused because a sibling rotated its token within the grace window     *)
(* (README, Refresh in handlers/auth.go).                                  *)
SiblingTabSurvives ==
  [][\A t \in Slots : (pc[t] = "rotate" /\ pc'[t] = "refused")
       => ~(row[req[t].token] = "token_refresh" /\ recent[req[t].token])]_vars
=============================================================================
