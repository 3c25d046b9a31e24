---------------------------- MODULE SessionsProofs ----------------------------
(***************************************************************************)
(* What Sessions.tla guarantees for any slots and any number of tokens.    *)
(***************************************************************************)
EXTENDS Sessions, FiniteSetTheorems, TLAPS

(* A request fits the statement it is at, and what a refresh has read of   *)
(* its token stays true once the token is revoked.                         *)
ControlOf(t) ==
  LET kind == req[t].kind
      p    == req[t].token
  IN
  /\ pc[t] # "idle" => (kind \in {"refresh", "logout"} <=> p # None)
  /\ p # None => p \in Stored
  /\ pc[t] \in {"token", "rotate", "insert"} => kind = "refresh"
  /\ pc[t] = "revoke" => kind = "logout"
  /\ pc[t] = "create" => kind \in {"login", "refresh"}
  /\ (pc[t] = "create" /\ p # None) => row[p] = "token_refresh"
  /\ (pc[t] = "user" /\ kind = "refresh")
       => status[t] # "absent" /\ (status[t] # "live" => row[p] = status[t])
  /\ (pc[t] = "user" /\ p # None) => kind = "refresh"
Control == \A t \in Slots : ControlOf(t)

(* A locked row is live, and belongs to a rotation of it or to a bulk      *)
(* UPDATE that has visited it.                                             *)
Holder(k) ==
  lock[k] # None =>
    LET t == lock[k] IN
    /\ row[k] = "live"
    /\ \/ pc[t] = "insert" /\ req[t].token = k
       \/ pc[t] = "visit" /\ k \in found[t] \ todo[t]
Holders ==
  /\ \A k \in Tokens : Holder(k)
  /\ \A t \in Slots : pc[t] = "insert" => lock[req[t].token] = t

(* A bulk UPDATE has dealt with every row of its snapshot that it does not *)
(* have to visit any more.                                                 *)
VisitOf(t) ==
  /\ pc[t] \in {"idle"} \cup (Steps \ {"visit"}) => found[t] = {}
  /\ found[t] \subseteq Stored
  /\ pc[t] = "visit" => /\ todo[t] \subseteq found[t]
                       /\ \A k \in found[t] \ todo[t] : row[k] # "live" \/ lock[k] = t
  /\ pc[t] \in {"done", "refused"} => \A k \in found[t] : row[k] # "live"
Visits == \A t \in Slots : VisitOf(t)

(* A version is no later than the user's, and the same one means the same  *)
(* credential.                                                             *)
Older(r) == r.version <= user.version /\ (r.version = user.version => r.secret = user.secret)
Versions == (\A k \in Tokens : Older(access[k])) /\ (\A t \in Slots : Older(seen[t]))

(* A family's first token is stored.                                       *)
Families == \A k \in Stored : family[k] \in Stored

IInv == TypeOK /\ Control /\ Holders /\ Visits /\ Versions /\ Families /\ ContinuesRotated
-------------------------------------------------------------------------------
LEMMA InitIInv == Init => IInv
<1> SUFFICES ASSUME Init PROVE IInv
  OBVIOUS
<1> USE ConstantsAssumption DEF Init
<1>1. TypeOK
  BY DEF TypeOK, Tokens, Users, Idle, Kinds
<1>2. Control /\ Holders /\ Visits
  BY DEF Control, ControlOf, Holders, Holder, Visits, VisitOf, Idle, Steps, Stored
<1>3. Versions
  BY DEF Versions, Older
<1>4. Families /\ ContinuesRotated
  BY DEF Families, ContinuesRotated, Stored, Tokens
<1> QED BY <1>1, <1>2, <1>3, <1>4 DEF IInv

(* A step of t that changes no token and no lock disturbs nothing but the  *)
(* control of t.                                                           *)
LEMMA QuietStep ==
  ASSUME IInv, NEW t \in Slots, TypeOK', UNCHANGED <<tokens, lock>>,
         \A u \in Slots \ {t} : /\ pc'[u] = pc[u] /\ req'[u] = req[u]
                                /\ status'[u] = status[u]
                                /\ todo'[u] = todo[u] /\ found'[u] = found[u],
         ControlOf(t)', VisitOf(t)', Versions',
         pc[t] \notin {"insert", "visit"}, pc'[t] # "insert"
  PROVE  IInv'
<1> USE ConstantsAssumption
<1>1. UNCHANGED <<row, family, parent, Stored>>
  BY DEF tokens, Stored
<1>2. Control'
  <2> SUFFICES ASSUME NEW u \in Slots, u # t PROVE ControlOf(u)'
    BY DEF Control
  <2> QED BY <1>1 DEF IInv, Control, ControlOf
<1>3. Holders'
  <2>1. ASSUME NEW k \in Tokens PROVE Holder(k)'
    <3>1. Holder(k) /\ lock[k] \in Slots \cup {None} /\ lock'[k] = lock[k]
      BY DEF IInv, TypeOK, Holders
    <3>2. lock[k] # None => lock[k] \in Slots \ {t}
      BY <3>1 DEF Holder
    <3> QED BY <1>1, <3>1, <3>2 DEF Holder
  <2>2. ASSUME NEW u \in Slots, pc'[u] = "insert" PROVE lock'[req'[u].token] = u
    BY <2>2 DEF IInv, Holders
  <2> QED BY <2>1, <2>2 DEF Holders
<1>4. Visits'
  <2> SUFFICES ASSUME NEW u \in Slots, u # t PROVE VisitOf(u)'
    BY DEF Visits
  <2> QED BY <1>1 DEF IInv, Visits, VisitOf
<1>5. Families' /\ ContinuesRotated'
  BY <1>1 DEF IInv, Families, ContinuesRotated
<1> QED BY <1>2, <1>3, <1>4, <1>5 DEF IInv

LEMMA BeginIInv == ASSUME IInv, NEW t \in Slots, Begin(t) PROVE IInv'
<1> USE ConstantsAssumption
<1>1. PICK kind \in Kinds, k \in Stored \cup {None} :
        /\ kind \in {"refresh", "logout"} <=> k # None
        /\ req' = [req EXCEPT ![t] = [kind |-> kind, token |-> k]]
        /\ pc' = [pc EXCEPT ![t] = CASE kind = "refresh" -> "token"
                                     [] kind = "logout"  -> "revoke"
                                     [] OTHER            -> "user"]
  BY DEF Begin, Goto
<1>2. pc[t] = "idle" /\ UNCHANGED <<user, tokens, lock, seen, status, todo, found>>
  BY DEF Begin
<1>3. pc'[t] \in {"token", "revoke", "user"} /\ pc'[t] \in Steps
  BY <1>1 DEF IInv, TypeOK, Steps
<1>4. TypeOK'
  BY <1>1, <1>2, <1>3 DEF IInv, TypeOK, Stored, tokens
<1>5. UNCHANGED <<Stored, row>>
  BY <1>2 DEF Stored, tokens
<1>6. ControlOf(t)'
  BY <1>1, <1>3, <1>5 DEF IInv, TypeOK, ControlOf, Kinds
<1>7. VisitOf(t)'
  BY <1>2, <1>3 DEF IInv, Visits, VisitOf
<1>8. Versions'
  BY <1>2 DEF IInv, Versions, Older, tokens
<1>9. \A u \in Slots \ {t} : pc'[u] = pc[u] /\ req'[u] = req[u]
  BY <1>1 DEF IInv, TypeOK
<1> QED BY <1>2, <1>3, <1>4, <1>6, <1>7, <1>8, <1>9, QuietStep

LEMMA ReadTokenIInv == ASSUME IInv, NEW t \in Slots, ReadToken(t) PROVE IInv'
<1> USE ConstantsAssumption
<1>1. /\ pc[t] = "token" /\ pc' = [pc EXCEPT ![t] = "user"]
      /\ status' = [status EXCEPT ![t] = row[req[t].token]]
      /\ UNCHANGED <<user, tokens, lock, req, seen, todo, found>>
  BY DEF ReadToken, Goto
<1>2. req[t].kind = "refresh" /\ req[t].token \in Stored
  BY <1>1 DEF IInv, Control, ControlOf
<1>3. TypeOK'
  BY <1>1, <1>2 DEF IInv, TypeOK, Steps, Stored, tokens
<1>4. ControlOf(t)'
  BY <1>1, <1>2 DEF IInv, TypeOK, Control, ControlOf, Stored, tokens
<1>5. VisitOf(t)'
  BY <1>1 DEF IInv, TypeOK, Visits, VisitOf, Steps
<1>6. Versions'
  BY <1>1 DEF IInv, Versions, Older, tokens
<1>7. \A u \in Slots \ {t} : pc'[u] = pc[u] /\ status'[u] = status[u]
  BY <1>1 DEF IInv, TypeOK
<1> QED BY <1>1, <1>3, <1>4, <1>5, <1>6, <1>7, QuietStep DEF TypeOK

LEMMA ReadUserIInv == ASSUME IInv, NEW t \in Slots, ReadUser(t) PROVE IInv'
<1> USE ConstantsAssumption
<1> DEFINE kind == req[t].kind
<1>1. /\ pc[t] = "user" /\ seen' = [seen EXCEPT ![t] = user]
      /\ UNCHANGED <<user, tokens, lock, req, status, todo, found>>
  BY DEF ReadUser
<1>2. PICK step \in {"refused", "create", "bump", "flag", "rotate", "snapshot"} :
        /\ pc' = [pc EXCEPT ![t] = step]
        /\ step = "create" => kind = "login" \/ status[t] = "token_refresh"
        /\ step \in {"rotate", "create"} => kind \in {"login", "refresh"}
        /\ step = "rotate" => kind = "refresh"
  <2>1. PICK step \in {"refused", "create", "bump", "flag", "rotate", "snapshot"} :
          /\ pc' = [pc EXCEPT ![t] = step]
          /\ \/ step \in {"refused", "bump", "flag", "snapshot"}
             \/ step = "create" /\ kind = "login"
             \/ step = "create" /\ kind = "refresh" /\ RecentlyRotated(t)
             \/ step = "rotate" /\ kind = "refresh"
    BY DEF ReadUser, Goto
  <2> QED BY <2>1 DEF RecentlyRotated
<1>3. TypeOK'
  BY <1>1, <1>2 DEF IInv, TypeOK, Steps, Terminal, tokens
<1>4. ControlOf(t)'
  BY <1>1, <1>2 DEF IInv, TypeOK, Control, ControlOf, Stored, tokens
<1>5. VisitOf(t)'
  BY <1>1, <1>2 DEF IInv, TypeOK, Visits, VisitOf, Steps
<1>6. Versions'
  BY <1>1 DEF IInv, TypeOK, Versions, Older, Users, tokens
<1>7. \A u \in Slots \ {t} : pc'[u] = pc[u]
  BY <1>2 DEF IInv, TypeOK
<1>8. pc'[t] # "insert"
  BY <1>2 DEF IInv, TypeOK
<1> QED BY <1>1, <1>3, <1>4, <1>5, <1>6, <1>7, <1>8, QuietStep

LEMMA BumpIInv == ASSUME IInv, NEW t \in Slots, Bump(t) PROVE IInv'
<1> USE ConstantsAssumption
<1>1. /\ pc[t] = "bump" /\ UNCHANGED <<tokens, lock, locals>>
      /\ user' = [user EXCEPT !.version = user.version + 1, !.secret = t]
      /\ pc' = [pc EXCEPT ![t] = IF req[t].kind = "credentials" THEN "snapshot" ELSE "flag"]
  BY DEF Bump, Goto, NextVersion
<1>2. TypeOK'
  <2>1. user' \in Users
    <3>1. user \in Users /\ user.version + 1 \in Nat
      BY DEF IInv, TypeOK, Users
    <3>2. user' = [active |-> user.active, version |-> user.version + 1, secret |-> t]
      BY <1>1, <3>1 DEF Users
    <3> QED BY <3>1, <3>2 DEF Users
  <2>2. pc' \in [Slots -> {"idle"} \cup Steps \cup Terminal]
    BY <1>1 DEF IInv, TypeOK, Steps
  <2> QED BY <1>1, <2>1, <2>2 DEF IInv, TypeOK, tokens, locals
<1>3. ControlOf(t)'
  BY <1>1 DEF IInv, TypeOK, Control, ControlOf, Stored, tokens, locals
<1>4. VisitOf(t)'
  BY <1>1 DEF IInv, TypeOK, Visits, VisitOf, Steps, locals
<1>5. Versions'
  BY <1>1 DEF IInv, TypeOK, Versions, Older, Users, tokens, locals
<1>6. \A u \in Slots \ {t} : pc'[u] = pc[u]
  BY <1>1 DEF IInv, TypeOK
<1>7. pc'[t] # "insert"
  BY <1>1 DEF IInv, TypeOK
<1> QED BY <1>1, <1>2, <1>3, <1>4, <1>5, <1>6, <1>7, QuietStep DEF locals

LEMMA FlagIInv == ASSUME IInv, NEW t \in Slots, Flag(t) PROVE IInv'
<1> USE ConstantsAssumption
<1>1. PICK on \in BOOLEAN : user' = [user EXCEPT !.active = on]
  BY DEF Flag, ActiveAfter, IInv, TypeOK, Users
<1>2. /\ pc[t] = "flag" /\ UNCHANGED <<tokens, lock, locals>>
      /\ pc' = [pc EXCEPT ![t] = IF req[t].kind = "edit_credentials" THEN "snapshot" ELSE "done"]
  BY DEF Flag, Goto
<1>3. TypeOK'
  BY <1>1, <1>2 DEF IInv, TypeOK, Users, Steps, Terminal, tokens, locals
<1>4. ControlOf(t)'
  BY <1>2 DEF IInv, TypeOK, Control, ControlOf, Stored, tokens, locals
<1>5. VisitOf(t)'
  BY <1>2 DEF IInv, TypeOK, Visits, VisitOf, Steps, locals
<1>6. Versions'
  BY <1>1, <1>2 DEF IInv, TypeOK, Versions, Older, Users, tokens, locals
<1>7. \A u \in Slots \ {t} : pc'[u] = pc[u]
  BY <1>2 DEF IInv, TypeOK
<1>8. pc'[t] # "insert"
  BY <1>2 DEF IInv, TypeOK
<1> QED BY <1>2, <1>3, <1>4, <1>5, <1>6, <1>7, <1>8, QuietStep DEF locals

LEMMA SnapshotIInv == ASSUME IInv, NEW t \in Slots, Snapshot(t) PROVE IInv'
<1> USE ConstantsAssumption
<1>1. /\ pc[t] = "snapshot" /\ UNCHANGED <<user, tokens, lock, req, seen, status>>
      /\ todo' = [todo EXCEPT ![t] = Scope(t)] /\ found' = [found EXCEPT ![t] = Scope(t)]
      /\ pc' = [pc EXCEPT ![t] = "visit"]
  BY DEF Snapshot, Goto
<1>2. Scope(t) \subseteq Stored /\ Stored \subseteq Tokens
  BY DEF Scope, Live, Stored
<1>3. TypeOK'
  BY <1>1, <1>2 DEF IInv, TypeOK, Steps, tokens
<1>4. ControlOf(t)'
  BY <1>1 DEF IInv, TypeOK, Control, ControlOf, Stored, tokens
<1>5. Stored' = Stored
  BY <1>1 DEF Stored, tokens
<1>6. VisitOf(t)'
  BY <1>1, <1>2, <1>5 DEF IInv, TypeOK, VisitOf, Steps
<1>7. Versions'
  BY <1>1 DEF IInv, Versions, Older, tokens
<1>8. \A u \in Slots \ {t} : pc'[u] = pc[u] /\ todo'[u] = todo[u] /\ found'[u] = found[u]
  BY <1>1 DEF IInv, TypeOK
<1>9. pc'[t] # "insert"
  BY <1>1 DEF IInv, TypeOK
<1> QED BY <1>1, <1>3, <1>4, <1>6, <1>7, <1>8, <1>9, QuietStep

LEMMA WindowEndsIInv == ASSUME IInv, NEW k \in Tokens, WindowEnds(k) PROVE IInv'
<1>1. /\ recent' = [recent EXCEPT ![k] = FALSE]
      /\ UNCHANGED <<user, row, family, access, parent, via, lock, pc, req, seen,
                     status, todo, found>>
  BY DEF WindowEnds, locals
<1>2. TypeOK'
  BY <1>1 DEF IInv, TypeOK
<1>3. Control' /\ Holders' /\ Visits'
  BY <1>1 DEF IInv, Control, ControlOf, Holders, Holder, Visits, VisitOf, Stored
<1>4. Versions' /\ Families' /\ ContinuesRotated'
  BY <1>1 DEF IInv, Versions, Older, Families, ContinuesRotated, Stored
<1> QED BY <1>2, <1>3, <1>4 DEF IInv

(* A row is added: what the tokens already stored say does not change.     *)
LEMMA StoreStep ==
  ASSUME IInv, NEW t \in Slots, NEW k \in Tokens, NEW how \in {"login", "rotation", "grace"},
         Store(t, k, how), pc[t] \in Steps, pc[t] # "idle",
         row'[k] = "live", \A j \in Stored : row'[j] # "absent",
         \A j \in Tokens \ {k} : row'[j] = "absent" <=> row[j] = "absent",
         req[t].token # None => row'[req[t].token] = "token_refresh",
         \A j \in Tokens : row[j] = "token_refresh" => row'[j] = "token_refresh",
         UNCHANGED <<user, seen>>
  PROVE  /\ row[k] = "absent" /\ Stored' = Stored \cup {k}
         /\ family' \in [Tokens -> Tokens \cup {None}]
         /\ parent' \in [Tokens -> Tokens \cup {None}]
         /\ via' \in [Tokens -> {"login", "rotation", "grace"}]
         /\ access' \in [Tokens -> [version: Nat, secret: Slots \cup {None}]]
         /\ Versions' /\ Families' /\ ContinuesRotated'
<1> USE ConstantsAssumption
<1> DEFINE p == req[t].token
<1>1. /\ row[k] = "absent"
      /\ family' = [family EXCEPT ![k] = IF p = None THEN k ELSE family[p]]
      /\ parent' = [parent EXCEPT ![k] = p]
      /\ via' = [via EXCEPT ![k] = how]
      /\ access' = [access EXCEPT ![k] = [version |-> seen[t].version, secret |-> seen[t].secret]]
  BY DEF Store
<1>2. Stored' = Stored \cup {k}
  BY DEF Stored
<1>3. p # None => p \in Stored /\ p # k /\ p \in Tokens
  BY <1>1 DEF IInv, Control, ControlOf, Stored
<1>4. /\ family' \in [Tokens -> Tokens \cup {None}]
      /\ parent' \in [Tokens -> Tokens \cup {None}]
      /\ via' \in [Tokens -> {"login", "rotation", "grace"}]
  BY <1>1, <1>3 DEF IInv, TypeOK
<1>5. access' \in [Tokens -> [version: Nat, secret: Slots \cup {None}]]
  BY <1>1 DEF IInv, TypeOK, Users
<1>6. Versions'
  BY <1>1 DEF IInv, TypeOK, Versions, Older, Users
<1>7. Families'
  <2> SUFFICES ASSUME NEW j \in Stored \cup {k} PROVE family'[j] \in Stored \cup {k}
    BY <1>2 DEF Families
  <2>1. CASE j = k
    BY <1>1, <1>3, <2>1 DEF IInv, TypeOK, Families
  <2>2. CASE j # k
    BY <1>1, <2>2 DEF IInv, TypeOK, Families, Stored
  <2> QED BY <2>1, <2>2
<1>8. ContinuesRotated'
  <2> SUFFICES ASSUME NEW j \in Tokens, parent'[j] # None
               PROVE  row'[parent'[j]] = "token_refresh" /\ family'[j] = family'[parent'[j]]
    BY DEF ContinuesRotated
  <2>1. CASE j = k
    BY <1>1, <1>3, <2>1 DEF IInv, TypeOK
  <2>2. CASE j # k
    <3>1. parent'[j] = parent[j] /\ family'[j] = family[j] /\ parent[j] \in Tokens
      BY <1>1, <2>2 DEF IInv, TypeOK
    <3>2. row[parent[j]] = "token_refresh" /\ family[j] = family[parent[j]]
      BY <3>1 DEF IInv, ContinuesRotated
    <3>3. parent[j] # k
      BY <1>1, <3>2
    <3> QED BY <1>1, <3>1, <3>2, <3>3 DEF IInv, TypeOK
  <2> QED BY <2>1, <2>2
<1> QED BY <1>1, <1>2, <1>4, <1>5, <1>6, <1>7, <1>8

LEMMA CreateIInv == ASSUME IInv, NEW t \in Slots, Create(t) PROVE IInv'
<1> USE ConstantsAssumption
<1> DEFINE p == req[t].token
<1>1. PICK k \in Tokens : /\ Store(t, k, IF p = None THEN "login" ELSE "grace")
                          /\ row' = [row EXCEPT ![k] = "live"]
  BY DEF Create
<1>2. /\ pc[t] = "create" /\ pc' = [pc EXCEPT ![t] = "done"]
      /\ UNCHANGED <<user, recent, lock, req, seen, status, todo, found>>
  BY DEF Create, Goto, locals
<1>3. row[k] = "absent"
  BY <1>1 DEF Store
<1>4. p # None => row[p] = "token_refresh" /\ p \in Tokens
  BY <1>2 DEF IInv, Control, ControlOf, Stored
<1>5. \A j \in Tokens : row'[j] = IF j = k THEN "live" ELSE row[j]
  BY <1>1 DEF IInv, TypeOK
<1>6. /\ Stored' = Stored \cup {k}
      /\ family' \in [Tokens -> Tokens \cup {None}]
      /\ parent' \in [Tokens -> Tokens \cup {None}]
      /\ via' \in [Tokens -> {"login", "rotation", "grace"}]
      /\ access' \in [Tokens -> [version: Nat, secret: Slots \cup {None}]]
      /\ Versions' /\ Families' /\ ContinuesRotated'
  BY <1>1, <1>2, <1>3, <1>4, <1>5, StoreStep DEF Steps, Stored
<1>7. TypeOK'
  BY <1>1, <1>2, <1>6 DEF IInv, TypeOK, Terminal
<1>8. Control'
  <2> SUFFICES ASSUME NEW u \in Slots PROVE ControlOf(u)'
    BY DEF Control
  <2>1. CASE u = t
    BY <1>2, <1>6, <2>1 DEF IInv, TypeOK, Control, ControlOf
  <2>2. CASE u # t
    <3>1. req[u].token # None => row'[req[u].token] = row[req[u].token]
      BY <1>3, <1>5 DEF IInv, Control, ControlOf, Stored
    <3> QED BY <1>2, <1>6, <2>2, <3>1 DEF IInv, TypeOK, Control, ControlOf
  <2> QED BY <2>1, <2>2
<1>9. Holders'
  <2>1. ASSUME NEW j \in Tokens PROVE Holder(j)'
    BY <1>2, <1>3, <1>5 DEF IInv, TypeOK, Holders, Holder
  <2>2. ASSUME NEW u \in Slots, pc'[u] = "insert" PROVE lock'[req'[u].token] = u
    BY <1>2, <2>2 DEF IInv, TypeOK, Holders
  <2> QED BY <2>1, <2>2 DEF Holders
<1>10. Visits'
  <2> SUFFICES ASSUME NEW u \in Slots PROVE VisitOf(u)'
    BY DEF Visits
  <2>1. \A j \in found[u] : j \in Tokens /\ row'[j] = row[j]
    BY <1>3, <1>5 DEF IInv, Visits, VisitOf, Stored
  <2>2. CASE u = t
    BY <1>2, <1>6, <2>2 DEF IInv, TypeOK, Visits, VisitOf, Steps
  <2>3. CASE u # t
    BY <1>2, <1>6, <2>1, <2>3 DEF IInv, TypeOK, Visits, VisitOf
  <2> QED BY <2>2, <2>3
<1> QED BY <1>6, <1>7, <1>8, <1>9, <1>10 DEF IInv

LEMMA RevokePresentedIInv ==
  ASSUME IInv, NEW t \in Slots, RevokePresented(t) PROVE IInv'
<1> USE ConstantsAssumption
<1> DEFINE p == req[t].token
<1>1. pc[t] = "rotate" /\ lock[p] = None /\ UNCHANGED <<user, tokens, req, seen, status, todo, found>>
  BY DEF RevokePresented, locals
<1>2. req[t].kind = "refresh" /\ p \in Stored /\ p \in Tokens
  BY <1>1 DEF IInv, Control, ControlOf, Stored
<1>3. UNCHANGED <<row, family, recent, access, parent, via, Stored>>
  BY <1>1 DEF tokens, Stored
<1>4. Versions' /\ Families' /\ ContinuesRotated'
  BY <1>1, <1>3 DEF IInv, Versions, Older, Families, ContinuesRotated
<1>5. CASE pc' = [pc EXCEPT ![t] = "refused"] /\ UNCHANGED lock
  <2>1. TypeOK'
    BY <1>1, <1>3, <1>5 DEF IInv, TypeOK, Terminal
  <2>2. ControlOf(t)' /\ VisitOf(t)'
    BY <1>1, <1>2, <1>3, <1>5 DEF IInv, TypeOK, Control, ControlOf, Visits, VisitOf, Steps
  <2>3. (\A u \in Slots \ {t} : pc'[u] = pc[u]) /\ pc'[t] # "insert"
    BY <1>5 DEF IInv, TypeOK
  <2> QED BY <1>1, <1>4, <1>5, <2>1, <2>2, <2>3, QuietStep
<1>6. CASE /\ row[p] = "live" /\ lock' = [lock EXCEPT ![p] = t]
           /\ pc' = [pc EXCEPT ![t] = "insert"]
  <2>1. TypeOK'
    BY <1>1, <1>2, <1>3, <1>6 DEF IInv, TypeOK, Steps
  <2>2. Control'
    <3> SUFFICES ASSUME NEW u \in Slots PROVE ControlOf(u)'
      BY DEF Control
    <3> QED BY <1>1, <1>2, <1>3, <1>6 DEF IInv, TypeOK, Control, ControlOf
  <2>3. Holders'
    <3>1. ASSUME NEW j \in Tokens PROVE Holder(j)'
      BY <1>1, <1>2, <1>3, <1>6 DEF IInv, TypeOK, Holders, Holder
    <3>2. ASSUME NEW u \in Slots, pc'[u] = "insert" PROVE lock'[req'[u].token] = u
      BY <1>1, <1>2, <1>6, <3>2 DEF IInv, TypeOK, Holders
    <3> QED BY <3>1, <3>2 DEF Holders
  <2>4. Visits'
    <3> SUFFICES ASSUME NEW u \in Slots PROVE VisitOf(u)'
      BY DEF Visits
    <3>1. \A j \in Tokens : lock[j] = u => lock'[j] = u
      BY <1>1, <1>6 DEF IInv, TypeOK
    <3>2. found[u] \subseteq Tokens
      BY DEF IInv, TypeOK
    <3> QED BY <1>1, <1>3, <1>6, <3>1, <3>2 DEF IInv, TypeOK, Visits, VisitOf, Steps
  <2> QED BY <1>4, <2>1, <2>2, <2>3, <2>4 DEF IInv
<1> QED BY <1>5, <1>6 DEF RevokePresented, Goto, Rotatable

LEMMA CommitRotationIInv ==
  ASSUME IInv, NEW t \in Slots, CommitRotation(t) PROVE IInv'
<1> USE ConstantsAssumption
<1> DEFINE p == req[t].token
<1>1. PICK k \in Tokens : /\ Store(t, k, "rotation")
                          /\ row' = [row EXCEPT ![p] = "token_refresh", ![k] = "live"]
  BY DEF CommitRotation
<1>2. /\ pc[t] = "insert" /\ pc' = [pc EXCEPT ![t] = "done"]
      /\ recent' = [recent EXCEPT ![p] = TRUE]
      /\ lock' = [j \in Tokens |-> IF lock[j] = t THEN None ELSE lock[j]]
      /\ UNCHANGED <<user, req, seen, status, todo, found>>
  BY DEF CommitRotation, Goto, Release, locals
<1>3. row[k] = "absent"
  BY <1>1 DEF Store
<1>4. p \in Stored /\ p \in Tokens /\ p # None /\ lock[p] = t /\ row[p] = "live" /\ p # k
  BY <1>2, <1>3 DEF IInv, Control, ControlOf, Holders, Holder, Stored
<1>5. \A j \in Tokens :
        row'[j] = IF j = k THEN "live" ELSE IF j = p THEN "token_refresh" ELSE row[j]
  BY <1>1, <1>4 DEF IInv, TypeOK
<1>6. /\ Stored' = Stored \cup {k}
      /\ family' \in [Tokens -> Tokens \cup {None}]
      /\ parent' \in [Tokens -> Tokens \cup {None}]
      /\ via' \in [Tokens -> {"login", "rotation", "grace"}]
      /\ access' \in [Tokens -> [version: Nat, secret: Slots \cup {None}]]
      /\ Versions' /\ Families' /\ ContinuesRotated'
  <2>1. row'[k] = "live" /\ row'[p] = "token_refresh" /\ \A j \in Stored : row'[j] # "absent"
    BY <1>4, <1>5 DEF Stored
  <2>2. /\ \A j \in Tokens \ {k} : row'[j] = "absent" <=> row[j] = "absent"
        /\ \A j \in Tokens : row[j] = "token_refresh" => row'[j] = "token_refresh"
    BY <1>3, <1>4, <1>5
  <2>3. pc[t] \in Steps /\ pc[t] # "idle"
    BY <1>2 DEF Steps
  <2> QED BY <1>1, <1>2, <2>1, <2>2, <2>3, StoreStep
<1>7. TypeOK'
  BY <1>1, <1>2, <1>4, <1>6 DEF IInv, TypeOK, Terminal, Reasons
<1>8. Control'
  <2> SUFFICES ASSUME NEW u \in Slots PROVE ControlOf(u)'
    BY DEF Control
  <2>1. CASE u = t
    BY <1>2, <1>6, <2>1 DEF IInv, TypeOK, Control, ControlOf
  <2>2. CASE u # t
    <3> DEFINE q == req[u].token
    <3>1. q # None => q \in Tokens /\ q # k /\ (row[q] # "live" => row'[q] = row[q])
      BY <1>3, <1>4, <1>5 DEF IInv, Control, ControlOf, Stored
    <3> QED BY <1>2, <1>6, <2>2, <3>1 DEF IInv, TypeOK, Control, ControlOf
  <2> QED BY <2>1, <2>2
<1>9. Holders'
  <2>1. ASSUME NEW j \in Tokens PROVE Holder(j)'
    BY <1>2, <1>3, <1>4, <1>5 DEF IInv, TypeOK, Holders, Holder
  <2>2. ASSUME NEW u \in Slots, pc'[u] = "insert" PROVE lock'[req'[u].token] = u
    <3>1. u # t /\ pc[u] = "insert"
      BY <1>2, <2>2 DEF IInv, TypeOK
    <3>2. lock[req[u].token] = u /\ req[u].token \in Tokens
      BY <3>1 DEF IInv, Holders, Control, ControlOf, Stored
    <3> QED BY <1>2, <3>1, <3>2
  <2> QED BY <2>1, <2>2 DEF Holders
<1>10. Visits'
  <2> SUFFICES ASSUME NEW u \in Slots PROVE VisitOf(u)'
    BY DEF Visits
  <2>1. CASE u = t
    BY <1>2, <1>6, <2>1 DEF IInv, TypeOK, Visits, VisitOf, Steps
  <2>2. CASE u # t
    <3>1. VisitOf(u) /\ pc'[u] = pc[u]
      BY <1>2, <2>2 DEF IInv, TypeOK, Visits
    <3>2. \A j \in found[u] : /\ j \in Tokens /\ (row[j] # "live" => row'[j] # "live")
                              /\ (lock[j] = u => lock'[j] = u)
      BY <1>2, <1>3, <1>5, <2>2, <3>1 DEF VisitOf, Stored
    <3> QED BY <1>2, <1>6, <3>1, <3>2 DEF VisitOf
  <2> QED BY <2>1, <2>2
<1> QED BY <1>6, <1>7, <1>8, <1>9, <1>10 DEF IInv

LEMMA RevokeIInv == ASSUME IInv, NEW t \in Slots, Revoke(t) PROVE IInv'
<1> USE ConstantsAssumption
<1> DEFINE p == req[t].token
<1>1. /\ pc[t] = "revoke" /\ lock[p] = None /\ pc' = [pc EXCEPT ![t] = "done"]
      /\ UNCHANGED <<user, family, access, parent, via, lock, req, seen, status, todo, found>>
  BY DEF Revoke, Goto, locals
<1>2. p \in Tokens /\ p \in Stored
  BY <1>1 DEF IInv, Control, ControlOf, Stored
<1>3. /\ row' \in [Tokens -> {"absent", "live"} \cup Reasons]
      /\ recent' \in [Tokens -> BOOLEAN]
      /\ \A j \in Tokens : row[j] # "live" => row'[j] = row[j]
      /\ \A j \in Tokens : j # p => row'[j] = row[j]
      /\ \A j \in Tokens : row[j] # "absent" => row'[j] # "absent"
  <2>1. CASE row[p] = "live"
    <3>1. row' = [row EXCEPT ![p] = "user_logout"] /\ recent' = [recent EXCEPT ![p] = TRUE]
      BY <2>1 DEF Revoke
    <3> QED BY <1>2, <2>1, <3>1 DEF IInv, TypeOK, Reasons
  <2>2. CASE row[p] # "live"
    BY <2>2 DEF Revoke, IInv, TypeOK
  <2> QED BY <2>1, <2>2
<1>4. Stored' = Stored
  BY <1>3 DEF Stored
<1>5. TypeOK'
  BY <1>1, <1>3 DEF IInv, TypeOK, Terminal
<1>6. Control'
  <2> SUFFICES ASSUME NEW u \in Slots PROVE ControlOf(u)'
    BY DEF Control
  <2>1. CASE u = t
    BY <1>1, <1>4, <2>1 DEF IInv, TypeOK, Control, ControlOf
  <2>2. CASE u # t
    <3>1. Stored \subseteq Tokens
      BY DEF Stored
    <3> QED BY <1>1, <1>3, <1>4, <2>2, <3>1 DEF IInv, TypeOK, Control, ControlOf
  <2> QED BY <2>1, <2>2
<1>7. Holders'
  <2>1. ASSUME NEW j \in Tokens PROVE Holder(j)'
    BY <1>1, <1>3 DEF IInv, TypeOK, Holders, Holder
  <2>2. ASSUME NEW u \in Slots, pc'[u] = "insert" PROVE lock'[req'[u].token] = u
    BY <1>1, <2>2 DEF IInv, TypeOK, Holders
  <2> QED BY <2>1, <2>2 DEF Holders
<1>8. Visits'
  <2> SUFFICES ASSUME NEW u \in Slots PROVE VisitOf(u)'
    BY DEF Visits
  <2>1. found[u] \subseteq Tokens
    BY DEF IInv, TypeOK
  <2> QED BY <1>1, <1>3, <1>4, <2>1 DEF IInv, TypeOK, Visits, VisitOf, Steps
<1>9. Versions' /\ Families'
  BY <1>1, <1>4 DEF IInv, Versions, Older, Families
<1>10. ContinuesRotated'
  <2> SUFFICES ASSUME NEW k \in Tokens, parent[k] # None
               PROVE  row'[parent[k]] = "token_refresh" /\ family[k] = family[parent[k]]
    BY <1>1 DEF ContinuesRotated
  <2> QED BY <1>3 DEF IInv, TypeOK, ContinuesRotated
<1> QED BY <1>5, <1>6, <1>7, <1>8, <1>9, <1>10 DEF IInv

LEMMA VisitIInv == ASSUME IInv, NEW t \in Slots, Visit(t) PROVE IInv'
<1> USE ConstantsAssumption
<1>1. PICK k \in todo[t] :
        /\ lock[k] = None /\ todo' = [todo EXCEPT ![t] = @ \ {k}]
        /\ lock' = IF row[k] = "live" THEN [lock EXCEPT ![k] = t] ELSE lock
  BY DEF Visit, Skips, Revocable
<1>2. pc[t] = "visit" /\ UNCHANGED <<user, tokens, pc, req, seen, status, found>>
  BY DEF Visit
<1>3. k \in Tokens /\ k \in found[t] /\ found[t] \subseteq Tokens
  BY <1>2 DEF IInv, TypeOK, Visits, VisitOf
<1>4. UNCHANGED <<row, family, recent, access, parent, via, Stored>>
  BY <1>2 DEF tokens, Stored
<1>5. /\ \A j \in Tokens : j # k => lock'[j] = lock[j]
      /\ lock'[k] = IF row[k] = "live" THEN t ELSE None
      /\ lock' \in [Tokens -> Slots \cup {None}]
  BY <1>1, <1>3 DEF IInv, TypeOK
<1>6. /\ \A u \in Slots \ {t} : todo'[u] = todo[u]
      /\ todo'[t] = todo[t] \ {k}
      /\ todo' \in [Slots -> SUBSET Tokens]
  BY <1>1 DEF IInv, TypeOK
<1>7. TypeOK'
  BY <1>2, <1>4, <1>5, <1>6 DEF IInv, TypeOK
<1>8. Control'
  BY <1>2, <1>4 DEF IInv, Control, ControlOf
<1>9. Holders'
  <2>1. ASSUME NEW j \in Tokens PROVE Holder(j)'
    <3>1. CASE j = k
      BY <1>2, <1>3, <1>4, <1>5, <1>6, <3>1 DEF IInv, Holders, Holder
    <3>2. CASE j # k
      <4>1. lock'[j] = lock[j] /\ Holder(j) /\ lock[j] \in Slots \cup {None}
        BY <1>5, <3>2 DEF IInv, TypeOK, Holders
      <4>2. \A u \in Slots : j \in found[u] \ todo[u] => j \in found[u] \ todo'[u]
        BY <1>6, <3>2
      <4> QED BY <1>2, <1>4, <4>1, <4>2 DEF Holder
    <3> QED BY <3>1, <3>2
  <2>2. ASSUME NEW u \in Slots, pc'[u] = "insert" PROVE lock'[req'[u].token] = u
    <3>1. lock[req[u].token] = u /\ req[u].token \in Tokens
      BY <1>2, <2>2 DEF IInv, Holders, Control, ControlOf, Stored
    <3> QED BY <1>1, <1>2, <1>5, <3>1
  <2> QED BY <2>1, <2>2 DEF Holders
<1>10. Visits'
  <2> SUFFICES ASSUME NEW u \in Slots PROVE VisitOf(u)'
    BY DEF Visits
  <2>1. CASE u = t
    BY <1>2, <1>3, <1>4, <1>5, <1>6, <2>1 DEF IInv, Visits, VisitOf, Steps
  <2>2. CASE u # t
    <3>1. \A j \in found[u] : j \in Tokens /\ (lock[j] = u => lock'[j] = u)
      BY <1>1, <1>5 DEF IInv, TypeOK
    <3> QED BY <1>2, <1>4, <1>6, <2>2, <3>1 DEF IInv, Visits, VisitOf
  <2> QED BY <2>1, <2>2
<1>11. Versions' /\ Families' /\ ContinuesRotated'
  BY <1>2, <1>4 DEF IInv, Versions, Older, Families, ContinuesRotated
<1> QED BY <1>7, <1>8, <1>9, <1>10, <1>11 DEF IInv

LEMMA CommitRevocationIInv ==
  ASSUME IInv, NEW t \in Slots, CommitRevocation(t) PROVE IInv'
<1> USE ConstantsAssumption
<1> DEFINE mine == {k \in Tokens : lock[k] = t}
           end  == IF req[t].kind = "refresh" THEN "refused" ELSE "done"
<1>1. /\ pc[t] = "visit" /\ todo[t] = {} /\ pc' = [pc EXCEPT ![t] = end]
      /\ row' = [k \in Tokens |-> IF k \in mine THEN Reason(t) ELSE row[k]]
      /\ recent' = [k \in Tokens |-> recent[k] \/ k \in mine]
      /\ lock' = [k \in Tokens |-> IF lock[k] = t THEN None ELSE lock[k]]
      /\ UNCHANGED <<user, family, access, parent, via, req, seen, status, todo, found>>
  BY DEF CommitRevocation, Goto, Release, locals
<1>2. Reason(t) \in Reasons /\ Reason(t) # "live" /\ Reason(t) # "absent"
  BY DEF Reason, Reasons
<1>3. \A k \in mine : row[k] = "live"
  BY DEF IInv, Holders, Holder
<1>4. /\ \A j \in Tokens : row[j] # "live" => row'[j] = row[j]
      /\ \A j \in Tokens : lock[j] # t => row'[j] = row[j] /\ lock'[j] = lock[j]
      /\ \A j \in Tokens : lock[j] = t => row'[j] # "live" /\ row'[j] # "absent" /\ lock'[j] = None
  BY <1>1, <1>2, <1>3
<1>5. Stored' = Stored /\ Stored \subseteq Tokens
  BY <1>1, <1>3, <1>4 DEF Stored
<1>6. TypeOK'
  <2>1. /\ row' \in [Tokens -> {"absent", "live"} \cup Reasons]
        /\ lock' \in [Tokens -> Slots \cup {None}]
    BY <1>1, <1>2 DEF IInv, TypeOK
  <2>2. recent' \in [Tokens -> BOOLEAN]
    <3>1. \A k \in Tokens : (recent[k] \/ k \in mine) \in BOOLEAN
      OBVIOUS
    <3> QED BY <1>1, <3>1, Zenon
  <2>3. pc' \in [Slots -> {"idle"} \cup Steps \cup Terminal]
    BY <1>1 DEF IInv, TypeOK, Terminal
  <2> QED BY <1>1, <2>1, <2>2, <2>3 DEF IInv, TypeOK
<1>7. pc'[t] \in {"done", "refused"} /\ \A u \in Slots \ {t} : pc'[u] = pc[u]
  BY <1>1 DEF IInv, TypeOK
<1>8. Control'
  <2> SUFFICES ASSUME NEW u \in Slots PROVE ControlOf(u)'
    BY DEF Control
  <2>1. CASE u = t
    BY <1>1, <1>5, <1>7, <2>1 DEF IInv, Control, ControlOf
  <2>2. CASE u # t
    BY <1>1, <1>4, <1>5, <1>7, <2>2 DEF IInv, Control, ControlOf
  <2> QED BY <2>1, <2>2
<1>9. Holders'
  <2>1. ASSUME NEW j \in Tokens PROVE Holder(j)'
    <3>1. CASE lock[j] = t
      BY <1>4, <3>1 DEF Holder
    <3>2. CASE lock[j] # t
      <4>1. lock'[j] = lock[j] /\ row'[j] = row[j] /\ Holder(j) /\ lock[j] \in Slots \cup {None}
        BY <1>4, <3>2 DEF IInv, TypeOK, Holders
      <4> QED BY <1>1, <1>7, <3>2, <4>1 DEF Holder
    <3> QED BY <3>1, <3>2
  <2>2. ASSUME NEW u \in Slots, pc'[u] = "insert" PROVE lock'[req'[u].token] = u
    <3>1. u # t /\ pc[u] = "insert"
      BY <1>7, <2>2
    <3>2. lock[req[u].token] = u /\ req[u].token \in Tokens
      BY <3>1 DEF IInv, Holders, Control, ControlOf, Stored
    <3> QED BY <1>1, <1>4, <3>1, <3>2
  <2> QED BY <2>1, <2>2 DEF Holders
<1>10. Visits'
  <2> SUFFICES ASSUME NEW u \in Slots PROVE VisitOf(u)'
    BY DEF Visits
  <2>1. VisitOf(u) /\ found[u] \subseteq Tokens
    BY DEF IInv, TypeOK, Visits
  <2>2. CASE u = t
    <3>1. \A j \in found[t] : row'[j] # "live"
      BY <1>1, <1>4, <2>1, <2>2 DEF VisitOf
    <3> QED BY <1>1, <1>5, <1>7, <2>1, <2>2, <3>1 DEF VisitOf, Steps
  <2>3. CASE u # t
    <3>1. \A j \in found[u] : /\ (row[j] # "live" => row'[j] # "live")
                              /\ (lock[j] = u => lock'[j] = u)
      BY <1>4, <2>1, <2>3
    <3> QED BY <1>1, <1>5, <1>7, <2>1, <2>3, <3>1 DEF VisitOf
  <2> QED BY <2>2, <2>3
<1>11. Versions' /\ Families'
  BY <1>1, <1>5 DEF IInv, Versions, Older, Families
<1>12. ContinuesRotated'
  <2> SUFFICES ASSUME NEW k \in Tokens, parent[k] # None
               PROVE  row'[parent[k]] = "token_refresh" /\ family[k] = family[parent[k]]
    BY <1>1 DEF ContinuesRotated
  <2> QED BY <1>4 DEF IInv, TypeOK, ContinuesRotated
<1> QED BY <1>6, <1>8, <1>9, <1>10, <1>11, <1>12 DEF IInv

LEMMA FailIInv == ASSUME IInv, NEW t \in Slots, Fail(t) PROVE IInv'
<1> USE ConstantsAssumption
<1>1. /\ pc' = [pc EXCEPT ![t] = "failed"] /\ pc[t] \in Steps
      /\ lock' = [k \in Tokens |-> IF lock[k] = t THEN None ELSE lock[k]]
      /\ UNCHANGED <<user, row, family, recent, access, parent, via, req, seen, status,
                     todo, found>>
  BY DEF Fail, Goto, Release, tokens, locals
<1>2. pc'[t] = "failed" /\ \A u \in Slots \ {t} : pc'[u] = pc[u]
  BY <1>1 DEF IInv, TypeOK
<1>3. Stored' = Stored
  BY <1>1 DEF Stored
<1>4. TypeOK'
  BY <1>1 DEF IInv, TypeOK, Terminal
<1>5. Control'
  BY <1>1, <1>2, <1>3 DEF IInv, Control, ControlOf, Steps
<1>6. Holders'
  <2>1. ASSUME NEW j \in Tokens PROVE Holder(j)'
    <3>1. lock'[j] # None => lock'[j] = lock[j] /\ lock[j] \in Slots \ {t} /\ Holder(j)
      BY <1>1 DEF IInv, TypeOK, Holders
    <3> QED BY <1>1, <1>2, <3>1 DEF Holder
  <2>2. ASSUME NEW u \in Slots, pc'[u] = "insert" PROVE lock'[req'[u].token] = u
    <3>1. u # t /\ pc[u] = "insert"
      BY <1>2, <2>2
    <3>2. lock[req[u].token] = u /\ req[u].token \in Tokens
      BY <3>1 DEF IInv, Holders, Control, ControlOf, Stored
    <3> QED BY <1>1, <3>1, <3>2
  <2> QED BY <2>1, <2>2 DEF Holders
<1>7. Visits'
  <2> SUFFICES ASSUME NEW u \in Slots PROVE VisitOf(u)'
    BY DEF Visits
  <2>1. VisitOf(u) /\ \A j \in found[u] : j \in Tokens /\ (lock[j] = u /\ u # t => lock'[j] = u)
    BY <1>1 DEF IInv, TypeOK, Visits
  <2> QED BY <1>1, <1>2, <1>3, <2>1 DEF VisitOf, Steps
<1>8. Versions' /\ Families' /\ ContinuesRotated'
  BY <1>1, <1>3 DEF IInv, Versions, Older, Families, ContinuesRotated
<1> QED BY <1>4, <1>5, <1>6, <1>7, <1>8 DEF IInv
-------------------------------------------------------------------------------
LEMMA NextIInv == IInv /\ [Next]_vars => IInv'
<1> SUFFICES ASSUME IInv, [Next]_vars PROVE IInv'
  OBVIOUS
<1>1. CASE UNCHANGED vars
  <2>1. TypeOK' /\ Control' /\ Holders'
    BY <1>1 DEF IInv, TypeOK, Control, ControlOf, Holders, Holder, Stored, vars, tokens, locals
  <2>2. Visits' /\ Versions' /\ Families' /\ ContinuesRotated'
    BY <1>1 DEF IInv, Visits, VisitOf, Versions, Older, Families, ContinuesRotated, Stored,
                vars, tokens, locals
  <2> QED BY <2>1, <2>2 DEF IInv
<1>2. CASE Next
  BY <1>2, BeginIInv, ReadTokenIInv, ReadUserIInv, CreateIInv, RevokePresentedIInv,
     CommitRotationIInv, RevokeIInv, BumpIInv, SnapshotIInv, VisitIInv,
     CommitRevocationIInv, FlagIInv, FailIInv, WindowEndsIInv DEF Next
<1> QED BY <1>1, <1>2

(* IInv holds in every state the sessions of a user reach.                 *)
THEOREM Invariance == Spec => []IInv
  BY InitIInv, NextIInv, PTL DEF Spec

(* The rows, the locks and what every request remembers are what the code  *)
(* can put there.                                                          *)
THEOREM TypeCorrect == Spec => []TypeOK
<1>1. IInv => TypeOK
  BY DEF IInv
<1> QED BY <1>1, Invariance, PTL

(* No refresh continues a session from a token that was logged out,        *)
(* contained after reuse or ended by a credential change.                  *)
THEOREM SessionsContinueRotatedTokens == Spec => []ContinuesRotated
<1>1. IInv => ContinuesRotated
  BY DEF IInv
<1> QED BY <1>1, Invariance, PTL

(* A credential change or a detected reuse that is answered has ended      *)
(* every session that was live when its revocation began.                  *)
THEOREM RevocationIsComplete == Spec => []RevocationComplete
<1>1. IInv => RevocationComplete
  BY DEF IInv, Visits, VisitOf, RevocationComplete, Live
<1> QED BY <1>1, Invariance, PTL

(* An access token passes the middleware only under the credential it was  *)
(* issued for.                                                             *)
THEOREM AccessTokensFollowTheCredential == Spec => []AccessFollowsCredential
<1>1. IInv => AccessFollowsCredential
  BY DEF IInv, Versions, Older, AccessFollowsCredential, Passes, Stored
<1> QED BY <1>1, Invariance, PTL

(* The reason of a revocation is never overwritten: the grace window of a  *)
(* rotated token can neither be opened nor closed by a later statement.    *)
THEOREM FirstReasonIsFinal == Spec => FirstReasonStands
<1> USE ConstantsAssumption
<1> DEFINE Stands == \A k \in Tokens : row[k] \in Reasons => row'[k] = row[k]
<1>1. IInv /\ [Next]_vars => [Stands]_vars
  <2> SUFFICES ASSUME IInv, Next PROVE Stands
    OBVIOUS
  <2>1. CASE \E k \in Tokens : WindowEnds(k)
    BY <2>1 DEF WindowEnds
  <2>2. ASSUME NEW t \in Slots,
               Begin(t) \/ ReadToken(t) \/ ReadUser(t) \/ RevokePresented(t) \/ Bump(t)
               \/ Snapshot(t) \/ Visit(t) \/ Flag(t) \/ Fail(t)
        PROVE  Stands
    BY <2>2 DEF Begin, ReadToken, ReadUser, RevokePresented, Bump, Snapshot, Visit, Flag,
                Fail, tokens
  <2>3. ASSUME NEW t \in Slots, Create(t) PROVE Stands
    BY <2>3 DEF Create, Store, IInv, TypeOK, Reasons
  <2>4. ASSUME NEW t \in Slots, CommitRotation(t) PROVE Stands
    <3>1. row[req[t].token] = "live"
      BY <2>4 DEF CommitRotation, IInv, Holders, Holder, Control, ControlOf, Stored
    <3> QED BY <2>4, <3>1 DEF CommitRotation, Store, IInv, TypeOK, Reasons
  <2>5. ASSUME NEW t \in Slots, Revoke(t) PROVE Stands
    BY <2>5 DEF Revoke, IInv, TypeOK, Reasons
  <2>6. ASSUME NEW t \in Slots, CommitRevocation(t) PROVE Stands
    <3>1. \A k \in Tokens : lock[k] = t => row[k] = "live"
      BY DEF IInv, Holders, Holder
    <3> QED BY <2>6, <3>1 DEF CommitRevocation, Reasons
  <2> QED BY <2>1, <2>2, <2>3, <2>4, <2>5, <2>6 DEF Next
<1> QED BY <1>1, Invariance, PTL DEF Spec, FirstReasonStands
-------------------------------------------------------------------------------
(* The line of every family, also of one without tokens: what a token adds *)
(* to the live ones is paid by the token a rotation kills or by the grace  *)
(* window.                                                                 *)
LiveIn(f)   == Members(f) \cap Live
GracedIn(f) == {k \in Members(f) : via[k] = "grace"}
LineOf(f)   == Cardinality(LiveIn(f)) <= 1 + Cardinality(GracedIn(f))
Line        == \A f \in Tokens : LineOf(f)

LEMMA FiniteParts ==
  \A f : /\ IsFiniteSet(LiveIn(f)) /\ Cardinality(LiveIn(f)) \in Nat
         /\ IsFiniteSet(GracedIn(f)) /\ Cardinality(GracedIn(f)) \in Nat
<1> TAKE f
<1>1. IsFiniteSet(Tokens)
  BY ConstantsAssumption, FS_Interval DEF Tokens
<1>2. LiveIn(f) \subseteq Tokens /\ GracedIn(f) \subseteq Tokens
  BY DEF LiveIn, GracedIn, Members, Live, Stored
<1> QED BY <1>1, <1>2, FS_Subset, FS_CardinalityType

(* A family that loses live tokens and no grace token keeps its line.      *)
LEMMA LineShrinks ==
  ASSUME NEW f \in Tokens, LineOf(f), LiveIn(f)' \subseteq LiveIn(f), GracedIn(f)' = GracedIn(f)
  PROVE  LineOf(f)'
<1>1. Cardinality(LiveIn(f)') <= Cardinality(LiveIn(f)) /\ Cardinality(LiveIn(f)') \in Nat
  BY FiniteParts, FS_Subset, FS_CardinalityType
<1> QED BY <1>1, FiniteParts DEF LineOf

(* A step that adds no row and gives life to none keeps every line.        *)
LEMMA LineNoNewRow ==
  ASSUME Line, UNCHANGED <<family, via>>, Stored' = Stored, Live' \subseteq Live
  PROVE  Line'
<1> SUFFICES ASSUME NEW f \in Tokens PROVE LineOf(f)'
  BY DEF Line
<1> QED BY LineShrinks DEF Line, LiveIn, GracedIn, Members

(* Which rows of a family a step that adds k changes.                      *)
LEMMA StoredRow ==
  ASSUME IInv, NEW t \in Slots, NEW k \in Tokens, NEW how \in {"login", "rotation", "grace"},
         Store(t, k, how), Stored' = Stored \cup {k}, NEW f \in Tokens
  PROVE  /\ f # family'[k] => Members(f)' = Members(f)
         /\ f = family'[k] => Members(f)' = Members(f) \cup {k}
         /\ k \notin Members(f) /\ via'[k] = how
         /\ \A j \in Members(f) : via'[j] = via[j]
<1>1. row[k] = "absent" /\ via' = [via EXCEPT ![k] = how] /\ \A j \in Tokens \ {k} : family'[j] = family[j]
  BY DEF Store, IInv, TypeOK
<1>2. k \notin Stored /\ Stored \subseteq Tokens
  BY <1>1 DEF Stored
<1> QED BY <1>1, <1>2 DEF IInv, TypeOK, Members

LEMMA CreateLine == ASSUME IInv, Line, NEW t \in Slots, Create(t) PROVE Line'
<1> USE ConstantsAssumption
<1> DEFINE p   == req[t].token
           how == IF p = None THEN "login" ELSE "grace"
<1>1. PICK k \in Tokens : Store(t, k, how) /\ row' = [row EXCEPT ![k] = "live"]
  BY DEF Create
<1>2. row[k] = "absent" /\ family' = [family EXCEPT ![k] = IF p = None THEN k ELSE family[p]]
  BY <1>1 DEF Store
<1>3. \A j \in Tokens : row'[j] = IF j = k THEN "live" ELSE row[j]
  BY <1>1 DEF IInv, TypeOK
<1>4. Stored' = Stored \cup {k} /\ Live' = Live \cup {k} /\ k \notin Live
  BY <1>2, <1>3 DEF Stored, Live
<1> SUFFICES ASSUME NEW f \in Tokens PROVE LineOf(f)'
  BY DEF Line
<1>5. /\ f # family'[k] => Members(f)' = Members(f)
      /\ f = family'[k] => Members(f)' = Members(f) \cup {k}
      /\ k \notin Members(f) /\ via'[k] = how
      /\ \A j \in Members(f) : via'[j] = via[j]
  BY <1>1, <1>4, StoredRow
<1>6. CASE f # family'[k]
  <2>1. LiveIn(f)' = LiveIn(f) /\ GracedIn(f)' = GracedIn(f)
    BY <1>4, <1>5, <1>6 DEF LiveIn, GracedIn
  <2> QED BY <2>1, LineShrinks DEF Line
<1>7. CASE f = family'[k] /\ p # None
  <2>1. LiveIn(f)' = LiveIn(f) \cup {k} /\ GracedIn(f)' = GracedIn(f) \cup {k}
    BY <1>4, <1>5, <1>7 DEF LiveIn, GracedIn
  <2>2. k \notin LiveIn(f) /\ k \notin GracedIn(f)
    BY <1>4, <1>5 DEF LiveIn, GracedIn
  <2>3. /\ Cardinality(LiveIn(f)') = Cardinality(LiveIn(f)) + 1
        /\ Cardinality(GracedIn(f)') = Cardinality(GracedIn(f)) + 1
    BY <2>1, <2>2, FiniteParts, FS_AddElement
  <2> QED BY <2>3, FiniteParts DEF Line, LineOf
<1>8. CASE f = family'[k] /\ p = None
  <2>1. f = k
    BY <1>2, <1>8 DEF IInv, TypeOK
  <2>2. Members(f) = {}
    BY <1>2, <2>1 DEF IInv, Families, Members, Stored
  <2>3. LiveIn(f)' = {k} /\ GracedIn(f)' = {}
    BY <1>4, <1>5, <1>8, <2>2 DEF LiveIn, GracedIn
  <2>4. Cardinality({k}) = 1 /\ Cardinality({}) = 0
    BY FS_Singleton, FS_EmptySet, Zenon
  <2> QED BY <2>3, <2>4 DEF LineOf
<1> QED BY <1>6, <1>7, <1>8

LEMMA CommitRotationLine == ASSUME IInv, Line, NEW t \in Slots, CommitRotation(t) PROVE Line'
<1> USE ConstantsAssumption
<1> DEFINE p == req[t].token
<1>1. PICK k \in Tokens : /\ Store(t, k, "rotation")
                          /\ row' = [row EXCEPT ![p] = "token_refresh", ![k] = "live"]
  BY DEF CommitRotation
<1>2. row[k] = "absent" /\ family' = [family EXCEPT ![k] = IF p = None THEN k ELSE family[p]]
  BY <1>1 DEF Store
<1>3. /\ p \in Tokens /\ p # None /\ row[p] = "live" /\ p # k
  BY <1>2 DEF CommitRotation, IInv, Control, ControlOf, Holders, Holder, Stored
<1>4. \A j \in Tokens :
        row'[j] = IF j = k THEN "live" ELSE IF j = p THEN "token_refresh" ELSE row[j]
  BY <1>1, <1>3 DEF IInv, TypeOK
<1>5. Stored' = Stored \cup {k}
  BY <1>2, <1>3, <1>4 DEF Stored
<1>6. Live' = (Live \ {p}) \cup {k} /\ k \notin Live /\ p \in Live /\ p \in Stored
  BY <1>2, <1>3, <1>4 DEF Live, Stored
<1> SUFFICES ASSUME NEW f \in Tokens PROVE LineOf(f)'
  BY DEF Line
<1>7. /\ f # family'[k] => Members(f)' = Members(f)
      /\ f = family'[k] => Members(f)' = Members(f) \cup {k}
      /\ k \notin Members(f) /\ via'[k] = "rotation"
      /\ \A j \in Members(f) : via'[j] = via[j]
  BY <1>1, <1>5, StoredRow
<1>8. GracedIn(f)' = GracedIn(f)
  BY <1>7 DEF GracedIn
<1>9. CASE f # family'[k]
  <2>1. LiveIn(f)' \subseteq LiveIn(f)
    BY <1>6, <1>7, <1>9 DEF LiveIn
  <2> QED BY <1>8, <2>1, LineShrinks DEF Line
<1>10. CASE f = family'[k]
  <2>1. p \in LiveIn(f)
    BY <1>2, <1>3, <1>6, <1>10 DEF IInv, TypeOK, LiveIn, Members
  <2>2. LiveIn(f)' = (LiveIn(f) \ {p}) \cup {k} /\ k \notin LiveIn(f)
    BY <1>3, <1>6, <1>7, <1>10 DEF LiveIn
  <2>3. /\ IsFiniteSet(LiveIn(f) \ {p})
        /\ Cardinality(LiveIn(f) \ {p}) = Cardinality(LiveIn(f)) - 1
    BY <2>1, FiniteParts, FS_RemoveElement
  <2>4. Cardinality((LiveIn(f) \ {p}) \cup {k}) = Cardinality(LiveIn(f) \ {p}) + 1
    BY <2>2, <2>3, FS_AddElement, Zenon
  <2>5. Cardinality(LiveIn(f)') = Cardinality(LiveIn(f))
    BY <2>2, <2>3, <2>4, FiniteParts
  <2> QED BY <1>8, <2>5 DEF Line, LineOf
<1> QED BY <1>9, <1>10

LEMMA NextLine == IInv /\ Line /\ [Next]_vars => Line'
<1> SUFFICES ASSUME IInv, Line, [Next]_vars PROVE Line'
  OBVIOUS
<1>1. CASE UNCHANGED <<row, family, via>>
  BY <1>1, LineNoNewRow DEF Stored, Live
<1>2. ASSUME NEW t \in Slots, Revoke(t) \/ CommitRevocation(t) PROVE Line'
  <2>1. UNCHANGED <<family, via>> /\ \A k \in Tokens : row'[k] = row[k] \/ (row[k] = "live" /\ row'[k] \in Reasons)
    <3>1. CASE Revoke(t)
      BY <3>1 DEF Revoke, IInv, TypeOK, Reasons
    <3>2. CASE CommitRevocation(t)
      <4>1. \A k \in Tokens : lock[k] = t => row[k] = "live"
        BY ConstantsAssumption DEF IInv, Holders, Holder
      <4> QED BY <3>2, <4>1 DEF CommitRevocation, Reason, Reasons
    <3> QED BY <1>2, <3>1, <3>2
  <2>2. Stored' = Stored /\ Live' \subseteq Live
    BY <2>1 DEF Stored, Live, Reasons
  <2> QED BY <2>1, <2>2, LineNoNewRow
<1>3. ASSUME NEW t \in Slots,
             Begin(t) \/ ReadToken(t) \/ ReadUser(t) \/ RevokePresented(t) \/ Bump(t)
             \/ Snapshot(t) \/ Visit(t) \/ Flag(t) \/ Fail(t)
      PROVE  UNCHANGED <<row, family, via>>
  BY <1>3 DEF Begin, ReadToken, ReadUser, RevokePresented, Bump, Snapshot, Visit, Flag,
              Fail, tokens
<1>4. CASE \E k \in Tokens : WindowEnds(k)
  BY <1>1, <1>4 DEF WindowEnds
<1> QED BY <1>1, <1>2, <1>3, <1>4, CreateLine, CommitRotationLine DEF Next, vars, tokens

(* However many tabs refresh at once, a login never has two lines of       *)
(* tokens: all live tokens but one were issued by the grace window.        *)
THEOREM OneLinePerLogin == Spec => []FamilyLine
<1>1. Init => Line
  <2> SUFFICES ASSUME Init, NEW f \in Tokens PROVE LineOf(f)
    BY DEF Line
  <2>1. LiveIn(f) \subseteq {1}
    BY DEF Init, LiveIn, Live
  <2>2. IsFiniteSet({1}) /\ Cardinality({1}) = 1
    BY FS_Singleton, Zenon
  <2>3. Cardinality(LiveIn(f)) <= Cardinality({1})
    BY <2>1, <2>2, FS_Subset, Zenon
  <2> QED BY <2>2, <2>3, FiniteParts DEF LineOf
<1>2. Line => FamilyLine
  BY DEF Line, LineOf, LiveIn, GracedIn, FamilyLine
<1>3. Spec => []Line
  BY <1>1, NextLine, Invariance, PTL DEF Spec
<1> QED BY <1>2, <1>3, PTL
=============================================================================
