----------------------------- MODULE QuickAccess -----------------------------
(***************************************************************************)
(* Quick Access: the accounts a device remembers (AccountManager), whether *)
(* the device is trusted, and everything that writes them. The list is     *)
(* kept newest first, which is what saved_at says; an entry the program    *)
(* did not write (normalizeStoredAccount) is left out.                     *)
(***************************************************************************)
EXTENDS Naturals, Sequences, FiniteSets, Functions

CONSTANTS Accounts, MAX_ACCOUNTS

ASSUME QuickAccessAssumption == MAX_ACCOUNTS \in Nat \ {0}

VARIABLES
  accounts,    \* dashpoint_saved_accounts, newest first
  trusted,     \* dashpoint_device_trusted
  (* history *)
  saved,       \* accounts saved on request and not taken out on purpose since
  since        \* who signed in or was saved after the account's last request

quickVars == <<accounts, trusted, saved, since>>

Device == [accounts |-> accounts, trusted |-> trusted]
QuickInit ==
  /\ accounts = <<>> /\ trusted = FALSE
  /\ saved = {} /\ since = [u \in Accounts |-> {}]
-----------------------------------------------------------------------------
(* filter: the n-th account of what is left is the one with n kept up to   *)
(* its place.                                                              *)
KeptTo(list, u, i) == Cardinality({j \in 1..i : list[j] # u})
Nth(list, u, n)  == CHOOSE i \in DOMAIN list : list[i] # u /\ KeptTo(list, u, i) = n
removeAccount(list, u) ==
  [n \in 1..KeptTo(list, u, Len(list)) |-> list[Nth(list, u, n)]]

Newest(list) == IF Len(list) > MAX_ACCOUNTS THEN SubSeq(list, 1, MAX_ACCOUNTS) ELSE list

(* Mutant: an account saved again is not taken out first.                  *)
PrependOnly(list, u) == Newest(<<u>> \o list)
saveAccount(list, u) == Newest(<<u>> \o removeAccount(list, u))

getAccount(list, u) == u \in Range(list)

resolveSaveAccountPreference(list, u, save) ==
  save = "yes" \/ (save = "same" /\ getAccount(list, u))

(* syncSavedAccount leaves an account without a PIN as it is.              *)
persistAuthUser(device, u, pin, save) ==
  IF resolveSaveAccountPreference(device.accounts, u, save)
    THEN [accounts |-> IF pin THEN saveAccount(device.accounts, u) ELSE device.accounts,
          trusted |-> TRUE]
    ELSE [accounts |-> removeAccount(device.accounts, u), trusted |-> FALSE]

(* handleSave: with or without a PIN.                                      *)
ToggleQuickAccess(device, u, save) ==
  IF save = "yes"
    THEN [accounts |-> saveAccount(device.accounts, u), trusted |-> TRUE]
    ELSE [accounts |-> removeAccount(device.accounts, u), trusted |-> FALSE]

(* captureDeviceSessionState, log in, restoreDeviceSessionState.           *)
(* Mutant: the state is captured after the log in.                         *)
CapturedLate(before, after) == after
Captured(before, after) == before
Verify(device, u, pin) ==
  LET after == persistAuthUser(device, u, pin, "same")
      state == Captured(device, after) IN
  [accounts |-> IF getAccount(state.accounts, u) THEN saveAccount(after.accounts, u)
                ELSE removeAccount(after.accounts, u),
   trusted  |-> state.trusted]

(* shouldRemoveSavedAccountAfterPINFailure, handleRemoveAccount.           *)
Forget(device, u) == [device EXCEPT !.accounts = removeAccount(@, u)]

-----------------------------------------------------------------------------
(* The device becomes as given; u, who is signed in, was saved on request, *)
(* taken out on purpose, or neither.                                       *)
Becomes(device, u, wish) ==
  /\ accounts' = device.accounts /\ trusted' = device.trusted
  /\ saved' = CASE wish = "yes" -> saved \cup {u}
                 [] wish = "no"  -> saved \ {u}
                 [] OTHER        -> saved
  /\ since' = [v \in Accounts |-> IF v # u THEN since[v] \cup {u}
                                  ELSE IF wish = "yes" THEN {} ELSE since[v]]

(* A log in, PIN login, refresh or /me of u, with the preference asked for *)
(* or "same" for what the device has.                                      *)
Persist(u) ==
  \E pin \in BOOLEAN, save \in {"yes", "no", "same"} :
    Becomes(persistAuthUser(Device, u, pin, save), u,
            IF save = "yes" /\ ~pin THEN "same" ELSE save)

ToggleSettings(u) == \E save \in {"yes", "no"} : Becomes(ToggleQuickAccess(Device, u, save), u, save)

CheckPassword(u) == \E pin \in BOOLEAN : Becomes(Verify(Device, u, pin), u, "same")

(* A PIN refused for good, or the x beside the account.                    *)
TakeOut(u) ==
  /\ accounts' = Forget(Device, u).accounts /\ saved' = saved \ {u}
  /\ UNCHANGED <<trusted, since>>

QuickNext ==
  \E u \in Accounts : Persist(u) \/ ToggleSettings(u) \/ CheckPassword(u) \/ TakeOut(u)
QuickSpec == QuickInit /\ [][QuickNext]_quickVars
-----------------------------------------------------------------------------
(* Whatever log ins, refreshes, refusals and removals came before, Quick   *)
(* Access lists an account once, MAX_ACCOUNTS at most, only if it was      *)
(* saved on request and not refused or removed since, and leaves such a    *)
(* one out only when at least MAX_ACCOUNTS others were there since. The    *)
(* settings' check of a password leaves "remembered-device state exactly   *)
(* as they were", but for the order.                                       *)
QuickAccessRight ==
  /\ IsInjective(accounts) /\ Len(accounts) <= MAX_ACCOUNTS
  /\ \A u \in Accounts :
       /\ u \in Range(accounts) => u \in saved
       /\ u \in saved => \/ u \in Range(accounts)
                         \/ Cardinality(since[u]) >= MAX_ACCOUNTS
       /\ \A pin \in BOOLEAN :
            LET verified == Verify(Device, u, pin) IN
            /\ Range(verified.accounts) = Range(accounts)
            /\ verified.trusted = trusted
=============================================================================
