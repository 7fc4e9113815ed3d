-------------------------------- MODULE Auth --------------------------------
(***************************************************************************)
(* The stored Google account: signing in, reconnecting and removing it,    *)
(* while other programs on the same database ask for access tokens and     *)
(* refresh them.  Every operation reads the row, waits for Google or the   *)
(* browser, and writes; nothing holds the row meanwhile.                   *)
(***************************************************************************)
EXTENDS Naturals

CONSTANTS
  Client,     \* the Drive clients that ask for tokens
  Desk,       \* the sign-in windows and commands a user may have open
  Grant,      \* the authorizations Google ever gives (a bound)
  Pair,       \* sync pairs of the account
  MaxFaults,  \* bound on refreshes that fail with a good grant
  None

ASSUME NoneAssumption == None \notin Grant
ASSUME BoundAssumption == MaxFaults \in Nat

VARIABLES
  account,    \* the row: its id, the grants its two tokens come from, whether the
              \* access token is within five minutes of its expiry; or None
  pairs,      \* the rows of sync_pairs that reference the account
  issued,     \* grants Google has given
  revoked,    \* grants the user has withdrawn at Google
  client,     \* get_valid_token per client, between two awaits
  desk,       \* the account command at each desk, between two awaits
  faults      \* such refreshes so far

\* History: the grant the user gave last that the row was written with.
VARIABLE chosen

vars == <<account, pairs, issued, revoked, client, desk, faults, chosen>>

Account == [id : Grant, access : Grant, refresh : Grant, due : BOOLEAN]
ASSUME RowAssumption == None \notin Account
\* "asking": the token is due; "asked": the refresh token is with Google; "answered".
Waiting == [stage : {"asking", "asked", "answered"}, id : Grant, grant : Grant]
Command == [op : {"login"}, id : {None}, grant : Grant]
             \cup [op : {"reconnect", "remove"}, id : Grant, grant : Grant \cup {None}]

Idle == [stage |-> "idle"]

AuthTypeOK ==
  /\ account \in Account \cup {None}
  /\ pairs \subseteq Pair /\ issued \subseteq Grant /\ revoked \subseteq issued
  /\ client \in [Client -> Waiting \cup {Idle}]
  /\ desk \in [Desk -> Command \cup {None}]
  /\ faults \in 0..MaxFaults
  /\ chosen \in Grant \cup {None}

Init ==
  /\ account = None /\ pairs = {} /\ issued = {} /\ revoked = {}
  /\ client = [c \in Client |-> Idle]
  /\ desk = [d \in Desk |-> None]
  /\ faults = 0 /\ chosen = None

-----------------------------------------------------------------------------
(***************************************************************************)
(* The account commands.  The id of a new account is a fresh uuid: here    *)
(* the grant it was made with.                                             *)
(***************************************************************************)
Start(d, op, id, g) == desk' = [desk EXCEPT ![d] = [op |-> op, id |-> id, grant |-> g]]
Finish(d) == desk' = [desk EXCEPT ![d] = None]

\* Grants are interchangeable: Google gives them in one order.
NextGrant == CHOOSE g \in Grant : g \notin issued

\* run_oauth_flow: the browser, the code and the exchange.
Authorize(d, g) ==
  /\ g \notin issued /\ g = NextGrant
  /\ issued' = issued \cup {g}
  /\ UNCHANGED <<account, pairs, revoked, client, faults, chosen>>

LoginFlow(d) ==
  /\ desk[d] = None
  /\ \E g \in Grant : Authorize(d, g) /\ Start(d, "login", None, g)

\* email is UNIQUE: the insert fails if the account is there by now.
LoginInsert(d) ==
  /\ desk[d] # None /\ desk[d].op = "login"
  /\ LET g == desk[d].grant
     IN IF account = None
        THEN account' = [id |-> g, access |-> g, refresh |-> g, due |-> FALSE] /\ chosen' = g
        ELSE UNCHANGED <<account, chosen>>
  /\ Finish(d)
  /\ UNCHANGED <<pairs, issued, revoked, client, faults>>

ReconnectRead(d) ==
  /\ desk[d] = None /\ account # None
  /\ Start(d, "reconnect", account.id, None)
  /\ UNCHANGED <<account, pairs, issued, revoked, client, faults, chosen>>

Reconnecting(d) == desk[d] # None /\ desk[d].op = "reconnect"

ReconnectFlow(d) ==
  /\ Reconnecting(d) /\ desk[d].grant = None
  /\ \E g \in Grant : Authorize(d, g) /\ Start(d, "reconnect", desk[d].id, g)

\* A command ends early: the browser is closed, the user signs in with another email,
\* fetch_user_info or the write fails, or the program dies.
CommandFails(d) ==
  /\ desk[d] # None
  /\ Finish(d)
  /\ UNCHANGED <<account, pairs, issued, revoked, client, faults, chosen>>

\* Account::update_credentials: no row of that id, no effect.
ReconnectWrite(d) ==
  /\ Reconnecting(d) /\ desk[d].grant # None
  /\ LET g == desk[d].grant
     IN IF account # None /\ account.id = desk[d].id
        THEN account' = [account EXCEPT !.access = g, !.refresh = g, !.due = FALSE] /\ chosen' = g
        ELSE UNCHANGED <<account, chosen>>
  /\ Finish(d)
  /\ UNCHANGED <<pairs, issued, revoked, client, faults>>

\* remove_account counts the pairs first; the desktop's logout does not.
RemoveCount(d) ==
  /\ desk[d] = None /\ account # None
  /\ pairs = {}
  /\ Start(d, "remove", account.id, None)
  /\ UNCHANGED <<account, pairs, issued, revoked, client, faults, chosen>>

Logout(d) ==
  /\ desk[d] = None /\ account # None
  /\ Start(d, "remove", account.id, None)
  /\ UNCHANGED <<account, pairs, issued, revoked, client, faults, chosen>>

\* Mutant: the row goes whoever references it.
DeletableAlways(id) == account # None /\ account.id = id

\* Account::delete; a pair that references the row makes it fail (foreign_keys is on).
Deletable(id) == account # None /\ account.id = id /\ pairs = {}

Delete(d) ==
  /\ desk[d] # None /\ desk[d].op = "remove"
  /\ account' = IF Deletable(desk[d].id) THEN None ELSE account
  /\ Finish(d)
  /\ UNCHANGED <<pairs, issued, revoked, client, faults, chosen>>

\* SyncPair::insert fails without the account it references.
AddPair(p) ==
  /\ account # None
  /\ p \notin pairs /\ pairs' = pairs \cup {p}
  /\ UNCHANGED <<account, issued, revoked, client, desk, faults, chosen>>

DeletePair(p) ==
  /\ p \in pairs /\ pairs' = pairs \ {p}
  /\ UNCHANGED <<account, issued, revoked, client, desk, faults, chosen>>

-----------------------------------------------------------------------------
(***************************************************************************)
(* get_valid_token and refresh_token.                                      *)
(***************************************************************************)
Wait(c, stage, id, g) ==
  client' = [client EXCEPT ![c] = [stage |-> stage, id |-> id, grant |-> g]]

\* Mutant: what a finished request knew is not forgotten.
LeaveTraces(c) == client' = [client EXCEPT ![c].stage = "idle"]

Leave(c) == client' = [client EXCEPT ![c] = Idle]

\* A token that is not due is handed out as it is, which changes nothing.
GetValidToken(c) ==
  /\ client[c] = Idle
  /\ account # None /\ account.due
  /\ Wait(c, "asking", account.id, account.refresh)
  /\ UNCHANGED <<account, pairs, issued, revoked, desk, faults, chosen>>

\* Mutant: the columns of the two tokens are mixed up.
SentGrantMixed == account.access

\* What is sent to Google: the refresh token of the row.
SentGrant == account.refresh

\* refresh_token reads the row once more.
SendRefresh(c) ==
  /\ client[c].stage = "asking"
  /\ IF account # None /\ account.id = client[c].id
     THEN Wait(c, "asked", account.id, SentGrant)
     ELSE Leave(c)
  /\ UNCHANGED <<account, pairs, issued, revoked, desk, faults, chosen>>

\* Google answers with a new access token unless the grant is withdrawn.
Exchange(c) ==
  /\ client[c].stage = "asked"
  /\ \/ client[c].grant \notin revoked /\ Wait(c, "answered", client[c].id, client[c].grant)
     \/ client[c].grant \in revoked /\ Leave(c)
  /\ UNCHANGED <<account, pairs, issued, revoked, desk, faults, chosen>>

\* Mutant: the refresh token that was read is written back too.
RefreshedWhole(g) == [account EXCEPT !.access = g, !.refresh = g, !.due = FALSE]

\* Account::update_tokens leaves the refresh token alone.
Refreshed(g) == [account EXCEPT !.access = g, !.due = FALSE]

StoreTokens(c) ==
  /\ client[c].stage = "answered"
  /\ account' = IF account # None /\ account.id = client[c].id THEN Refreshed(client[c].grant)
                ELSE account
  /\ Leave(c)
  /\ UNCHANGED <<pairs, issued, revoked, desk, faults, chosen>>

\* The stored expiry comes near, whatever has become of the token's grant.
Expire ==
  /\ account # None /\ ~account.due
  /\ account' = [account EXCEPT !.due = TRUE]
  /\ UNCHANGED <<pairs, issued, revoked, client, desk, faults, chosen>>

\* A request fails although the grant is good, its answer is lost, writing the row fails,
\* or the program dies.
Fault == faults < MaxFaults /\ faults' = faults + 1

RefreshFails(c) ==
  /\ client[c] # Idle
  /\ Fault
  /\ Leave(c)
  /\ UNCHANGED <<account, pairs, issued, revoked, desk, chosen>>

Revoke(g) ==
  /\ g \in issued \ revoked
  /\ revoked' = revoked \cup {g}
  /\ UNCHANGED <<account, pairs, issued, client, desk, faults, chosen>>

-----------------------------------------------------------------------------
Commands(d) ==
  \/ LoginFlow(d) \/ LoginInsert(d) \/ ReconnectRead(d) \/ ReconnectFlow(d)
  \/ CommandFails(d) \/ ReconnectWrite(d) \/ RemoveCount(d) \/ Logout(d) \/ Delete(d)

Refreshing(c) == GetValidToken(c) \/ SendRefresh(c) \/ Exchange(c) \/ StoreTokens(c)

Next ==
  \/ \E d \in Desk : Commands(d)
  \/ \E c \in Client : Refreshing(c) \/ RefreshFails(c)
  \/ \E p \in Pair : AddPair(p) \/ DeletePair(p)
  \/ Expire
  \/ \E g \in Grant : Revoke(g)

Spec == Init /\ [][Next]_vars

\* Cycles keep asking for tokens, a request that is out returns, and time passes.  Only
\* finitely many requests fail: an account behind a Drive that never answers does not heal.
FairSpec == Spec /\ WF_vars(Expire) /\ \A c \in Client : WF_vars(Refreshing(c))

-----------------------------------------------------------------------------
(***************************************************************************)
(* Properties.                                                             *)
(***************************************************************************)

(***************************************************************************)
(* The refresh token is the one of the last sign-in that was stored: a     *)
(* refresh that was under way during a reconnect, possibly of another      *)
(* program, does not bring the old one back (update_tokens).               *)
(***************************************************************************)
LastSignInStays == account # None => account.refresh = chosen

(***************************************************************************)
(* A pair always has its account, also when the pair is added by another   *)
(* program after remove_account has counted, or when the desktop logs out  *)
(* without counting (remove_account, logout, REFERENCES accounts).         *)
(***************************************************************************)
PairsHaveAccount == pairs # {} => account # None

(***************************************************************************)
(* An account whose last sign-in is good comes to hold a good access token *)
(* again and keeps it, although a late refresh may have stored one of a    *)
(* withdrawn grant over it, and refreshes of the good grant may have       *)
(* failed (get_valid_token, refresh_token).                                *)
(***************************************************************************)
GoodSignInHeals ==
  <>[](account # None /\ account.refresh \notin revoked)
    => <>[](account # None /\ account.access \notin revoked)
=============================================================================
