----------------------------- MODULE AuthProofs -----------------------------
(***************************************************************************)
(* The account row under any number of programs, commands and sign-ins:    *)
(* its type, the refresh token of the last sign-in, and the pairs that     *)
(* reference it.  The two safety properties are inductive together with    *)
(* the types.                                                              *)
(***************************************************************************)
EXTENDS Auth, TLAPS

AuthInv == AuthTypeOK /\ LastSignInStays /\ PairsHaveAccount

THEOREM InitAuth == Init => AuthInv
BY BoundAssumption DEF Init, AuthInv, AuthTypeOK, LastSignInStays, PairsHaveAccount

\* The steps of a client between two awaits change only where it is.
LEMMA WaitType ==
  ASSUME AuthTypeOK, NEW c \in Client,
         \/ \E stage \in {"asking", "asked", "answered"}, id \in Grant, g \in Grant :
               Wait(c, stage, id, g)
         \/ Leave(c)
  PROVE  client' \in [Client -> Waiting \cup {Idle}]
<1>1. CASE Leave(c)
      BY <1>1 DEF Leave, AuthTypeOK
<1>2. ASSUME NEW stage \in {"asking", "asked", "answered"}, NEW id \in Grant, NEW g \in Grant,
             Wait(c, stage, id, g)
      PROVE  client' \in [Client -> Waiting \cup {Idle}]
      BY <1>2 DEF Wait, Waiting, AuthTypeOK
<1> QED BY <1>1, <1>2

LEMMA ClientKnows ==
  ASSUME AuthTypeOK, NEW c \in Client, client[c].stage \in {"asking", "asked", "answered"}
  PROVE  client[c].id \in Grant /\ client[c].grant \in Grant
BY DEF AuthTypeOK, Waiting, Idle

LEMMA RowType ==
  ASSUME AuthTypeOK, account # None
  PROVE  account \in Account /\ account.id \in Grant /\ account.refresh \in Grant
BY DEF AuthTypeOK, Account

LEMMA DeskType ==
  ASSUME AuthTypeOK, NEW d \in Desk
  PROVE  /\ desk[d] # None => /\ desk[d].op = "login" => desk[d].grant \in Grant
                              /\ desk[d].op # "login" => /\ desk[d].id \in Grant
                                                         /\ desk[d].grant \in Grant \cup {None}
         /\ Finish(d) => desk' \in [Desk -> Command \cup {None}]
         /\ \A g \in Grant :
              Start(d, "login", None, g) => desk' \in [Desk -> Command \cup {None}]
         /\ \A op \in {"reconnect", "remove"}, id \in Grant, g \in Grant \cup {None} :
              Start(d, op, id, g) => desk' \in [Desk -> Command \cup {None}]
BY DEF AuthTypeOK, Command, Finish, Start

LEMMA FaultType ==
  ASSUME AuthTypeOK, Fault
  PROVE  faults' \in 0..MaxFaults
BY BoundAssumption DEF AuthTypeOK, Fault

THEOREM NextAuth == AuthInv /\ [Next]_vars => AuthInv'
<1> SUFFICES ASSUME AuthInv, [Next]_vars PROVE AuthInv'
    OBVIOUS
<1> USE DEF AuthInv
<1>0. CASE UNCHANGED vars
      BY <1>0 DEF vars, AuthTypeOK, LastSignInStays, PairsHaveAccount
<1>1. ASSUME NEW d \in Desk, LoginFlow(d) PROVE AuthInv'
      BY <1>1, DeskType DEF LoginFlow, Authorize, AuthTypeOK, LastSignInStays, PairsHaveAccount
<1>2. ASSUME NEW d \in Desk, LoginInsert(d) PROVE AuthInv'
  <2>1. desk[d].grant \in Grant /\ desk' \in [Desk -> Command \cup {None}]
        BY <1>2, DeskType DEF LoginInsert
  <2>2. CASE account = None
    <3>1. /\ account' = [id |-> desk[d].grant, access |-> desk[d].grant,
                         refresh |-> desk[d].grant, due |-> FALSE]
          /\ chosen' = desk[d].grant
          BY <1>2, <2>2 DEF LoginInsert
    <3>2. account' \in Account /\ account'.refresh = desk[d].grant
          BY <2>1, <3>1 DEF Account
    <3>3. account' # None
          BY <3>2, RowAssumption
    <3> QED BY <1>2, <2>1, <3>1, <3>2, <3>3
            DEF LoginInsert, AuthTypeOK, LastSignInStays, PairsHaveAccount
  <2>3. CASE account # None
        BY <1>2, <2>1, <2>3 DEF LoginInsert, AuthTypeOK, LastSignInStays, PairsHaveAccount
  <2> QED BY <2>2, <2>3
<1>3. ASSUME NEW d \in Desk, ReconnectRead(d) \/ Logout(d) \/ RemoveCount(d) PROVE AuthInv'
      BY <1>3, DeskType, RowType
      DEF ReconnectRead, Logout, RemoveCount, AuthTypeOK, LastSignInStays, PairsHaveAccount
<1>4. ASSUME NEW d \in Desk, ReconnectFlow(d) PROVE AuthInv'
      BY <1>4, DeskType
      DEF ReconnectFlow, Reconnecting, Authorize, AuthTypeOK, LastSignInStays, PairsHaveAccount
<1>5. ASSUME NEW d \in Desk, CommandFails(d) PROVE AuthInv'
      BY <1>5, DeskType DEF CommandFails, AuthTypeOK, LastSignInStays, PairsHaveAccount
<1>6. ASSUME NEW d \in Desk, ReconnectWrite(d) PROVE AuthInv'
  <2>1. desk[d].grant \in Grant /\ desk' \in [Desk -> Command \cup {None}]
        BY <1>6, DeskType DEF ReconnectWrite, Reconnecting
  <2>2. CASE account # None /\ account.id = desk[d].id
    <3>1. /\ account' \in Account /\ account'.refresh = desk[d].grant
          /\ account' # None /\ chosen' = desk[d].grant
          BY <1>6, <2>1, <2>2, RowType, RowAssumption DEF ReconnectWrite, Account
    <3> QED BY <1>6, <2>1, <3>1
            DEF ReconnectWrite, AuthTypeOK, LastSignInStays, PairsHaveAccount
  <2>3. CASE ~(account # None /\ account.id = desk[d].id)
        BY <1>6, <2>1, <2>3 DEF ReconnectWrite, AuthTypeOK, LastSignInStays, PairsHaveAccount
  <2> QED BY <2>2, <2>3
<1>7. ASSUME NEW d \in Desk, Delete(d) PROVE AuthInv'
      BY <1>7, DeskType DEF Delete, Deletable, AuthTypeOK, LastSignInStays, PairsHaveAccount
<1>8. ASSUME NEW c \in Client, GetValidToken(c) \/ SendRefresh(c) \/ Exchange(c) PROVE AuthInv'
  <2>1. client' \in [Client -> Waiting \cup {Idle}]
        BY <1>8, WaitType, ClientKnows, RowType DEF GetValidToken, SendRefresh, SentGrant, Exchange
  <2> QED BY <1>8, <2>1 
          DEF GetValidToken, SendRefresh, Exchange, AuthTypeOK, LastSignInStays, PairsHaveAccount
<1>9. ASSUME NEW c \in Client, StoreTokens(c) PROVE AuthInv'
  <2>1. client' \in [Client -> Waiting \cup {Idle}] /\ client[c].grant \in Grant
        BY <1>9, WaitType, ClientKnows DEF StoreTokens
  <2>2. CASE account # None /\ account.id = client[c].id
    <3>1. account' \in Account /\ account'.refresh = account.refresh /\ account' # None
          BY <1>9, <2>1, <2>2, RowType, RowAssumption DEF StoreTokens, Refreshed, Account
    <3> QED BY <1>9, <2>1, <2>2, <3>1
            DEF StoreTokens, AuthTypeOK, LastSignInStays, PairsHaveAccount
  <2>3. CASE ~(account # None /\ account.id = client[c].id)
        BY <1>9, <2>1, <2>3 DEF StoreTokens, AuthTypeOK, LastSignInStays, PairsHaveAccount
  <2> QED BY <2>2, <2>3
<1>10. ASSUME NEW p \in Pair, AddPair(p) \/ DeletePair(p) PROVE AuthInv'
       BY <1>10 DEF AddPair, DeletePair, AuthTypeOK, LastSignInStays, PairsHaveAccount
<1>11. CASE Expire
  <2>1. account' \in Account /\ account'.refresh = account.refresh /\ account' # None
        BY <1>11, RowType, RowAssumption DEF Expire, Account
  <2> QED BY <1>11, <2>1
          DEF Expire, AuthTypeOK, LastSignInStays, PairsHaveAccount
<1>12. ASSUME NEW g \in Grant, Revoke(g) PROVE AuthInv'
       BY <1>12 DEF Revoke, AuthTypeOK, LastSignInStays, PairsHaveAccount
<1>13. ASSUME NEW c \in Client, RefreshFails(c) PROVE AuthInv'
       BY <1>13, FaultType, WaitType
       DEF RefreshFails, AuthTypeOK, LastSignInStays, PairsHaveAccount
<1> QED BY <1>0, <1>1, <1>2, <1>3, <1>4, <1>5, <1>6, <1>7, <1>8, <1>9, <1>10, <1>11, <1>12,
           <1>13
        DEF Next, Commands, Refreshing

(***************************************************************************)
(* For any number of programs, windows and sign-ins, the account row, the  *)
(* refreshes under way and the commands keep their types.                  *)
(***************************************************************************)
THEOREM AuthTypeTheorem == Spec => []AuthTypeOK
<1>1. AuthInv => AuthTypeOK
      BY DEF AuthInv
<1> QED BY InitAuth, NextAuth, <1>1, PTL DEF Spec

(***************************************************************************)
(* The refresh token in the row is that of the sign-in the user made last, *)
(* however many refreshes of older grants come back late (StoreTokens      *)
(* keeps the refresh token, ReconnectWrite and LoginInsert replace it).    *)
(***************************************************************************)
THEOREM AuthTheorem == Spec => []LastSignInStays
<1>1. AuthInv => LastSignInStays
      BY DEF AuthInv
<1> QED BY InitAuth, NextAuth, <1>1, PTL DEF Spec

(***************************************************************************)
(* No pair is left without the account it syncs with: removing an account  *)
(* counts the pairs first, and if one is added between the count and the   *)
(* delete, the foreign key refuses the delete.                             *)
(***************************************************************************)
THEOREM PairsTheorem == Spec => []PairsHaveAccount
<1>1. AuthInv => PairsHaveAccount
      BY DEF AuthInv
<1> QED BY InitAuth, NextAuth, <1>1, PTL DEF Spec
=============================================================================
