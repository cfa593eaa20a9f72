---------------------------- MODULE AdminProofs ----------------------------
(***************************************************************************)
(* The administrative side, for every set of merchants, wallets, keys,     *)
(* passwords and requests and any session length: an invoice has terms,    *)
(* wallet and owner that were right while its request ran, and nothing is  *)
(* administered without a recent login.                                    *)
(***************************************************************************)
EXTENDS AdminApi, TLAPS

USE AdminAssumption

\* A key belongs to a merchant that exists, or was never made.
KeysOwned ==
    \A k \in Keys : IF keys[k].merchant = Nothing THEN keys[k] = NoKey
                    ELSE merchants[keys[k].merchant] # Nothing

\* A cookie was set by a login SessionTTL before it expires.
CookiesFromLogins ==
    \A a \in Admins : cookies[a].password # Nothing =>
        \E l \in logins : l.password = cookies[a].password /\ cookies[a].exp = l.at + SessionTTL

\* No login is in the future.
LoginsPast == \A l \in logins : l.at <= now

\* A request was let in within SessionTTL of a login with the present password.
AdmittedByLogin ==
    \A c \in Calls : admitted[c] # Idle =>
        \E l \in logins : l.password = password /\ admitted[c] - l.at \in 0..SessionTTL

\* What a handler knows at each of its calls.
RequestSound(r) ==
    /\ req[r].pc # "start" => keys[KeyOf[r]].merchant # Nothing
    /\ req[r].late => keys[KeyOf[r]].revoked
    /\ req[r].pc \in {"auth", "settings"} => merchants[keys[KeyOf[r]].merchant] \in seen[r]
    /\ req[r].pc \in {"settings", "wallet", "create", "201"} =>
          req[r].merchant = keys[KeyOf[r]].merchant /\ ~req[r].late
    /\ req[r].pc \in {"wallet", "create"} =>
          req[r].settings \in Settings /\ req[r].settings \in seen[r]
    /\ req[r].pc = "create" =>
          req[r].wallet \in Wallets /\ req[r].wallet = wallets[req[r].merchant]

\* What is true of an invoice for ever after.
InvoiceSound(inv) ==
    /\ req[inv.request].pc = "201"
    /\ inv.settings \in seen[inv.request]
    /\ inv.merchant = keys[KeyOf[inv.request]].merchant
    /\ inv.wallet = wallets[inv.merchant]

\* The inductive invariant.
Inv ==
    /\ TypeOK
    /\ KeysOwned
    /\ CookiesFromLogins
    /\ LoginsPast
    /\ AdmittedByLogin
    /\ \A r \in Requests : RequestSound(r)
    /\ \A inv \in invoices : InvoiceSound(inv)

---------------------------------------------------------------------------
\* Nothing is stored and nothing runs at first.
LEMMA InitInv == Init => Inv
<1> SUFFICES ASSUME Init PROVE Inv
  OBVIOUS
<1>1. TypeOK
  BY DEF Init, TypeOK, NoCookie, NoKey, Arrived, CookieRow, KeyRow, RequestRow
<1>2. KeysOwned /\ CookiesFromLogins /\ LoginsPast /\ AdmittedByLogin
  BY DEF Init, KeysOwned, CookiesFromLogins, LoginsPast, AdmittedByLogin, NoCookie, NoKey
<1>3. \A r \in Requests : RequestSound(r)
  BY DEF Init, RequestSound, Arrived
<1>4. \A inv \in invoices : InvoiceSound(inv)
  BY DEF Init
<1> QED BY <1>1, <1>2, <1>3, <1>4 DEF Inv

\* Requests that were let in stay so: logins are remembered.
LEMMA AdmittedKept ==
  ASSUME Inv, logins \subseteq logins', password' = password,
         \A c \in Calls : admitted'[c] \in {admitted[c], Idle}
  PROVE  AdmittedByLogin'
  BY DEF Inv, AdmittedByLogin

\* A login adds a cookie and its record.
LEMMA LoginInv ==
  ASSUME Inv, NEW a \in Admins, Login(a)
  PROVE  Inv'
<1>1. TypeOK'
  BY DEF Inv, TypeOK, Login, store, serving, CookieRow
<1>2. KeysOwned'
  BY DEF Inv, KeysOwned, Login, store, serving
<1>3. CookiesFromLogins'
  <2> SUFFICES ASSUME NEW b \in Admins, cookies'[b].password # Nothing
               PROVE  \E l \in logins' : /\ l.password = cookies'[b].password
                                         /\ cookies'[b].exp = l.at + SessionTTL
    BY DEF CookiesFromLogins
  <2>1. CASE b = a
    <3>1. cookies'[b] = [password |-> password, exp |-> now + SessionTTL]
      BY <2>1 DEF Login, Inv, TypeOK
    <3>2. [password |-> password, at |-> now] \in logins'
      BY DEF Login
    <3> QED BY <3>1, <3>2
  <2>2. CASE b # a
    <3>1. cookies'[b] = cookies[b] /\ logins \subseteq logins'
      BY <2>2 DEF Login, Inv, TypeOK
    <3> QED BY <3>1 DEF Inv, CookiesFromLogins
  <2> QED BY <2>1, <2>2
<1>4. \A r \in Requests : RequestSound(r)'
  BY DEF Inv, TypeOK, RequestSound, KeysOwned, Login, store, serving, CookieRow
<1>5. \A inv \in invoices' : InvoiceSound(inv)'
  BY DEF Inv, TypeOK, InvoiceSound, RequestSound, Login, store, serving, CookieRow
<1>6. LoginsPast' /\ AdmittedByLogin'
  BY AdmittedKept DEF Inv, TypeOK, LoginsPast, Login
<1> QED BY <1>1, <1>2, <1>3, <1>4, <1>5, <1>6 DEF Inv

\* A logout forgets a cookie.
LEMMA LogoutInv ==
  ASSUME Inv, NEW a \in Admins, Logout(a)
  PROVE  Inv'
<1>1. TypeOK'
  BY DEF Inv, TypeOK, Logout, store, serving, NoCookie, CookieRow
<1>2. KeysOwned'
  BY DEF Inv, KeysOwned, Logout, store, serving
<1>3. CookiesFromLogins'
  BY DEF Inv, TypeOK, CookiesFromLogins, Logout, store, serving, NoCookie
<1>4. \A r \in Requests : RequestSound(r)'
  BY DEF Inv, TypeOK, RequestSound, KeysOwned, Logout, store, serving, NoCookie, CookieRow
<1>5. \A inv \in invoices' : InvoiceSound(inv)'
  BY DEF Inv, TypeOK, InvoiceSound, RequestSound, Logout, store, serving, NoCookie, CookieRow
<1>6. LoginsPast' /\ AdmittedByLogin'
  BY AdmittedKept DEF Inv, TypeOK, LoginsPast, Logout
<1> QED BY <1>1, <1>2, <1>3, <1>4, <1>5, <1>6 DEF Inv

\* A request is let in by a cookie, and the cookie is from a login.
LEMMA requireAdminInv ==
  ASSUME Inv, NEW c \in Calls, NEW a \in Admins, requireAdmin(c, a)
  PROVE  Inv'
<1>1. TypeOK'
  BY DEF Inv, TypeOK, requireAdmin, session, store, serving
<1>2. KeysOwned' /\ CookiesFromLogins' /\ LoginsPast'
  BY DEF Inv, KeysOwned, CookiesFromLogins, LoginsPast, requireAdmin, session, store
<1>3. AdmittedByLogin'
  <2>1. PICK l \in logins : l.password = password /\ cookies[a].exp = l.at + SessionTTL
    <3>1. cookies[a].password = password /\ password # Nothing
      BY DEF requireAdmin, isAdminAuthenticated, Inv, TypeOK
    <3> QED BY <3>1 DEF Inv, CookiesFromLogins
  <2>2. now <= cookies[a].exp /\ l.at \in Nat /\ now \in Nat /\ l.at <= now
    BY DEF requireAdmin, isAdminAuthenticated, Inv, TypeOK, LoginsPast
  <2>3. now - l.at \in 0..SessionTTL
    BY <2>1, <2>2
  <2>4. admitted' = [admitted EXCEPT ![c] = now] /\ UNCHANGED <<logins, password>>
    BY DEF requireAdmin, session
  <2>5. admitted \in [Calls -> Nat \cup {Idle}]
    BY DEF Inv, TypeOK
  <2> SUFFICES ASSUME NEW b \in Calls, admitted'[b] # Idle
               PROVE  \E k \in logins : k.password = password /\ admitted'[b] - k.at \in 0..SessionTTL
    BY <2>4 DEF AdmittedByLogin
  <2>6. CASE b = c
    <3>1. admitted'[b] = now
      BY <2>4, <2>5, <2>6
    <3> QED BY <2>1, <2>3, <3>1
  <2>7. CASE b # c
    <3>1. admitted'[b] = admitted[b]
      BY <2>4, <2>5, <2>7
    <3> QED BY <3>1 DEF Inv, AdmittedByLogin
  <2> QED BY <2>6, <2>7
<1>4. \A r \in Requests : RequestSound(r)'
  BY DEF Inv, RequestSound, requireAdmin, session, store, serving
<1>5. \A inv \in invoices' : InvoiceSound(inv)'
  BY DEF Inv, InvoiceSound, requireAdmin, session, store, serving
<1> QED BY <1>1, <1>2, <1>3, <1>4, <1>5 DEF Inv

\* A request that changes nothing.
LEMMA RefuseInv ==
  ASSUME Inv, NEW c \in Calls, Refuse(c)
  PROVE  Inv'
<1>1. TypeOK'
  BY DEF Inv, TypeOK, Refuse, answer, session, store, serving
<1>2. KeysOwned' /\ CookiesFromLogins'
  BY DEF Inv, KeysOwned, CookiesFromLogins, Refuse, session, store
<1>3. LoginsPast' /\ AdmittedByLogin'
  BY AdmittedKept DEF Inv, TypeOK, LoginsPast, Refuse, answer, session
<1>4. \A r \in Requests : RequestSound(r)'
  BY DEF Inv, RequestSound, Refuse, session, store, serving
<1>5. \A inv \in invoices' : InvoiceSound(inv)'
  BY DEF Inv, InvoiceSound, Refuse, session, store, serving
<1> QED BY <1>1, <1>2, <1>3, <1>4, <1>5 DEF Inv

\* A new merchant has no key yet.
LEMMA CreateMerchantInv ==
  ASSUME Inv, NEW c \in Calls, NEW m \in Merchants, NEW s \in Settings, CreateMerchant(c, m, s)
  PROVE  Inv'
<1>1. TypeOK'
  BY DEF Inv, TypeOK, answer, CreateMerchant, session, serving
<1>2. KeysOwned'
  BY DEF Inv, TypeOK, KeysOwned, CreateMerchant, session, serving
<1>3. CookiesFromLogins'
  BY DEF Inv, CookiesFromLogins, CreateMerchant, session, serving
<1>4. \A r \in Requests : RequestSound(r)'
  BY DEF Inv, TypeOK, RequestSound, KeysOwned, CreateMerchant, session, serving
<1>5. \A inv \in invoices' : InvoiceSound(inv)'
  BY DEF Inv, TypeOK, InvoiceSound, RequestSound, CreateMerchant, session, serving
<1>6. LoginsPast' /\ AdmittedByLogin'
  BY AdmittedKept DEF Inv, TypeOK, LoginsPast, CreateMerchant, session, answer
<1> QED BY <1>1, <1>2, <1>3, <1>4, <1>5, <1>6 DEF Inv

\* Requests that have not read their settings take notice of new ones.
LEMMA UpdateMerchantSettingsInv ==
  ASSUME Inv, NEW c \in Calls, NEW m \in Merchants, NEW s \in Settings,
         UpdateMerchantSettings(c, m, s)
  PROVE  Inv'
<1>1. TypeOK'
  BY DEF Inv, TypeOK, answer, UpdateMerchantSettings, session, notice
<1>2. KeysOwned'
  BY DEF Inv, TypeOK, KeysOwned, UpdateMerchantSettings, session
<1>3. CookiesFromLogins'
  BY DEF Inv, CookiesFromLogins, UpdateMerchantSettings, session
<1>4. \A r \in Requests : RequestSound(r)'
  BY DEF Inv, TypeOK, RequestSound, KeysOwned, UpdateMerchantSettings, session, notice
<1>5. \A inv \in invoices' : InvoiceSound(inv)'
  BY DEF Inv, TypeOK, InvoiceSound, RequestSound, UpdateMerchantSettings, session, notice
<1>6. LoginsPast' /\ AdmittedByLogin'
  BY AdmittedKept DEF Inv, TypeOK, LoginsPast, UpdateMerchantSettings, session, answer
<1> QED BY <1>1, <1>2, <1>3, <1>4, <1>5, <1>6 DEF Inv

\* A wallet is set once, so what was read of one stays.
LEMMA SetMerchantWalletInv ==
  ASSUME Inv, NEW c \in Calls, NEW m \in Merchants, NEW w \in Wallets, SetMerchantWallet(c, m, w)
  PROVE  Inv'
<1>1. TypeOK'
  BY DEF Inv, TypeOK, answer, SetMerchantWallet, session, serving
<1>2. KeysOwned'
  BY DEF Inv, KeysOwned, SetMerchantWallet, session, serving
<1>3. CookiesFromLogins'
  BY DEF Inv, CookiesFromLogins, SetMerchantWallet, session, serving
<1>4. \A r \in Requests : RequestSound(r)'
  BY DEF Inv, TypeOK, RequestSound, KeysOwned, SetMerchantWallet, session, serving
<1>5. \A inv \in invoices' : InvoiceSound(inv)'
  BY DEF Inv, TypeOK, InvoiceSound, RequestSound, SetMerchantWallet, session, serving
<1>6. LoginsPast' /\ AdmittedByLogin'
  BY AdmittedKept DEF Inv, TypeOK, LoginsPast, SetMerchantWallet, session, answer
<1> QED BY <1>1, <1>2, <1>3, <1>4, <1>5, <1>6 DEF Inv

\* A key is made once, for a merchant that exists.
LEMMA CreateMerchantAPIKeyInv ==
  ASSUME Inv, NEW c \in Calls, NEW m \in Merchants, NEW k \in Keys, CreateMerchantAPIKey(c, m, k)
  PROVE  Inv'
<1>1. TypeOK'
  BY DEF Inv, TypeOK, answer, CreateMerchantAPIKey, session, serving, NoKey, KeyRow
<1>2. KeysOwned'
  BY DEF Inv, TypeOK, KeysOwned, CreateMerchantAPIKey, session, serving, NoKey
<1>3. CookiesFromLogins'
  BY DEF Inv, CookiesFromLogins, CreateMerchantAPIKey, session, serving
<1>4. \A r \in Requests : RequestSound(r)'
  BY DEF Inv, TypeOK, RequestSound, KeysOwned, CreateMerchantAPIKey, session, serving, NoKey,
        KeyRow
<1>5. \A inv \in invoices' : InvoiceSound(inv)'
  BY DEF Inv, TypeOK, InvoiceSound, RequestSound, CreateMerchantAPIKey, session, serving,
        NoKey, KeyRow
<1>6. LoginsPast' /\ AdmittedByLogin'
  BY AdmittedKept DEF Inv, TypeOK, LoginsPast, CreateMerchantAPIKey, session, answer
<1> QED BY <1>1, <1>2, <1>3, <1>4, <1>5, <1>6 DEF Inv

\* A revoked key keeps its owner.
LEMMA RevokeMerchantAPIKeyInv ==
  ASSUME Inv, NEW c \in Calls, NEW k \in Keys, RevokeMerchantAPIKey(c, k)
  PROVE  Inv'
<1> DEFINE row == [keys[k] EXCEPT !.revoked = TRUE]
<1>0. /\ keys' = [keys EXCEPT ![k] = row]
      /\ row \in KeyRow
      /\ row.merchant = keys[k].merchant /\ row.revoked /\ keys[k].merchant # Nothing
  <2>1. keys[k] \in KeyRow /\ keys[k] # NoKey
    BY DEF RevokeMerchantAPIKey, Inv, TypeOK
  <2>2. keys[k].merchant # Nothing
    BY <2>1 DEF Inv, KeysOwned
  <2> QED BY <2>1, <2>2 DEF RevokeMerchantAPIKey, KeyRow
<1> HIDE DEF row
<1>1. TypeOK'
  <2>1. /\ UNCHANGED <<merchants, wallets, session, serving>>
        /\ admitted' = [admitted EXCEPT ![c] = Idle]
    BY DEF RevokeMerchantAPIKey, answer
  <2>2. keys' \in [Keys -> KeyRow]
    BY <1>0 DEF Inv, TypeOK
  <2> QED BY <2>1, <2>2 DEF Inv, TypeOK, session, serving
<1>2. KeysOwned'
  BY <1>0 DEF Inv, TypeOK, KeysOwned, RevokeMerchantAPIKey
<1>3. CookiesFromLogins'
  BY DEF Inv, CookiesFromLogins, RevokeMerchantAPIKey, session, serving
<1>4. \A r \in Requests : RequestSound(r)'
  BY DEF Inv, TypeOK, RequestSound, KeysOwned, RevokeMerchantAPIKey, session, serving, NoKey,
        KeyRow
<1>5. \A inv \in invoices' : InvoiceSound(inv)'
  BY DEF Inv, TypeOK, InvoiceSound, RequestSound, RevokeMerchantAPIKey, session, serving,
        NoKey, KeyRow
<1>6. LoginsPast' /\ AdmittedByLogin'
  BY AdmittedKept DEF Inv, TypeOK, LoginsPast, RevokeMerchantAPIKey, session, answer
<1> QED BY <1>1, <1>2, <1>3, <1>4, <1>5, <1>6 DEF Inv

\* An arriving request finds its key made.
LEMMA ArriveInv ==
  ASSUME Inv, NEW x \in Requests, Arrive(x)
  PROVE  Inv'
<1> DEFINE row == [req[x] EXCEPT !.pc = "auth", !.late = keys[KeyOf[x]].revoked]
<1>0. /\ req' = [req EXCEPT ![x] = row]
      /\ row \in RequestRow /\ row.pc = "auth" /\ row.late = keys[KeyOf[x]].revoked
      /\ keys[KeyOf[x]].merchant \in Merchants
  <2>1. KeyOf[x] \in Keys /\ keys[KeyOf[x]] \in KeyRow /\ req[x] \in RequestRow
    BY DEF Inv, TypeOK
  <2>2. keys[KeyOf[x]].merchant # Nothing
    BY <2>1 DEF Arrive, Inv, KeysOwned
  <2>3. row \in RequestRow /\ row.pc = "auth" /\ row.late = keys[KeyOf[x]].revoked
    BY <2>1 DEF RequestRow, KeyRow
  <2> QED BY <2>1, <2>2, <2>3 DEF Arrive, KeyRow
<1> HIDE DEF row
<1>1. TypeOK'
  <2>1. seen' = [seen EXCEPT ![x] = {merchants[keys[KeyOf[x]].merchant]}]
        /\ UNCHANGED <<session, admitted, store, invoices>>
    BY DEF Arrive
  <2>2. merchants[keys[KeyOf[x]].merchant] \in Settings \cup {Nothing}
    BY <1>0 DEF Inv, TypeOK
  <2>3. seen' \in [Requests -> SUBSET (Settings \cup {Nothing})]
    BY <2>1, <2>2 DEF Inv, TypeOK
  <2>4. req' \in [Requests -> RequestRow]
    BY <1>0 DEF Inv, TypeOK
  <2> QED BY <2>1, <2>3, <2>4 DEF Inv, TypeOK, session, store
<1>2. KeysOwned'
  BY DEF Inv, KeysOwned, Arrive, session, store
<1>3. CookiesFromLogins'
  BY DEF Inv, CookiesFromLogins, Arrive, session, store
<1>4. \A r \in Requests : RequestSound(r)'
  <2> SUFFICES ASSUME NEW r \in Requests PROVE RequestSound(r)'
    OBVIOUS
  <2>1. CASE r # x
    BY <1>0, <2>1 DEF Inv, TypeOK, RequestSound, Arrive, store
  <2>2. CASE r = x
    <3>1. req'[r] = row /\ seen'[r] = {merchants[keys[KeyOf[r]].merchant]} /\ UNCHANGED store
      BY <1>0, <2>2 DEF Arrive, Inv, TypeOK
    <3>2. keys[KeyOf[r]].merchant # Nothing
      BY <1>0, <2>2
    <3> QED BY <1>0, <2>2, <3>1, <3>2 DEF RequestSound, store
  <2> QED BY <2>1, <2>2
<1>5. \A inv \in invoices' : InvoiceSound(inv)'
  BY DEF Inv, TypeOK, InvoiceSound, RequestSound, Arrive, session, store, RequestRow
<1>6. LoginsPast' /\ AdmittedByLogin'
  BY AdmittedKept DEF Inv, TypeOK, LoginsPast, Arrive, session
<1> QED BY <1>1, <1>2, <1>3, <1>4, <1>5, <1>6 DEF Inv

\* A key that is not revoked was not revoked at arrival.
LEMMA AuthenticateInv ==
  ASSUME Inv, NEW x \in Requests, Authenticate(x)
  PROVE  Inv'
<1> DEFINE row == [req[x] EXCEPT !.pc = IF LookupMerchantIDByAPIKey(KeyOf[x]) = Nothing
                                       THEN "401" ELSE "settings",
                                 !.merchant = LookupMerchantIDByAPIKey(KeyOf[x])]
<1>0. req' = [req EXCEPT ![x] = row] /\ row \in RequestRow
  <2>1. req[x] \in RequestRow /\ KeyOf[x] \in Keys
    BY DEF Inv, TypeOK
  <2>2. LookupMerchantIDByAPIKey(KeyOf[x]) \in Merchants \cup {Nothing}
    BY <2>1 DEF LookupMerchantIDByAPIKey, Inv, TypeOK, KeyRow
  <2>3. row \in RequestRow
    BY <2>1, <2>2 DEF RequestRow
  <2> QED BY <2>3 DEF Authenticate
<1>1. TypeOK'
  BY <1>0 DEF Inv, TypeOK, Authenticate, session, store
<1>2. KeysOwned'
  BY DEF Inv, KeysOwned, Authenticate, session, store
<1>3. CookiesFromLogins'
  BY DEF Inv, CookiesFromLogins, Authenticate, session, store
<1>4. \A r \in Requests : RequestSound(r)'
  BY DEF Inv, TypeOK, RequestSound, KeysOwned, Authenticate, session, store,
        LookupMerchantIDByAPIKey, RequestRow
<1>5. \A inv \in invoices' : InvoiceSound(inv)'
  BY DEF Inv, TypeOK, InvoiceSound, RequestSound, Authenticate, session, store,
        LookupMerchantIDByAPIKey, RequestRow
<1>6. LoginsPast' /\ AdmittedByLogin'
  BY AdmittedKept DEF Inv, TypeOK, LoginsPast, Authenticate, session
<1> QED BY <1>1, <1>2, <1>3, <1>4, <1>5, <1>6 DEF Inv

\* The settings read are in force.
LEMMA ReadSettingsInv ==
  ASSUME Inv, NEW x \in Requests, ReadSettings(x)
  PROVE  Inv'
<1> DEFINE row == [req[x] EXCEPT !.pc = "wallet", !.settings = merchants[req[x].merchant]]
<1>0. req' = [req EXCEPT ![x] = row] /\ row \in RequestRow
  <2>1. req[x] \in RequestRow /\ KeyOf[x] \in Keys
    BY DEF Inv, TypeOK
  <2>2. req[x].merchant \in Merchants
    BY <2>1 DEF ReadSettings, Inv, RequestSound, RequestRow
  <2>3. row \in RequestRow
    BY <2>1, <2>2 DEF RequestRow, Inv, TypeOK
  <2> QED BY <2>3 DEF ReadSettings
<1>1. TypeOK'
  BY <1>0 DEF Inv, TypeOK, ReadSettings, session, store
<1>2. KeysOwned'
  BY DEF Inv, KeysOwned, ReadSettings, session, store
<1>3. CookiesFromLogins'
  BY DEF Inv, CookiesFromLogins, ReadSettings, session, store
<1>4. \A r \in Requests : RequestSound(r)'
  BY DEF Inv, TypeOK, RequestSound, KeysOwned, ReadSettings, session, store, RequestRow
<1>5. \A inv \in invoices' : InvoiceSound(inv)'
  BY DEF Inv, TypeOK, InvoiceSound, RequestSound, ReadSettings, session, store, RequestRow
<1>6. LoginsPast' /\ AdmittedByLogin'
  BY AdmittedKept DEF Inv, TypeOK, LoginsPast, ReadSettings, session
<1> QED BY <1>1, <1>2, <1>3, <1>4, <1>5, <1>6 DEF Inv

\* The wallet read is the merchant's for good.
LEMMA ReadWalletInv ==
  ASSUME Inv, NEW x \in Requests, ReadWallet(x)
  PROVE  Inv'
<1> DEFINE row == [req[x] EXCEPT !.pc = IF wallets[req[x].merchant] = Nothing
                                        THEN "409" ELSE "create",
                                 !.wallet = wallets[req[x].merchant]]
<1>0. req' = [req EXCEPT ![x] = row] /\ row \in RequestRow
  <2>1. req[x] \in RequestRow /\ KeyOf[x] \in Keys
    BY DEF Inv, TypeOK
  <2>2. req[x].merchant \in Merchants
    BY <2>1 DEF ReadWallet, Inv, RequestSound, RequestRow
  <2>3. row \in RequestRow
    BY <2>1, <2>2 DEF RequestRow, Inv, TypeOK
  <2> QED BY <2>3 DEF ReadWallet
<1>1. TypeOK'
  BY <1>0 DEF Inv, TypeOK, ReadWallet, session, store
<1>2. KeysOwned'
  BY DEF Inv, KeysOwned, ReadWallet, session, store
<1>3. CookiesFromLogins'
  BY DEF Inv, CookiesFromLogins, ReadWallet, session, store
<1>4. \A r \in Requests : RequestSound(r)'
  BY DEF Inv, TypeOK, RequestSound, KeysOwned, ReadWallet, session, store, RequestRow
<1>5. \A inv \in invoices' : InvoiceSound(inv)'
  BY DEF Inv, TypeOK, InvoiceSound, RequestSound, ReadWallet, session, store, RequestRow
<1>6. LoginsPast' /\ AdmittedByLogin'
  BY AdmittedKept DEF Inv, TypeOK, LoginsPast, ReadWallet, session
<1> QED BY <1>1, <1>2, <1>3, <1>4, <1>5, <1>6 DEF Inv

\* The invoice takes what the handler knows.
LEMMA CreateInv ==
  ASSUME Inv, NEW x \in Requests, Create(x)
  PROVE  Inv'
<1>1. TypeOK'
  BY DEF Inv, TypeOK, Create, session, store, RequestSound, RequestRow
<1>2. KeysOwned'
  BY DEF Inv, KeysOwned, Create, session, store
<1>3. CookiesFromLogins'
  BY DEF Inv, CookiesFromLogins, Create, session, store
<1>4. \A r \in Requests : RequestSound(r)'
  BY DEF Inv, TypeOK, RequestSound, KeysOwned, Create, session, store, RequestRow
<1>5. \A inv \in invoices' : InvoiceSound(inv)'
  BY DEF Inv, TypeOK, InvoiceSound, RequestSound, Create, session, store, RequestRow
<1>6. LoginsPast' /\ AdmittedByLogin'
  BY AdmittedKept DEF Inv, TypeOK, LoginsPast, Create, session
<1> QED BY <1>1, <1>2, <1>3, <1>4, <1>5, <1>6 DEF Inv

\* A restart loses handlers and keeps rows and cookies.
LEMMA RestartInv ==
  ASSUME Inv, NEW p \in Passwords, Restart(p)
  PROVE  Inv'
<1>0. \A r \in Requests : [req[r] EXCEPT !.pc = "lost"] \in RequestRow
  <2>1. \A r \in Requests : req[r] \in RequestRow
    BY DEF Inv, TypeOK
  <2> QED BY <2>1 DEF RequestRow
<1>1. TypeOK'
  BY <1>0 DEF Inv, TypeOK, Restart, store
<1>2. KeysOwned'
  BY DEF Inv, KeysOwned, Restart, store
<1>3. CookiesFromLogins'
  BY DEF Inv, CookiesFromLogins, Restart, store
<1>4. \A r \in Requests : RequestSound(r)'
  BY DEF Inv, TypeOK, RequestSound, KeysOwned, Restart, store, Running, RequestRow
<1>5. \A inv \in invoices' : InvoiceSound(inv)'
  BY DEF Inv, TypeOK, InvoiceSound, RequestSound, Restart, store, Running, RequestRow
<1>6. LoginsPast' /\ AdmittedByLogin'
  BY DEF Inv, LoginsPast, AdmittedByLogin, Restart
<1> QED BY <1>1, <1>2, <1>3, <1>4, <1>5, <1>6 DEF Inv

\* Time passes.
LEMMA TickInv ==
  ASSUME Inv, Tick
  PROVE  Inv'
<1>1. TypeOK'
  BY DEF Inv, TypeOK, Tick, store, serving
<1>2. KeysOwned'
  BY DEF Inv, KeysOwned, Tick, store, serving
<1>3. CookiesFromLogins'
  BY DEF Inv, CookiesFromLogins, Tick, store, serving
<1>4. \A r \in Requests : RequestSound(r)'
  BY DEF Inv, TypeOK, RequestSound, KeysOwned, Tick, store, serving
<1>5. \A inv \in invoices' : InvoiceSound(inv)'
  BY DEF Inv, TypeOK, InvoiceSound, RequestSound, Tick, store, serving
<1>6. LoginsPast' /\ AdmittedByLogin'
  BY AdmittedKept DEF Inv, TypeOK, LoginsPast, Tick
<1> QED BY <1>1, <1>2, <1>3, <1>4, <1>5, <1>6 DEF Inv

---------------------------------------------------------------------------
\* Every action preserves the invariant.
LEMMA NextInv == Inv /\ [Next]_vars => Inv'
<1> SUFFICES ASSUME Inv, [Next]_vars PROVE Inv'
  OBVIOUS
<1>1. ASSUME NEW a \in Admins, Login(a) \/ Logout(a) \/ \E c \in Calls : requireAdmin(c, a)
      PROVE  Inv'
  BY <1>1, LoginInv, LogoutInv, requireAdminInv
<1>2. ASSUME NEW c \in Calls, NEW m \in Merchants, NEW s \in Settings,
             CreateMerchant(c, m, s) \/ UpdateMerchantSettings(c, m, s)
      PROVE  Inv'
  BY <1>2, CreateMerchantInv, UpdateMerchantSettingsInv
<1>3. ASSUME NEW c \in Calls, NEW m \in Merchants, NEW w \in Wallets, SetMerchantWallet(c, m, w)
      PROVE  Inv'
  BY <1>3, SetMerchantWalletInv
<1>4. ASSUME NEW c \in Calls, NEW m \in Merchants, NEW k \in Keys, CreateMerchantAPIKey(c, m, k)
      PROVE  Inv'
  BY <1>4, CreateMerchantAPIKeyInv
<1>5. ASSUME NEW c \in Calls, NEW k \in Keys, RevokeMerchantAPIKey(c, k) PROVE Inv'
  BY <1>5, RevokeMerchantAPIKeyInv
<1>10. ASSUME NEW c \in Calls, Refuse(c) PROVE Inv'
  BY <1>10, RefuseInv
<1>6. ASSUME NEW x \in Requests,
             Arrive(x) \/ Authenticate(x) \/ ReadSettings(x) \/ ReadWallet(x) \/ Create(x)
      PROVE  Inv'
  BY <1>6, ArriveInv, AuthenticateInv, ReadSettingsInv, ReadWalletInv, CreateInv
<1>7. ASSUME NEW p \in Passwords, Restart(p) PROVE Inv'
  BY <1>7, RestartInv
<1>8. CASE Tick
  BY <1>8, TickInv
<1>9. CASE UNCHANGED vars
  BY <1>9 DEF Inv, TypeOK, KeysOwned, CookiesFromLogins, LoginsPast, AdmittedByLogin,
               RequestSound, InvoiceSound, vars
<1> QED BY <1>1, <1>2, <1>3, <1>4, <1>5, <1>6, <1>7, <1>8, <1>9, <1>10 DEF Next

\* The invariant holds of every behaviour of the server and its administrators.
THEOREM InvHolds == Spec => []Inv
  BY InitInv, NextInv, PTL DEF Spec

\* Rows, cookies and handlers keep their shape.
THEOREM TypeCorrect == Spec => []TypeOK
  BY InvHolds, PTL DEF Inv

\* An invoice has terms its merchant had while the request ran.
THEOREM TermsInForceHolds == Spec => []TermsInForce
<1>1. Inv => TermsInForce
  BY DEF Inv, InvoiceSound, TermsInForce
<1> QED BY <1>1, InvHolds, PTL

\* All invoices of a merchant are paid into the merchant's one wallet.
THEOREM OneWalletHolds == Spec => []OneWallet
<1>1. Inv => OneWallet
  BY DEF Inv, InvoiceSound, OneWallet
<1> QED BY <1>1, InvHolds, PTL

\* No invoice by a request that came after the revocation of its key, and none for
\* another merchant than the key's.
THEOREM KeyRespectedHolds == Spec => []KeyRespected
<1>1. Inv => KeyRespected
  BY DEF Inv, TypeOK, InvoiceSound, RequestSound, KeyRespected
<1> QED BY <1>1, InvHolds, PTL

\* The store is changed only by a request let in within SessionTTL of a login with the
\* password the server has now, however late its body comes.
THEOREM ChangesByRecentLoginHolds == Spec => ChangesByRecentLogin
<1> DEFINE Good == store' # store =>
                      \E c \in Calls, l \in logins :
                          /\ admitted[c] # Idle /\ admitted'[c] = Idle
                          /\ l.password = password
                          /\ admitted[c] - l.at \in 0..SessionTTL
<1>1. ASSUME Inv, NEW c \in Calls, answer(c) PROVE Good
  <2>1. admitted[c] # Idle /\ admitted'[c] = Idle
    BY <1>1 DEF answer, Inv, TypeOK
  <2> QED BY <1>1, <2>1 DEF Inv, AdmittedByLogin
<1>2. ASSUME Inv, [Next]_vars PROVE [Good]_vars
  <2>1. CASE UNCHANGED store
    BY <2>1
  <2>2. ASSUME NEW c \in Calls,
               \/ Refuse(c)
               \/ \E m \in Merchants, s \in Settings : CreateMerchant(c, m, s)
               \/ \E m \in Merchants, s \in Settings : UpdateMerchantSettings(c, m, s)
               \/ \E m \in Merchants, w \in Wallets : SetMerchantWallet(c, m, w)
               \/ \E m \in Merchants, k \in Keys : CreateMerchantAPIKey(c, m, k)
               \/ \E k \in Keys : RevokeMerchantAPIKey(c, k)
        PROVE  Good
    <3>1. answer(c)
      BY <2>2 DEF Refuse, CreateMerchant, UpdateMerchantSettings, SetMerchantWallet,
                  CreateMerchantAPIKey, RevokeMerchantAPIKey
    <3> QED BY <1>1, <1>2, <3>1
  <2>3. ASSUME NEW x \in Requests,
               Arrive(x) \/ Authenticate(x) \/ ReadSettings(x) \/ ReadWallet(x) \/ Create(x)
        PROVE  UNCHANGED store
    BY <2>3 DEF Arrive, Authenticate, ReadSettings, ReadWallet, Create
  <2>4. ASSUME NEW a \in Admins, Login(a) \/ Logout(a) \/ \E c \in Calls : requireAdmin(c, a)
        PROVE  UNCHANGED store
    BY <2>4 DEF Login, Logout, requireAdmin
  <2>5. ASSUME NEW p \in Passwords, Restart(p) PROVE UNCHANGED store
    BY <2>5 DEF Restart
  <2>6. CASE Tick
    BY <2>1, <2>6 DEF Tick
  <2>7. CASE UNCHANGED vars
    BY <2>1, <2>7 DEF vars, store
  <2> HIDE DEF Good
  <2> QED BY <1>2, <2>1, <2>2, <2>3, <2>4, <2>5, <2>6, <2>7 DEF Next
<1>3. Spec => [][Good]_vars
  BY <1>2, InvHolds, PTL DEF Spec
<1> QED BY <1>3 DEF ChangesByRecentLogin
=============================================================================
