----------------------------- MODULE AdminApi -----------------------------
(***************************************************************************)
(* The administrative side of juno-pay-server: sessions, merchants with    *)
(* their settings, wallets and API keys, changed by administrators while   *)
(* invoice requests are running.  A request authenticates its key, reads   *)
(* the settings, reads the wallet and inserts the invoice in calls of      *)
(* their own, so a change may come between any two of them (InvoiceApi has *)
(* the calls after the wallet in detail: address, insert, token).          *)
(*                                                                         *)
(* A session is a signed cookie, not a row: its key comes from the         *)
(* password, so it outlives a restart with the same password and no other. *)
(*                                                                         *)
(* An administrative request is checked when its headers have come and     *)
(* changes the store when its body has: the server sets no time limit for  *)
(* reading a body, so time, logouts and other requests may come between.   *)
(***************************************************************************)
EXTENDS Integers, FiniteSets

CONSTANTS
    Admins, Passwords,
    Calls,              \* administrative requests that may be in progress at a time
    Merchants, Wallets, Keys,
    Settings,           \* settings that pass MerchantSettings.Validate
    DefaultSettings,
    Requests, KeyOf,    \* invoice requests and the API key each one sends
    Nothing,
    SessionTTL,         \* 12 hours in the code
    MaxTime, MaxRestarts

ASSUME AdminAssumption ==
    /\ KeyOf \in [Requests -> Keys]
    /\ DefaultSettings \in Settings
    /\ Nothing \notin Merchants \cup Wallets \cup Passwords \cup Settings
    /\ SessionTTL \in Nat /\ MaxTime \in Nat /\ MaxRestarts \in Nat

VARIABLES
    now,
    password,   \* JUNO_PAY_ADMIN_PASSWORD of the running process
    cookies,    \* Admins -> the session cookie in the browser
    admitted,   \* Calls -> when requireAdmin let the request in, or Idle
    merchants,  \* Merchants -> settings in table merchants, or Nothing
    wallets,    \* Merchants -> wallet_id in table merchant_wallets, or Nothing
    keys,       \* Keys -> row of table api_keys
    req,        \* Requests -> the handler's program counter and locals
    invoices,   \* the invoices made, with what was copied into them
    logins,     \* history: successful logins
    seen,       \* history: Requests -> settings in force while the request ran
    restarts

vars == <<now, password, cookies, admitted, merchants, wallets, keys, req, invoices, logins, seen,
          restarts>>
store == <<merchants, wallets, keys>>
session == <<now, password, cookies, logins, restarts>>
serving == <<req, invoices, seen>>

Idle == -1
NoCookie == [password |-> Nothing, exp |-> 0]
NoKey == [merchant |-> Nothing, revoked |-> FALSE]
Arrived == [pc |-> "start", merchant |-> Nothing, settings |-> Nothing, wallet |-> Nothing,
            late |-> FALSE]

Init ==
    /\ now = 0
    /\ password \in Passwords
    /\ cookies = [a \in Admins |-> NoCookie]
    /\ admitted = [c \in Calls |-> Idle]
    /\ merchants = [m \in Merchants |-> Nothing]
    /\ wallets = [m \in Merchants |-> Nothing]
    /\ keys = [k \in Keys |-> NoKey]
    /\ req = [r \in Requests |-> Arrived]
    /\ invoices = {}
    /\ logins = {}
    /\ seen = [r \in Requests |-> {}]
    /\ restarts = 0

---------------------------------------------------------------------------
(***************************************************************************)
(* Sessions                                                                *)
(***************************************************************************)

Login(a) ==
    /\ cookies' = [cookies EXCEPT ![a] = [password |-> password, exp |-> now + SessionTTL]]
    /\ logins' = logins \cup {[password |-> password, at |-> now]}
    /\ UNCHANGED <<now, password, admitted, restarts, store, serving>>

\* Mutant of isAdminAuthenticated: the expiry in the cookie is not read.
isAdminAuthenticatedForever(a) == cookies[a].password = password

\* The cookie is signed with the key of this password and has not expired.
isAdminAuthenticated(a) == cookies[a].password = password /\ now <= cookies[a].exp

\* The browser is told to forget the cookie.
Logout(a) ==
    /\ isAdminAuthenticated(a)
    /\ cookies' = [cookies EXCEPT ![a] = NoCookie]
    /\ UNCHANGED <<now, password, admitted, logins, restarts, store, serving>>

---------------------------------------------------------------------------
(***************************************************************************)
(* Administration                                                          *)
(***************************************************************************)

\* A request comes in with a's cookie; its body may still be on the way.
requireAdmin(c, a) ==
    /\ admitted[c] = Idle
    /\ isAdminAuthenticated(a)
    /\ admitted' = [admitted EXCEPT ![c] = now]
    /\ UNCHANGED <<session, store, serving>>

\* The handler of c, past requireAdmin, answers.
answer(c) ==
    /\ admitted[c] # Idle
    /\ admitted' = [admitted EXCEPT ![c] = Idle]

\* A body that is not valid or never completes, an unknown merchant, a second wallet.
Refuse(c) == answer(c) /\ UNCHANGED <<session, store, serving>>

\* With settings, or with the default ones.
CreateMerchant(c, m, s) ==
    /\ answer(c)
    /\ merchants[m] = Nothing
    /\ merchants' = [merchants EXCEPT ![m] = s]
    /\ UNCHANGED <<wallets, keys, session, serving>>

\* The settings of a merchant as requests in progress may meet them.
notice(m, s) ==
    [r \in Requests |-> IF req[r].pc \in {"auth", "settings"} /\ keys[KeyOf[r]].merchant = m
                        THEN seen[r] \cup {s} ELSE seen[r]]

UpdateMerchantSettings(c, m, s) ==
    /\ answer(c)
    /\ merchants[m] # Nothing
    /\ merchants' = [merchants EXCEPT ![m] = s]
    /\ seen' = notice(m, s)
    /\ UNCHANGED <<wallets, keys, session, req, invoices>>

\* Mutant of SetMerchantWallet: the last wallet wins.
SetMerchantWalletAgain(c, m, w) ==
    /\ answer(c)
    /\ merchants[m] # Nothing
    /\ wallets' = [wallets EXCEPT ![m] = w]
    /\ UNCHANGED <<merchants, keys, session, serving>>

\* INSERT with merchant_id as primary key: a second wallet is a conflict.
SetMerchantWallet(c, m, w) ==
    /\ answer(c)
    /\ merchants[m] # Nothing
    /\ wallets[m] = Nothing
    /\ wallets' = [wallets EXCEPT ![m] = w]
    /\ UNCHANGED <<merchants, keys, session, serving>>

CreateMerchantAPIKey(c, m, k) ==
    /\ answer(c)
    /\ merchants[m] # Nothing
    /\ keys[k] = NoKey
    /\ keys' = [keys EXCEPT ![k] = [merchant |-> m, revoked |-> FALSE]]
    /\ UNCHANGED <<merchants, wallets, session, serving>>

\* UPDATE ... WHERE revoked_at IS NULL; revoking again changes nothing.
RevokeMerchantAPIKey(c, k) ==
    /\ answer(c)
    /\ keys[k] # NoKey
    /\ keys' = [keys EXCEPT ![k].revoked = TRUE]
    /\ UNCHANGED <<merchants, wallets, session, serving>>

---------------------------------------------------------------------------
(***************************************************************************)
(* POST /v1/invoices                                                       *)
(***************************************************************************)

\* Mutant of LookupMerchantIDByAPIKey: revoked_at is not looked at.
LookupIgnoringRevocation(k) == keys[k].merchant

\* The merchant of a key that is not revoked.
LookupMerchantIDByAPIKey(k) == IF keys[k].revoked THEN Nothing ELSE keys[k].merchant

\* The request reaches the handler; its sender was given the key earlier.  (late:
\* the key had been revoked by then.)
Arrive(r) ==
    /\ req[r].pc = "start"
    /\ keys[KeyOf[r]] # NoKey
    /\ req' = [req EXCEPT ![r].pc = "auth", ![r].late = keys[KeyOf[r]].revoked]
    /\ seen' = [seen EXCEPT ![r] = {merchants[keys[KeyOf[r]].merchant]}]
    /\ UNCHANGED <<session, admitted, store, invoices>>

\* authMerchant: 401 for a key that is unknown or revoked.
Authenticate(r) ==
    /\ req[r].pc = "auth"
    /\ LET m == LookupMerchantIDByAPIKey(KeyOf[r])
       IN  req' = [req EXCEPT ![r].pc = IF m = Nothing THEN "401" ELSE "settings",
                              ![r].merchant = m]
    /\ UNCHANGED <<session, admitted, store, invoices, seen>>

\* Mutant of ReadSettings: a new merchant's settings, whatever was set since.
ReadSettingsDefault(r) ==
    /\ req[r].pc = "settings"
    /\ req' = [req EXCEPT ![r].pc = "wallet", ![r].settings = DefaultSettings]
    /\ UNCHANGED <<session, admitted, store, invoices, seen>>

\* GetMerchant: settings in one row.
ReadSettings(r) ==
    /\ req[r].pc = "settings"
    /\ req' = [req EXCEPT ![r].pc = "wallet", ![r].settings = merchants[req[r].merchant]]
    /\ UNCHANGED <<session, admitted, store, invoices, seen>>

\* GetMerchantWallet: 409 wallet_not_set without one.
ReadWallet(r) ==
    /\ req[r].pc = "wallet"
    /\ LET w == wallets[req[r].merchant]
       IN  req' = [req EXCEPT ![r].pc = IF w = Nothing THEN "409" ELSE "create",
                              ![r].wallet = w]
    /\ UNCHANGED <<session, admitted, store, invoices, seen>>

\* CreateInvoice with what was read earlier.
Create(r) ==
    /\ req[r].pc = "create"
    /\ invoices' = invoices \cup
            {[request |-> r, merchant |-> req[r].merchant, wallet |-> req[r].wallet,
              settings |-> req[r].settings]}
    /\ req' = [req EXCEPT ![r].pc = "201"]
    /\ UNCHANGED <<session, admitted, store, seen>>

---------------------------------------------------------------------------
Running(r) == req[r].pc \in {"auth", "settings", "wallet", "create"}

\* The process stops, its requests with it, and starts with a password that may
\* be another one.
Restart(p) ==
    /\ restarts < MaxRestarts
    /\ restarts' = restarts + 1
    /\ password' = p
    /\ req' = [r \in Requests |-> IF Running(r) THEN [req[r] EXCEPT !.pc = "lost"] ELSE req[r]]
    /\ admitted' = [c \in Calls |-> Idle]
    /\ UNCHANGED <<now, cookies, logins, store, invoices, seen>>

Tick ==
    /\ now < MaxTime
    /\ now' = now + 1
    /\ UNCHANGED <<password, cookies, admitted, logins, restarts, store, serving>>

Next ==
    \/ \E a \in Admins : Login(a) \/ Logout(a) \/ \E c \in Calls : requireAdmin(c, a)
    \/ \E c \in Calls :
          \/ Refuse(c)
          \/ \E m \in Merchants, s \in Settings : CreateMerchant(c, m, s)
          \/ \E m \in Merchants, s \in Settings : UpdateMerchantSettings(c, m, s)
          \/ \E m \in Merchants, w \in Wallets : SetMerchantWallet(c, m, w)
          \/ \E m \in Merchants, k \in Keys : CreateMerchantAPIKey(c, m, k)
          \/ \E k \in Keys : RevokeMerchantAPIKey(c, k)
    \/ \E r \in Requests :
          Arrive(r) \/ Authenticate(r) \/ ReadSettings(r) \/ ReadWallet(r) \/ Create(r)
    \/ \E p \in Passwords : Restart(p)
    \/ Tick

Spec == Init /\ [][Next]_vars

---------------------------------------------------------------------------
(***************************************************************************)
(* Properties                                                              *)
(***************************************************************************)

CookieRow == [password : Passwords \cup {Nothing}, exp : Nat]
KeyRow == [merchant : Merchants \cup {Nothing}, revoked : BOOLEAN]
RequestRow ==
    [pc : {"start", "auth", "settings", "wallet", "create", "201", "401", "409", "lost"},
     merchant : Merchants \cup {Nothing}, settings : Settings \cup {Nothing},
     wallet : Wallets \cup {Nothing}, late : BOOLEAN]

\* Rows, cookies and handlers have their shape.
TypeOK ==
    /\ now \in Nat /\ password \in Passwords /\ restarts \in Nat
    /\ cookies \in [Admins -> CookieRow]
    /\ admitted \in [Calls -> Nat \cup {Idle}]
    /\ merchants \in [Merchants -> Settings \cup {Nothing}]
    /\ wallets \in [Merchants -> Wallets \cup {Nothing}]
    /\ keys \in [Keys -> KeyRow]
    /\ req \in [Requests -> RequestRow]
    /\ invoices \subseteq
            [request : Requests, merchant : Merchants, wallet : Wallets, settings : Settings]
    /\ logins \subseteq [password : Passwords, at : Nat]
    /\ seen \in [Requests -> SUBSET (Settings \cup {Nothing})]

\* The terms of an invoice are terms its merchant had while the request ran: not
\* those of before it, not another merchant's, not a mixture.
TermsInForce == \A inv \in invoices : inv.settings \in seen[inv.request]

\* All invoices of a merchant are paid into one wallet, the one the ingest loop
\* watches for it, whoever set it and whenever.
OneWallet == \A inv \in invoices : inv.wallet = wallets[inv.merchant]

\* A request that arrives after its key was revoked makes no invoice, and an invoice
\* belongs to the owner of its request's key.
KeyRespected ==
    \A inv \in invoices :
        /\ inv.merchant = keys[KeyOf[inv.request]].merchant
        /\ ~req[inv.request].late

\* The store is changed only by a request that came in within SessionTTL of a login
\* with the password the server has now, through restarts, logouts and cookies kept
\* for long.  (The change itself may come any time later: see requireAdmin.)
ChangesByRecentLogin ==
    [][store' # store =>
          \E c \in Calls, l \in logins :
              /\ admitted[c] # Idle /\ admitted'[c] = Idle
              /\ l.password = password
              /\ admitted[c] - l.at \in 0..SessionTTL]_vars
===========================================================================
