------------------------------- MODULE SignIn -------------------------------
(***************************************************************************)
(* How the administrator adds Kiro accounts to kiro-go: the hosted portal  *)
(* with its listener on a fixed port, the device code of a Builder ID, the *)
(* pasted callback of an identity center, and the import of credentials.   *)
(*                                                                         *)
(* The browser, the portal and the identity providers are external: a tab  *)
(* opened for one sign-in calls back whatever session listens at that      *)
(* time.  A code is named by the tab it was given to.                      *)
(***************************************************************************)
EXTENDS Naturals, FiniteSets, Sequences

CONSTANTS
  Login,         \* sign-ins, each started once
  Tab,           \* tabs of the browser
  Poller,        \* handlers of the admin API that run at the same time
  Pasted,        \* identifiers in pasted credentials
  MaxRecord      \* bound: accounts

NoLogin == "no login"
NoTab == "no tab"

ASSUME SignInAssumption == NoLogin \notin Login /\ NoTab \notin Tab /\ MaxRecord \in Nat

VARIABLES
  login,         \* [Login -> its kind, whether its session is kept, its deadline]
  port,          \* the session that listens
  leg2,          \* [Login -> the tab that was sent on to the company's provider]
  mail,          \* [Login -> what the listener caught, not fetched yet]
  sent,          \* sessions whose listener caught something
  tab,           \* [Tab -> the sign-in it was opened for, where it is, who answers it]
  grant,         \* [Login -> what the user did with a device code]
  spent,         \* codes the providers have redeemed
  poll,          \* [Poller -> where it is, its sign-in, the code it has]
  records,       \* identifiers of the accounts in the configuration
  made           \* history: [Login -> accounts it gave]

signInVars == <<login, port, leg2, mail, sent, tab, grant, spent, poll, records, made>>

NoMail == [what |-> "none", tab |-> NoTab]
Mails == [what: {"none", "error", "social", "idp", "pasted", "device"}, tab: Tab \cup {NoTab}]
Waiting == [pc |-> "idle", of |-> NoLogin, got |-> NoMail]

SignInTypeOK ==
  /\ login \in [Login -> [kind: {"none", "portal", "device", "pasted"}, on: BOOLEAN, over: BOOLEAN]]
  /\ port \in Login \cup {NoLogin}
  /\ leg2 \in [Login -> Tab \cup {NoTab}]
  /\ mail \in [Login -> Mails]
  /\ sent \subseteq Login
  /\ tab \in [Tab -> [of: Login \cup {NoLogin}, at: {"closed", "page", "discover", "idp", "code"},
                      via: Login \cup {NoLogin}]]
  /\ grant \in [Login -> {"pending", "approved", "denied", "redeemed"}]
  /\ spent \subseteq Tab
  /\ poll \in [Poller -> [pc: {"idle", "token", "exchange", "add", "insert", "lines"},
                          of: Login \cup Pasted \cup {NoLogin}, got: Mails]]
  /\ records \in Seq(Pasted \cup {"fresh"}) /\ Len(records) <= MaxRecord
  /\ made \in [Login -> Nat]

SignInInit ==
  /\ login = [l \in Login |-> [kind |-> "none", on |-> FALSE, over |-> FALSE]]
  /\ port = NoLogin
  /\ leg2 = [l \in Login |-> NoTab]
  /\ mail = [l \in Login |-> NoMail]
  /\ sent = {}
  /\ tab = [t \in Tab |-> [of |-> NoLogin, at |-> "closed", via |-> NoLogin]]
  /\ grant = [l \in Login |-> "pending"]
  /\ spent = {}
  /\ poll = [p \in Poller |-> Waiting]
  /\ records = <<>>
  /\ made = [l \in Login |-> 0]

Session(l, kind) == login[l].on /\ login[l].kind = kind
StartLogin(l, kind) ==
  /\ login[l].kind = "none"
  /\ login' = [login EXCEPT ![l] = [kind |-> kind, on |-> TRUE, over |-> FALSE]]
PollGoes(p, pc, l, got) == poll' = [poll EXCEPT ![p] = [pc |-> pc, of |-> l, got |-> got]]
PollEnds(p) == poll' = [poll EXCEPT ![p] = Waiting]

\* close and removeKiroSsoSession: the port is free, what was caught is lost.
CloseSession(l) ==
  /\ login' = [login EXCEPT ![l].on = FALSE]
  /\ port' = IF port = l THEN NoLogin ELSE port

-----------------------------------------------------------------------------
(* The portal: its session, and the callbacks of the browser.              *)

\* The listener comes first; an occupied port ends the sign-in.
StartKiroSsoLogin(l) ==
  /\ port = NoLogin
  /\ StartLogin(l, "portal") /\ port' = l
  /\ UNCHANGED <<leg2, mail, sent, tab, grant, spent, poll, records, made>>

CancelKiroSsoLogin(l) ==
  /\ Session(l, "portal")
  /\ CloseSession(l)
  /\ UNCHANGED <<leg2, mail, sent, tab, grant, spent, poll, records, made>>

\* Ten minutes are over.  The portal's session has a timer that ends it, also
\* when nobody polls; it may run a little later.
Deadline(l) ==
  /\ login[l].on /\ ~login[l].over
  /\ login' = [login EXCEPT ![l].over = TRUE]
  /\ UNCHANGED <<port, leg2, mail, sent, tab, grant, spent, poll, records, made>>

TimerFires(l) ==
  /\ Session(l, "portal") /\ login[l].over
  /\ CloseSession(l)
  /\ UNCHANGED <<leg2, mail, sent, tab, grant, spent, poll, records, made>>

\* External: the user opens the page of a sign-in, perhaps in two tabs, and
\* signs in there, for a pasted callback too.
OpenTab(t, l) ==
  /\ tab[t].at = "closed" /\ login[l].kind \in {"portal", "pasted"}
  /\ tab' = [tab EXCEPT ![t] = [of |-> l, at |-> "page", via |-> NoLogin]]
  /\ UNCHANGED <<login, port, leg2, mail, sent, grant, spent, poll, records, made>>

TabGoes(t, at, s) == tab' = [tab EXCEPT ![t].at = at, ![t].via = s]

\* deliver: the first capture of a session counts.
Deliver(s, what, t) ==
  /\ sent' = sent \cup {s}
  /\ mail' = IF s \in sent THEN mail ELSE [mail EXCEPT ![s] = [what |-> what, tab |-> t]]

\* handleCallback, first leg of a company's account: its provider is looked up,
\* unless a tab was sent on already.
Descriptor(t) ==
  /\ tab[t].at = "page" /\ login[tab[t].of].kind = "portal" /\ port # NoLogin
  /\ leg2[port] = NoTab
  /\ TabGoes(t, "discover", port)
  /\ UNCHANGED <<login, port, leg2, mail, sent, grant, spent, poll, records, made>>

Discovered(t) ==
  /\ tab[t].at = "discover"
  /\ LET s == tab[t].via IN
     \/ /\ leg2[s] = NoTab
        /\ leg2' = [leg2 EXCEPT ![s] = t]
        /\ TabGoes(t, "idp", s)
        /\ UNCHANGED <<mail, sent>>
     \/ /\ leg2[s] # NoTab
        /\ TabGoes(t, "page", NoLogin)
        /\ UNCHANGED <<leg2, mail, sent>>
     \/ /\ Deliver(s, "error", NoTab)     \* no such provider, or none allowed
        /\ TabGoes(t, "page", NoLogin)
        /\ UNCHANGED leg2
  /\ UNCHANGED <<login, port, grant, spent, poll, records, made>>

\* Mutant: the second leg takes any code.
AnyIdpCode(t) ==
  /\ tab[t].at = "idp" /\ port # NoLogin
  /\ leg2[port] # NoTab
  /\ \E what \in {"idp", "error"} : Deliver(port, what, t)
  /\ TabGoes(t, "code", port)
  /\ UNCHANGED <<login, port, leg2, grant, spent, poll, records, made>>

\* handleCallback, second leg: the state must be the one of the leg in flight.
IdpCode(t) ==
  /\ tab[t].at = "idp" /\ port # NoLogin
  /\ leg2[port] = t
  /\ \E what \in {"idp", "error"} : Deliver(port, what, t)
  /\ TabGoes(t, "code", port)
  /\ UNCHANGED <<login, port, leg2, grant, spent, poll, records, made>>

\* handleCallback, Google and GitHub: the state must be the session's.
SocialCode(t) ==
  /\ tab[t].at = "page" /\ port # NoLogin
  /\ tab[t].of = port
  /\ \E what \in {"social", "error"} : Deliver(port, what, t)
  /\ TabGoes(t, "code", port)
  /\ UNCHANGED <<login, port, leg2, grant, spent, poll, records, made>>

\* A capture is fetched once, and ends the session whatever comes of it.
PollKiroSsoAuth(p, l) ==
  /\ poll[p].pc = "idle" /\ Session(l, "portal")
  /\ IF mail[l] # NoMail
       THEN /\ CloseSession(l)
            /\ mail' = [mail EXCEPT ![l] = NoMail]
            /\ IF mail[l].what = "error" THEN PollEnds(p) ELSE PollGoes(p, "exchange", l, mail[l])
       ELSE /\ login[l].over
            /\ CloseSession(l) /\ UNCHANGED <<mail, poll>>
  /\ UNCHANGED <<leg2, sent, tab, grant, spent, records, made>>

-----------------------------------------------------------------------------
(* Builder ID: a device code that the admin page polls.                    *)

\* A new session removes those whose time is over.
StartBuilderIdLogin(l) ==
  /\ login[l].kind = "none"
  /\ login' = [x \in Login |->
       IF x = l THEN [kind |-> "device", on |-> TRUE, over |-> FALSE]
       ELSE [login[x] EXCEPT !.on = @ /\ ~(login[x].kind = "device" /\ login[x].over)]]
  /\ UNCHANGED <<port, leg2, mail, sent, tab, grant, spent, poll, records, made>>

\* External.
UserDecides(l) ==
  /\ login[l].kind = "device" /\ grant[l] = "pending"
  /\ \E g \in {"approved", "denied"} : grant' = [grant EXCEPT ![l] = g]
  /\ UNCHANGED <<login, port, leg2, mail, sent, tab, spent, poll, records, made>>

PollBuilderIdAuth(p, l) ==
  /\ poll[p].pc = "idle" /\ Session(l, "device")
  /\ IF login[l].over THEN CloseSession(l) /\ UNCHANGED poll
     ELSE PollGoes(p, "token", l, NoMail) /\ UNCHANGED <<login, port>>
  /\ UNCHANGED <<leg2, mail, sent, tab, grant, spent, records, made>>

\* The provider gives the tokens once; the answer may get lost.
DeviceTokens(p) ==
  /\ poll[p].pc = "token" /\ grant[poll[p].of] = "approved"
  /\ grant' = [grant EXCEPT ![poll[p].of] = "redeemed"]
  /\ \/ /\ CloseSession(poll[p].of)
        /\ PollGoes(p, "add", poll[p].of, [what |-> "device", tab |-> NoTab])
     \/ PollEnds(p) /\ UNCHANGED <<login, port>>
  /\ UNCHANGED <<leg2, mail, sent, tab, spent, records, made>>

\* Pending, or an error; a denied or an expired code ends the session.
NoDeviceTokens(p) ==
  /\ poll[p].pc = "token"
  /\ IF grant[poll[p].of] = "denied" \/ login[poll[p].of].over
       THEN CloseSession(poll[p].of) ELSE UNCHANGED <<login, port>>
  /\ PollEnds(p)
  /\ UNCHANGED <<leg2, mail, sent, tab, grant, spent, records, made>>

-----------------------------------------------------------------------------
(* Identity center: the administrator pastes the callback's address.       *)

StartIamSsoLogin(l) ==
  /\ StartLogin(l, "pasted")
  /\ UNCHANGED <<port, leg2, mail, sent, tab, grant, spent, poll, records, made>>

\* A wrong state, or no code, leaves the session as it is.
CompleteIamSsoLogin(p, l, t) ==
  /\ poll[p].pc = "idle" /\ Session(l, "pasted")
  /\ tab[t].at = "page" /\ login[tab[t].of].kind = "pasted"
  /\ IF login[l].over THEN CloseSession(l) /\ UNCHANGED poll
     ELSE /\ tab[t].of = l
          /\ PollGoes(p, "exchange", l, [what |-> "pasted", tab |-> t])
          /\ UNCHANGED <<login, port>>
  /\ UNCHANGED <<leg2, mail, sent, tab, grant, spent, records, made>>

-----------------------------------------------------------------------------
(* The exchange of a code, and the account.                                *)

\* The verifier that goes with the code belongs to the flow the code is from.
Fits(l, got) == IF got.what = "idp" THEN leg2[l] = got.tab ELSE tab[got.tab].of = l

ExchangeCode(p) ==
  /\ poll[p].pc = "exchange"
  /\ poll[p].got.tab \notin spent /\ Fits(poll[p].of, poll[p].got)
  /\ spent' = spent \cup {poll[p].got.tab}
  /\ \/ CloseSession(poll[p].of) /\ PollGoes(p, "add", poll[p].of, poll[p].got)
     \/ PollEnds(p) /\ UNCHANGED <<login, port>>     \* the answer is lost
  /\ UNCHANGED <<leg2, mail, sent, tab, grant, records, made>>

ExchangeFails(p) ==
  /\ poll[p].pc = "exchange"
  /\ PollEnds(p)
  /\ UNCHANGED <<login, port, leg2, mail, sent, tab, grant, spent, records, made>>

Known == {records[k] : k \in DOMAIN records}

\* Two imports of one identifier: the second is refused.
AddAccountOnce(i) ==
  /\ i = "fresh" \/ i \notin Known
  /\ records' = Append(records, i)

\* The account of a sign-in has a fresh identifier.
AddAccount(p) ==
  /\ poll[p].pc = "add" /\ Len(records) < MaxRecord
  /\ AddAccountOnce("fresh")
  /\ made' = [made EXCEPT ![poll[p].of] = @ + 1]
  /\ PollEnds(p)
  /\ UNCHANGED <<login, port, leg2, mail, sent, tab, grant, spent>>

\* apiImportCredentials: an identifier that exists is replaced by a fresh one.
apiImportCredentials(p, i) ==
  /\ poll[p].pc = "idle"
  /\ IF i \in Known
       THEN PollGoes(p, "insert", NoLogin, NoMail) ELSE PollGoes(p, "insert", i, NoMail)
  /\ UNCHANGED <<login, port, leg2, mail, sent, tab, grant, spent, records, made>>

InsertImported(p) ==
  /\ poll[p].pc = "insert" /\ Len(records) < MaxRecord
  /\ \/ AddAccountOnce(IF poll[p].of = NoLogin THEN "fresh" ELSE poll[p].of)
     \/ poll[p].of \in Known /\ UNCHANGED records      \* refused
  /\ PollEnds(p)
  /\ UNCHANGED <<login, port, leg2, mail, sent, tab, grant, spent, made>>

\* apiImportSsoToken: line by line, each a device code this program approves
\* itself and then waits for; a line that fails does not stop the others.
apiImportSsoToken(p) ==
  /\ poll[p].pc = "idle"
  /\ PollGoes(p, "lines", NoLogin, NoMail)
  /\ UNCHANGED <<login, port, leg2, mail, sent, tab, grant, spent, records, made>>

ImportLine(p) ==
  /\ poll[p].pc = "lines"
  /\ \/ Len(records) < MaxRecord /\ AddAccountOnce("fresh") /\ UNCHANGED poll
     \/ PollEnds(p) /\ UNCHANGED records
  /\ UNCHANGED <<login, port, leg2, mail, sent, tab, grant, spent, made>>

LoginStep ==
  \/ \E l \in Login : \/ StartKiroSsoLogin(l) \/ StartBuilderIdLogin(l) \/ StartIamSsoLogin(l)
                      \/ CancelKiroSsoLogin(l) \/ Deadline(l) \/ TimerFires(l) \/ UserDecides(l)
  \/ \E t \in Tab : \/ Descriptor(t) \/ Discovered(t) \/ IdpCode(t) \/ SocialCode(t)
                    \/ \E l \in Login : OpenTab(t, l)
  \/ \E p \in Poller :
       \/ \E l \in Login : \/ PollKiroSsoAuth(p, l) \/ PollBuilderIdAuth(p, l)
                           \/ \E t \in Tab : CompleteIamSsoLogin(p, l, t)
       \/ DeviceTokens(p) \/ NoDeviceTokens(p) \/ ExchangeCode(p) \/ ExchangeFails(p)
       \/ AddAccount(p)

ImportStep ==
  \E p \in Poller :
    \/ \E i \in Pasted : apiImportCredentials(p, i)
    \/ InsertImported(p) \/ apiImportSsoToken(p) \/ ImportLine(p)

SignInNext == LoginStep \/ ImportStep

SignInSpec == SignInInit /\ [][SignInNext]_signInVars

-----------------------------------------------------------------------------
(* Properties.                                                             *)

\* A code is exchanged with the verifier of its own flow, whatever old tabs call
\* back, and a sign-in gives at most one account: concurrent polls do not fetch
\* a code twice.  (A pasted callback keeps its session until the exchange is
\* over: two pasted at once may give two.)  The port, which only one sign-in can
\* use, belongs to a session that somebody or its timer will still end, and no
\* identifier is in the configuration twice.
SignInIsExact ==
  /\ \A p \in Poller : poll[p].pc = "exchange" => Fits(poll[p].of, poll[p].got)
  /\ \A l \in Login : login[l].kind # "pasted" => made[l] <= 1
  /\ port # NoLogin => Session(port, "portal")
  /\ \A i, j \in DOMAIN records : records[i] = records[j] => i = j \/ records[i] = "fresh"
=============================================================================
