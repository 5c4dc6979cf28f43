------------------------------ MODULE AuthGate ------------------------------
(***************************************************************************)
(* The gate in front of the console: UserProvider.tsx decides from /me     *)
(* whether the sign-in page or the application is rendered, Login.tsx signs *)
(* in, lib/activeOrg.ts pins the organization every request names, and     *)
(* lib/useAccess.ts caches what the user may manage.                       *)
(*                                                                         *)
(* One browser tab is modelled.  The pin is in local storage and survives a *)
(* reload of the page; everything else in the tab does not.  The server is *)
(* the session of the cookie and the memberships, as the middleware reads  *)
(* them; it reads them when the call is answered.  The password-reset form *)
(* and the parts of the sign-in page that only inform are panels           *)
(* (PagePanels).                                                           *)
(***************************************************************************)

CONSTANTS
  Users,   \* the users
  Admin,   \* the one a fresh install has
  Orgs,    \* the organizations
  None     \* no user, no organization

ASSUME GateAssumption ==
  /\ Admin \in Users
  /\ Orgs # {}
  /\ None \notin Users /\ None \notin Orgs

VARIABLES
  fresh,     \* nobody has signed in to the install yet
  accounts,  \* the users it has
  sess,      \* the user of the session cookie
  member,    \* the organizations of each user
  pin,       \* the pinned organization (sluicio.active-org)
  gate,      \* UserProvider's state
  me,        \* the user of the answer that made it ready
  menu,      \* the organizations it offers to switch to
  fetches,   \* fetchMe calls under way: the try each is at
  mode,      \* the form the sign-in page shows
  mfaToken,  \* whose second factor it asks for
  busy,      \* its buttons are disabled
  setupBusy, \* those of the setup form
  sending,   \* sign-in calls under way, live while their form is mounted
  leaving,   \* signOut waits for the server
  unloading, \* the page was told to load another, and is still there
  cached,    \* whose access is cached
  inflight   \* whose access is on its way

gateVars == <<fresh, accounts, sess, member, pin, gate, me, menu, fetches, mode,
              mfaToken, busy, setupBusy, sending, leaving, unloading, cached,
              inflight>>

serverVars == <<fresh, accounts, sess, member>>
meVars == <<me, menu>>
formVars == <<mode, mfaToken, busy, setupBusy, sending>>
pageVars == <<leaving, unloading, cached, inflight>>

(* Types; and the application is rendered for a user, the second factor    *)
(* asked of one.                                                           *)
GateTypeOK ==
  /\ fresh \in BOOLEAN /\ accounts \in SUBSET Users
  /\ sess \in Users \cup {None}
  /\ member \in [Users -> SUBSET Orgs]
  /\ pin \in Orgs \cup {None}
  /\ gate \in {"loading", "ready", "out", "error"}
  /\ me \in Users \cup {None} /\ menu \in SUBSET Orgs
  /\ fetches \in SUBSET {"first", "retry"}
  /\ mode \in {"login", "mfa", "setup"} /\ mfaToken \in Users \cup {None}
  /\ gate = "ready" => me # None
  /\ mode = "mfa" => mfaToken # None
  /\ busy \in BOOLEAN /\ setupBusy \in BOOLEAN
  /\ sending \in SUBSET [form : {"login", "mfa", "setup"}, user : Users,
                         live : BOOLEAN]
  /\ leaving \in BOOLEAN /\ unloading \in BOOLEAN
  /\ cached \in Users \cup {None} /\ inflight \in Users \cup {None}

(* A request is refused, 401, without a session or with a pin that is not  *)
(* one of the user's organizations.  A user of none is not refused,        *)
(* whatever the pin.                                                       *)
Refused(p) ==
  sess # None => p # None /\ member[sess] # {} /\ p \notin member[sess]

(* The organization a request that is not refused is answered for: none    *)
(* for a user of none, else the pinned one, else the one joined first,     *)
(* which may be any of them, the order of joining not being kept here.     *)
DefaultMembership(u) == IF member[u] = {} THEN {None} ELSE member[u]

Resolve(p) ==
  IF p = None \/ member[sess] = {} THEN DefaultMembership(sess) ELSE {p}

(* The tab as it is after the page was loaded: fetchMe is called.          *)
PageLoad ==
  /\ gate' = "loading"
  /\ me' = None /\ menu' = {}
  /\ fetches' = {"first"}
  /\ mode' = "login" /\ mfaToken' = None /\ busy' = FALSE /\ setupBusy' = FALSE
  /\ sending' = {}
  /\ leaving' = FALSE /\ unloading' = FALSE
  /\ cached' = None /\ inflight' = None

GateInit ==
  /\ fresh \in BOOLEAN
  /\ accounts = IF fresh THEN {Admin} ELSE Users
  /\ sess = None
  /\ member \in [Users -> SUBSET Orgs]
  /\ \A u \in Users \ accounts : member[u] = {}
  /\ pin = None
  /\ gate = "loading" /\ me = None /\ menu = {} /\ fetches = {"first"}
  /\ mode = "login" /\ mfaToken = None /\ busy = FALSE /\ setupBusy = FALSE
  /\ sending = {}
  /\ leaving = FALSE /\ unloading = FALSE
  /\ cached = None /\ inflight = None

-----------------------------------------------------------------------------
(* fetchMe.                                                                *)

(* The sign-in page unmounts.  A call it made goes on without it.          *)
Unmount ==
  /\ mode' = "login" /\ mfaToken' = None /\ busy' = FALSE /\ setupBusy' = FALSE
  /\ sending' = {[c EXCEPT !.live = FALSE] : c \in sending}

(* The application is rendered.  Its menu has the other organizations.     *)
Enter(p) ==
  /\ gate' = "ready"
  /\ me' = sess
  /\ \E o \in Resolve(p) : menu' = member[sess] \ {o}
  /\ Unmount

MeAnswered(try) ==
  /\ try \in fetches
  /\ LET p == IF try = "first" THEN pin ELSE None
     IN  ~Refused(p) /\ Enter(p)
  /\ fetches' = fetches \ {try}
  /\ UNCHANGED <<serverVars, pin, pageVars>>

(* 401: a pin is dropped and /me asked once more; without a pin, or when   *)
(* that fails in any way, the user is signed out.                          *)
MeRefused ==
  /\ "first" \in fetches
  /\ Refused(pin)
  /\ pin' = None
  /\ IF pin # None
     THEN /\ fetches' = {"retry"} \cup (fetches \ {"first"})
          /\ UNCHANGED gate
     ELSE /\ fetches' = fetches \ {"first"}
          /\ gate' = "out"
  /\ UNCHANGED <<serverVars, meVars, formVars, pageVars>>

RetryFailsMutant ==
  /\ "retry" \in fetches
  /\ fetches' = fetches \ {"retry"}
  /\ UNCHANGED <<serverVars, pin, gate, meVars, formVars, pageVars>>

RetryFails ==
  /\ "retry" \in fetches
  /\ fetches' = fetches \ {"retry"}
  /\ gate' = "out"
  /\ UNCHANGED <<serverVars, pin, meVars, formVars, pageVars>>

(* The network or the server fails.                                        *)
MeFails ==
  /\ "first" \in fetches
  /\ fetches' = fetches \ {"first"}
  /\ gate' = "error"
  /\ Unmount
  /\ UNCHANGED <<serverVars, pin, meVars, pageVars>>

Retry ==
  /\ gate = "error"
  /\ gate' = "loading"
  /\ fetches' = fetches \cup {"first"}
  /\ UNCHANGED <<serverVars, pin, meVars, formVars, pageVars>>

-----------------------------------------------------------------------------
(* The sign-in page.                                                       *)

(* installState: a fresh install is greeted with the setup form.           *)
InstallStateArrives ==
  /\ gate = "out" /\ fresh /\ mode = "login"
  /\ mode' = "setup"
  /\ UNCHANGED <<serverVars, pin, gate, meVars, fetches, mfaToken, busy,
                 setupBusy, sending, pageVars>>

BackToLogin ==
  /\ gate = "out" /\ mode # "login"
  /\ mode' = "login"
  /\ mfaToken' = IF mode = "mfa" THEN None ELSE mfaToken
  /\ UNCHANGED <<serverVars, pin, gate, meVars, fetches, busy, setupBusy, sending,
                 pageVars>>

Submit(form, u) ==
  /\ gate = "out" /\ mode = form /\ u \in accounts
  /\ form = "mfa" => u = mfaToken
  /\ IF form = "setup" THEN ~setupBusy /\ setupBusy' = TRUE /\ UNCHANGED busy
                       ELSE ~busy /\ busy' = TRUE /\ UNCHANGED setupBusy
  /\ sending' = sending \cup {[form |-> form, user |-> u, live |-> TRUE]}
  /\ UNCHANGED <<serverVars, pin, gate, meVars, fetches, mode, mfaToken, pageVars>>

(* login, mfaVerify, or bootstrapAdmin and login: the cookie is set and    *)
(* fetchMe runs; the buttons stay disabled.                                *)
SignedIn(c) ==
  /\ c \in sending
  /\ c.form = "setup" => fresh
  /\ sending' = sending \ {c}
  /\ sess' = c.user
  /\ fresh' = FALSE
  /\ fetches' = fetches \cup {"first"}
  /\ UNCHANGED <<accounts, member, pin, gate, meVars, mode, mfaToken, busy, setupBusy,
                 pageVars>>

(* The account has a second factor.                                        *)
MfaRequiredMutant(c) ==
  /\ c \in sending /\ c.form = "login"
  /\ sending' = sending \ {c}
  /\ IF c.live THEN mode' = "mfa" /\ busy' = FALSE ELSE UNCHANGED <<mode, busy>>
  /\ UNCHANGED <<serverVars, pin, gate, meVars, fetches, mfaToken, setupBusy,
                 pageVars>>

MfaRequired(c) ==
  /\ c \in sending /\ c.form = "login"
  /\ sending' = sending \ {c}
  /\ IF c.live THEN mode' = "mfa" /\ mfaToken' = c.user /\ busy' = FALSE
               ELSE UNCHANGED <<mode, mfaToken, busy>>
  /\ UNCHANGED <<serverVars, pin, gate, meVars, fetches, setupBusy, pageVars>>

(* The call is refused, or its answer is lost after the server set the     *)
(* session.  A setup that came too late falls back to the sign-in form.    *)
SignInFails(c) ==
  /\ c \in sending
  /\ sending' = sending \ {c}
  /\ sess' \in {sess} \cup (IF c.form # "setup" \/ fresh THEN {c.user} ELSE {})
  /\ fresh' = (fresh /\ sess' = sess)
  /\ setupBusy' = (setupBusy /\ ~(c.live /\ c.form = "setup"))
  /\ busy' = (busy /\ ~(c.live /\ c.form # "setup"))
  /\ mode' \in IF c.live /\ c.form = "setup" THEN {mode, "login"} ELSE {mode}
  /\ UNCHANGED <<accounts, member, pin, gate, meVars, fetches, mfaToken, pageVars>>

-----------------------------------------------------------------------------
(* The application.                                                        *)

SignOut ==
  /\ gate = "ready" /\ ~leaving
  /\ leaving' = TRUE
  /\ UNCHANGED <<serverVars, pin, gate, meVars, fetches, formVars, unloading, cached,
                 inflight>>

(* The server ended the session, or the call failed; either way the pin is *)
(* dropped and the application unmounted.  What lives outside the          *)
(* components stays.                                                       *)
SignedOutMutant ==
  /\ leaving
  /\ leaving' = FALSE
  /\ sess' \in {None, sess}
  /\ gate' = "out"
  /\ UNCHANGED <<fresh, accounts, member, pin, meVars, fetches, formVars, unloading,
                 cached, inflight>>

SignedOutStayingMutant ==
  /\ leaving
  /\ leaving' = FALSE
  /\ \/ sess' = None /\ pin' = None /\ gate' = "out"
     \/ UNCHANGED <<sess, pin, gate>>
  /\ UNCHANGED <<fresh, accounts, member, meVars, fetches, formVars, unloading,
                 cached, inflight>>

SignedOut ==
  /\ leaving
  /\ leaving' = FALSE
  /\ sess' \in {None, sess}
  /\ pin' = None
  /\ gate' = "out"
  /\ UNCHANGED <<fresh, accounts, member, meVars, fetches, formVars, unloading, cached,
                 inflight>>

(* The organization menu offers the organizations /me listed, revoked since *)
(* or not, but for the active one.  The choice is pinned and the browser   *)
(* told to load the page anew; until it has, the mounted page goes on, its *)
(* requests under the new pin.                                             *)
SwitchToOrg(o) ==
  /\ gate = "ready"
  /\ o \in menu
  /\ pin' = o
  /\ unloading' = TRUE
  /\ UNCHANGED <<serverVars, gate, meVars, fetches, formVars, leaving, cached,
                 inflight>>

(* The first component that uses useAccess asks, the others share it.      *)
FetchAccess ==
  /\ gate = "ready" /\ cached = None /\ inflight = None
  /\ ~Refused(pin)
  /\ inflight' = sess
  /\ UNCHANGED <<serverVars, pin, gate, meVars, fetches, formVars, leaving,
                 unloading, cached>>

AccessAnswered ==
  /\ inflight # None
  /\ cached' \in {inflight, None}
  /\ inflight' = None
  /\ UNCHANGED <<serverVars, pin, gate, meVars, fetches, formVars, leaving,
                 unloading>>

-----------------------------------------------------------------------------
(* The page is loaded anew: the user reloads it, or switchToOrg did.  A    *)
(* call under way may reach the server.                                    *)
Reload ==
  /\ PageLoad
  /\ sess' \in {sess} \cup (IF leaving THEN {None} ELSE {})
                      \cup {c.user : c \in {d \in sending : d.form # "setup"}}
  /\ fresh' = (fresh /\ sess' = sess)
  /\ UNCHANGED <<accounts, member, pin>>

SessionExpires ==
  /\ sess # None
  /\ sess' = None
  /\ UNCHANGED <<fresh, accounts, member, pin, gate, meVars, fetches, formVars,
                 pageVars>>

(* An administrator adds the user to an organization, or removes them.     *)
AddMember(u, o) ==
  /\ u \in accounts /\ o \notin member[u]
  /\ member' = [member EXCEPT ![u] = @ \cup {o}]
  /\ UNCHANGED <<fresh, accounts, sess, pin, gate, meVars, fetches, formVars, pageVars>>

RemoveMember(u, o) ==
  /\ o \in member[u]
  /\ member' = [member EXCEPT ![u] = @ \ {o}]
  /\ UNCHANGED <<fresh, accounts, sess, pin, gate, meVars, fetches, formVars, pageVars>>

GateNext ==
  \/ \E try \in {"first", "retry"} : MeAnswered(try)
  \/ MeRefused
  \/ RetryFails
  \/ MeFails
  \/ Retry
  \/ InstallStateArrives
  \/ BackToLogin
  \/ \E form \in {"login", "mfa", "setup"}, u \in Users : Submit(form, u)
  \/ \E c \in sending : SignedIn(c) \/ MfaRequired(c) \/ SignInFails(c)
  \/ SignOut
  \/ SignedOut
  \/ \E o \in Orgs : SwitchToOrg(o)
  \/ FetchAccess
  \/ AccessAnswered
  \/ Reload
  \/ SessionExpires
  \/ \E u \in Users, o \in Orgs : AddMember(u, o) \/ RemoveMember(u, o)

FetchEnds(try) ==
  \/ MeAnswered(try)
  \/ try = "first" /\ (MeRefused \/ MeFails)
  \/ try = "retry" /\ RetryFails

GateSpec == GateInit /\ [][GateNext]_gateVars

-----------------------------------------------------------------------------
(* "The org pin is per-person, not per-browser": whoever is shown the      *)
(* sign-in page, by signing out, by an expired session or by a membership  *)
(* that was taken away, finds no pin in the browser.  The one way there is *)
(* to see it with a pin, two sign-ins of a fresh install and a switch      *)
(* between their answers, needs a page that is about to be loaded anew and *)
(* leaves the pin to nobody else.                                          *)
OutUnpinned ==
  gate = "out" => pin = None \/ (unloading /\ accounts = {Admin})

(* What the application offers to manage is what its user may manage: the  *)
(* access is fetched "once per session".                                   *)
AccessIsOwn == gate = "ready" /\ cached # None => cached = me

=============================================================================
