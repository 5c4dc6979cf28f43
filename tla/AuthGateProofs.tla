---------------------------- MODULE AuthGateProofs ----------------------------
(***************************************************************************)
(* Theorems about the gate, for any users, organizations and memberships.  *)
(*                                                                         *)
(* The invariant has two parts beside the type.  PinInv: a pin is only     *)
(* there while the page is loaded or shown, with no second fetchMe and no  *)
(* sign-in call under way.  FormInv: where there are several users,        *)
(* sign-in calls and fetchMe calls follow each other and none outlives the *)
(* sign-in page.  A fresh install may have two sign-in calls under way, so *)
(* its one user may switch the organization with a fetchMe under way.      *)
(***************************************************************************)
EXTENDS AuthGate, TLAPS

Many == accounts # {Admin}

PinInv ==
  (unloading => Many) =>
    /\ "retry" \in fetches => pin = None
    /\ pin # None =>
         /\ gate # "out"
         /\ sending = {}
         /\ gate \in {"ready", "error"} => fetches = {}

FormInv ==
  Many =>
    /\ ~fresh /\ mode # "setup"
    /\ \A c \in sending : c.form # "setup"
    /\ \A c, d \in sending : c = d
    /\ sending # {} => gate = "out" /\ fetches = {} /\ busy
    /\ gate \in {"ready", "error"} => fetches = {}
    /\ gate = "out" /\ fetches # {} => busy
    /\ fetches # {"first", "retry"}
    /\ leaving => gate = "ready"

GateInv ==
  /\ GateTypeOK
  /\ OutUnpinned
  /\ PinInv
  /\ FormInv

-----------------------------------------------------------------------------
(* The sign-in page unmounts: its calls stay what they are.                *)
LEMMA UnmountKeeps ==
  ASSUME GateTypeOK, Unmount
  PROVE  /\ mode' = "login" /\ mfaToken' = None /\ ~busy' /\ ~setupBusy'
         /\ busy' \in BOOLEAN /\ setupBusy' \in BOOLEAN
         /\ sending' \in SUBSET [form : {"login", "mfa", "setup"}, user : Users,
                                 live : BOOLEAN]
         /\ sending = {} => sending' = {}
         /\ \A c \in sending' : \E d \in sending : c.user = d.user /\ c.form = d.form
<1>1. \A c \in sending :
        /\ [c EXCEPT !.live = FALSE] \in [form : {"login", "mfa", "setup"},
                                          user : Users, live : BOOLEAN]
        /\ [c EXCEPT !.live = FALSE].user = c.user
        /\ [c EXCEPT !.live = FALSE].form = c.form
  BY DEF GateTypeOK
<1>2. sending' = {[c EXCEPT !.live = FALSE] : c \in sending}
  BY DEF Unmount
<1>3. \A c \in sending' : \E d \in sending : c = [d EXCEPT !.live = FALSE]
  BY <1>2
<1>4. sending = {} => sending' = {}
  BY <1>3
<1>5. sending' \in SUBSET [form : {"login", "mfa", "setup"}, user : Users,
                           live : BOOLEAN]
  BY <1>1, <1>3
<1>6. \A c \in sending' : \E d \in sending : c.user = d.user /\ c.form = d.form
  BY <1>1, <1>3
<1> QED BY <1>4, <1>5, <1>6 DEF Unmount

LEMMA MeRefusedKeeps ==
  ASSUME GateInv, MeRefused
  PROVE  GateInv'
<1>0. GateTypeOK /\ OutUnpinned /\ PinInv /\ FormInv
  BY DEF GateInv
<1>1. accounts' = accounts /\ Many' = Many
  BY DEF Many, MeRefused, serverVars
<1>2. GateTypeOK'
  <2>1. fetches' \in SUBSET {"first", "retry"}
    BY <1>0 DEF MeRefused, GateTypeOK
  <2>2. gate' \in {"out", gate}
    BY DEF MeRefused
  <2> QED BY <1>0, <2>1, <2>2
          DEF MeRefused, serverVars, formVars, meVars, pageVars, GateTypeOK
<1>3. OutUnpinned'
  BY <1>0, <1>1, GateAssumption DEF MeRefused, serverVars, formVars, meVars, pageVars, OutUnpinned, PinInv, Many
<1>4. PinInv'
  BY <1>0, <1>1, GateAssumption DEF MeRefused, serverVars, formVars, meVars, pageVars, PinInv, OutUnpinned, GateTypeOK
<1>5. FormInv'
  <2>1. CASE pin = None
    BY <1>0, <1>1, <2>1
    DEF MeRefused, serverVars, formVars, meVars, pageVars, FormInv, GateTypeOK
  <2>2. CASE pin # None
    <3>1. fetches' \subseteq {"retry"} /\ gate' = gate
      BY <1>0, <2>2 DEF MeRefused, GateTypeOK
    <3>2. Many => gate \notin {"out", "ready", "error"}
      BY <1>0, <2>2 DEF MeRefused, PinInv
    <3> QED BY <1>0, <1>1, <2>2, <3>1, <3>2
        DEF MeRefused, serverVars, formVars, meVars, pageVars, FormInv, PinInv
  <2> QED BY <2>1, <2>2
<1> QED BY <1>2, <1>3, <1>4, <1>5 DEF GateInv

LEMMA RetryFailsKeeps ==
  ASSUME GateInv, RetryFails
  PROVE  GateInv'
<1>0. GateTypeOK /\ OutUnpinned /\ PinInv /\ FormInv
  BY DEF GateInv
<1>1. accounts' = accounts /\ Many' = Many
  BY DEF Many, RetryFails, serverVars
<1>2. GateTypeOK'
  BY <1>0, GateAssumption DEF RetryFails, serverVars, formVars, meVars, pageVars, GateTypeOK
<1>3. OutUnpinned'
  BY <1>0, <1>1, GateAssumption DEF RetryFails, serverVars, formVars, meVars, pageVars, OutUnpinned, PinInv, Many
<1>4. PinInv'
  BY <1>0, <1>1, GateAssumption DEF RetryFails, serverVars, formVars, meVars, pageVars, PinInv, OutUnpinned, GateTypeOK
<1>5. FormInv'
  BY <1>0, <1>1, GateAssumption DEF RetryFails, serverVars, formVars, meVars, pageVars, FormInv, GateTypeOK
<1> QED BY <1>2, <1>3, <1>4, <1>5 DEF GateInv

LEMMA MeFailsKeeps ==
  ASSUME GateInv, MeFails
  PROVE  GateInv'
<1>0. GateTypeOK /\ OutUnpinned /\ PinInv /\ FormInv
  BY DEF GateInv
<1>1. accounts' = accounts /\ Many' = Many
  BY DEF Many, MeFails, Unmount, serverVars
<1>2. GateTypeOK'
  BY <1>0, UnmountKeeps, GateAssumption DEF MeFails, serverVars, formVars, meVars, pageVars, GateTypeOK
<1>3. OutUnpinned'
  BY <1>0, <1>1, UnmountKeeps, GateAssumption DEF MeFails, serverVars, formVars, meVars, pageVars, OutUnpinned, PinInv, Many
<1>4. PinInv'
  BY <1>0, <1>1, UnmountKeeps, GateAssumption DEF MeFails, serverVars, formVars, meVars, pageVars, PinInv, OutUnpinned, GateTypeOK
<1>5. FormInv'
  BY <1>0, <1>1, UnmountKeeps, GateAssumption DEF MeFails, serverVars, formVars, meVars, pageVars, FormInv, GateTypeOK
<1> QED BY <1>2, <1>3, <1>4, <1>5 DEF GateInv

LEMMA RetryKeeps ==
  ASSUME GateInv, Retry
  PROVE  GateInv'
<1>0. GateTypeOK /\ OutUnpinned /\ PinInv /\ FormInv
  BY DEF GateInv
<1>1. accounts' = accounts /\ Many' = Many
  BY DEF Many, Retry, serverVars
<1>2. GateTypeOK'
  BY <1>0, GateAssumption DEF Retry, serverVars, formVars, meVars, pageVars, GateTypeOK
<1>3. OutUnpinned'
  BY <1>0, <1>1, GateAssumption DEF Retry, serverVars, formVars, meVars, pageVars, OutUnpinned, PinInv, Many
<1>4. PinInv'
  BY <1>0, <1>1, GateAssumption DEF Retry, serverVars, formVars, meVars, pageVars, PinInv, OutUnpinned, GateTypeOK
<1>5. FormInv'
  BY <1>0, <1>1, GateAssumption DEF Retry, serverVars, formVars, meVars, pageVars, FormInv, GateTypeOK
<1> QED BY <1>2, <1>3, <1>4, <1>5 DEF GateInv

LEMMA InstallStateKeeps ==
  ASSUME GateInv, InstallStateArrives
  PROVE  GateInv'
<1>0. GateTypeOK /\ OutUnpinned /\ PinInv /\ FormInv
  BY DEF GateInv
<1>1. accounts' = accounts /\ Many' = Many
  BY DEF Many, InstallStateArrives, serverVars
<1>2. GateTypeOK'
  BY <1>0, GateAssumption DEF InstallStateArrives, serverVars, formVars, meVars, pageVars, GateTypeOK
<1>3. OutUnpinned'
  BY <1>0, <1>1, GateAssumption DEF InstallStateArrives, serverVars, formVars, meVars, pageVars, OutUnpinned, PinInv, Many
<1>4. PinInv'
  BY <1>0, <1>1, GateAssumption DEF InstallStateArrives, serverVars, formVars, meVars, pageVars, PinInv, OutUnpinned, GateTypeOK
<1>5. FormInv'
  BY <1>0, <1>1, GateAssumption DEF InstallStateArrives, serverVars, formVars, meVars, pageVars, FormInv, GateTypeOK
<1> QED BY <1>2, <1>3, <1>4, <1>5 DEF GateInv

LEMMA BackToLoginKeeps ==
  ASSUME GateInv, BackToLogin
  PROVE  GateInv'
<1>0. GateTypeOK /\ OutUnpinned /\ PinInv /\ FormInv
  BY DEF GateInv
<1>1. accounts' = accounts /\ Many' = Many
  BY DEF Many, BackToLogin, serverVars
<1>2. GateTypeOK'
  BY <1>0, GateAssumption DEF BackToLogin, serverVars, formVars, meVars, pageVars, GateTypeOK
<1>3. OutUnpinned'
  BY <1>0, <1>1, GateAssumption DEF BackToLogin, serverVars, formVars, meVars, pageVars, OutUnpinned, PinInv, Many
<1>4. PinInv'
  BY <1>0, <1>1, GateAssumption DEF BackToLogin, serverVars, formVars, meVars, pageVars, PinInv, OutUnpinned, GateTypeOK
<1>5. FormInv'
  BY <1>0, <1>1, GateAssumption DEF BackToLogin, serverVars, formVars, meVars, pageVars, FormInv, GateTypeOK
<1> QED BY <1>2, <1>3, <1>4, <1>5 DEF GateInv

LEMMA SignOutKeeps ==
  ASSUME GateInv, SignOut
  PROVE  GateInv'
<1>0. GateTypeOK /\ OutUnpinned /\ PinInv /\ FormInv
  BY DEF GateInv
<1>1. accounts' = accounts /\ Many' = Many
  BY DEF Many, SignOut, serverVars
<1>2. GateTypeOK'
  BY <1>0, GateAssumption DEF SignOut, serverVars, formVars, meVars, pageVars, GateTypeOK
<1>3. OutUnpinned'
  BY <1>0, <1>1, GateAssumption DEF SignOut, serverVars, formVars, meVars, pageVars, OutUnpinned, PinInv, Many
<1>4. PinInv'
  BY <1>0, <1>1, GateAssumption DEF SignOut, serverVars, formVars, meVars, pageVars, PinInv, OutUnpinned, GateTypeOK
<1>5. FormInv'
  BY <1>0, <1>1, GateAssumption DEF SignOut, serverVars, formVars, meVars, pageVars, FormInv, GateTypeOK
<1> QED BY <1>2, <1>3, <1>4, <1>5 DEF GateInv

LEMMA SignedOutKeeps ==
  ASSUME GateInv, SignedOut
  PROVE  GateInv'
<1>0. GateTypeOK /\ OutUnpinned /\ PinInv /\ FormInv
  BY DEF GateInv
<1>1. accounts' = accounts /\ Many' = Many
  BY DEF Many, SignedOut, serverVars
<1>2. GateTypeOK'
  BY <1>0, GateAssumption DEF SignedOut, serverVars, formVars, meVars, pageVars, GateTypeOK
<1>3. OutUnpinned'
  BY <1>0, <1>1, GateAssumption DEF SignedOut, serverVars, formVars, meVars, pageVars, OutUnpinned, PinInv, Many
<1>4. PinInv'
  BY <1>0, <1>1, GateAssumption DEF SignedOut, serverVars, formVars, meVars, pageVars, PinInv, OutUnpinned, GateTypeOK
<1>5. FormInv'
  BY <1>0, <1>1, GateAssumption DEF SignedOut, serverVars, formVars, meVars, pageVars, FormInv, GateTypeOK
<1> QED BY <1>2, <1>3, <1>4, <1>5 DEF GateInv

LEMMA FetchAccessKeeps ==
  ASSUME GateInv, FetchAccess
  PROVE  GateInv'
<1>0. GateTypeOK /\ OutUnpinned /\ PinInv /\ FormInv
  BY DEF GateInv
<1>1. accounts' = accounts /\ Many' = Many
  BY DEF Many, FetchAccess, serverVars
<1>2. GateTypeOK'
  BY <1>0, GateAssumption DEF FetchAccess, serverVars, formVars, meVars, pageVars, GateTypeOK
<1>3. OutUnpinned'
  BY <1>0, <1>1, GateAssumption DEF FetchAccess, serverVars, formVars, meVars, pageVars, OutUnpinned, PinInv, Many
<1>4. PinInv'
  BY <1>0, <1>1, GateAssumption DEF FetchAccess, serverVars, formVars, meVars, pageVars, PinInv, OutUnpinned, GateTypeOK
<1>5. FormInv'
  BY <1>0, <1>1, GateAssumption DEF FetchAccess, serverVars, formVars, meVars, pageVars, FormInv, GateTypeOK
<1> QED BY <1>2, <1>3, <1>4, <1>5 DEF GateInv

LEMMA AccessAnsweredKeeps ==
  ASSUME GateInv, AccessAnswered
  PROVE  GateInv'
<1>0. GateTypeOK /\ OutUnpinned /\ PinInv /\ FormInv
  BY DEF GateInv
<1>1. accounts' = accounts /\ Many' = Many
  BY DEF Many, AccessAnswered, serverVars
<1>2. GateTypeOK'
  BY <1>0, GateAssumption DEF AccessAnswered, serverVars, formVars, meVars, pageVars, GateTypeOK
<1>3. OutUnpinned'
  BY <1>0, <1>1, GateAssumption DEF AccessAnswered, serverVars, formVars, meVars, pageVars, OutUnpinned, PinInv, Many
<1>4. PinInv'
  BY <1>0, <1>1, GateAssumption DEF AccessAnswered, serverVars, formVars, meVars, pageVars, PinInv, OutUnpinned, GateTypeOK
<1>5. FormInv'
  BY <1>0, <1>1, GateAssumption DEF AccessAnswered, serverVars, formVars, meVars, pageVars, FormInv, GateTypeOK
<1> QED BY <1>2, <1>3, <1>4, <1>5 DEF GateInv

LEMMA SessionExpiresKeeps ==
  ASSUME GateInv, SessionExpires
  PROVE  GateInv'
<1>0. GateTypeOK /\ OutUnpinned /\ PinInv /\ FormInv
  BY DEF GateInv
<1>1. accounts' = accounts /\ Many' = Many
  BY DEF Many, SessionExpires, serverVars
<1>2. GateTypeOK'
  BY <1>0, GateAssumption DEF SessionExpires, serverVars, formVars, meVars, pageVars, GateTypeOK
<1>3. OutUnpinned'
  BY <1>0, <1>1, GateAssumption DEF SessionExpires, serverVars, formVars, meVars, pageVars, OutUnpinned, PinInv, Many
<1>4. PinInv'
  BY <1>0, <1>1, GateAssumption DEF SessionExpires, serverVars, formVars, meVars, pageVars, PinInv, OutUnpinned, GateTypeOK
<1>5. FormInv'
  BY <1>0, <1>1, GateAssumption DEF SessionExpires, serverVars, formVars, meVars, pageVars, FormInv, GateTypeOK
<1> QED BY <1>2, <1>3, <1>4, <1>5 DEF GateInv

LEMMA ReloadKeeps ==
  ASSUME GateInv, Reload
  PROVE  GateInv'
<1>0. GateTypeOK /\ OutUnpinned /\ PinInv /\ FormInv
  BY DEF GateInv
<1>1. accounts' = accounts /\ Many' = Many
  BY DEF Many, Reload, PageLoad, serverVars
<1>2. GateTypeOK'
  BY <1>0, GateAssumption DEF Reload, PageLoad, serverVars, formVars, meVars, pageVars, GateTypeOK
<1>3. OutUnpinned'
  BY <1>0, <1>1, GateAssumption DEF Reload, PageLoad, serverVars, formVars, meVars, pageVars, OutUnpinned, PinInv, Many
<1>4. PinInv'
  BY <1>0, <1>1, GateAssumption DEF Reload, PageLoad, serverVars, formVars, meVars, pageVars, PinInv, OutUnpinned, GateTypeOK
<1>5. FormInv'
  BY <1>0, <1>1, GateAssumption DEF Reload, PageLoad, serverVars, formVars, meVars, pageVars, FormInv, GateTypeOK
<1> QED BY <1>2, <1>3, <1>4, <1>5 DEF GateInv

LEMMA MeAnsweredKeeps ==
  ASSUME GateInv, NEW try \in {"first", "retry"}, MeAnswered(try)
  PROVE  GateInv'
<1>0. GateTypeOK /\ OutUnpinned /\ PinInv /\ FormInv
  BY DEF GateInv
<1>1. accounts' = accounts /\ Many' = Many
  BY DEF Many, MeAnswered, serverVars
<1> DEFINE p == IF try = "first" THEN pin ELSE None
<1>a. /\ ~Refused(p)
      /\ gate' = "ready" /\ me' = sess
      /\ \E o \in Resolve(p) : menu' = member[sess] \ {o}
      /\ Unmount
      /\ fetches' = fetches \ {try} /\ try \in fetches
      /\ UNCHANGED <<fresh, accounts, sess, member, pin, leaving, unloading, cached,
                     inflight>>
  BY <1>0 DEF MeAnswered, Enter, serverVars, pageVars
<1>b. sess \in Users /\ sess # None
  BY <1>0, <1>a DEF Refused, GateTypeOK
<1>. HIDE DEF p
<1>2. GateTypeOK'
  <2>1. menu' \in SUBSET Orgs
    BY <1>0, <1>a, <1>b DEF GateTypeOK
  <2> QED BY <1>0, <1>a, <1>b, <2>1, UnmountKeeps DEF GateTypeOK
<1>3. OutUnpinned'
  BY <1>a DEF OutUnpinned
<1>4. PinInv'
  BY <1>0, <1>1, <1>a, UnmountKeeps DEF PinInv, GateTypeOK
<1>5. FormInv'
  BY <1>0, <1>1, <1>a, UnmountKeeps DEF FormInv, GateTypeOK
<1> QED BY <1>2, <1>3, <1>4, <1>5 DEF GateInv

LEMMA SubmitKeeps ==
  ASSUME GateInv, NEW form \in {"login", "mfa", "setup"}, NEW u \in Users,
         Submit(form, u)
  PROVE  GateInv'
<1>0. GateTypeOK /\ OutUnpinned /\ PinInv /\ FormInv
  BY DEF GateInv
<1>1. accounts' = accounts /\ Many' = Many
  BY DEF Many, Submit, serverVars
<1> DEFINE new == [form |-> form, user |-> u, live |-> TRUE]
<1>a. /\ new \in [form : {"login", "mfa", "setup"}, user : Users, live : BOOLEAN]
      /\ new.form = form /\ new.user = u
      /\ sending' = sending \cup {new}
  BY DEF Submit
<1>b. /\ gate = "out" /\ mode = form
      /\ form # "setup" => ~busy /\ busy'
      /\ busy' \in BOOLEAN /\ setupBusy' \in BOOLEAN
      /\ UNCHANGED <<fresh, accounts, sess, member, pin, gate, me, menu, fetches,
                     mode, mfaToken, leaving, unloading, cached, inflight>>
  BY <1>0 DEF Submit, serverVars, meVars, pageVars, GateTypeOK
<1>. HIDE DEF new
<1>2. GateTypeOK'
  BY <1>0, <1>a, <1>b DEF GateTypeOK
<1>3. OutUnpinned'
  BY <1>0, <1>b DEF OutUnpinned
<1>4. PinInv'
  BY <1>0, <1>1, <1>b DEF PinInv, OutUnpinned, Many
<1>5. FormInv'
  BY <1>0, <1>1, <1>a, <1>b DEF FormInv
<1> QED BY <1>2, <1>3, <1>4, <1>5 DEF GateInv

LEMMA SignedInKeeps ==
  ASSUME GateInv, NEW c \in sending, SignedIn(c)
  PROVE  GateInv'
<1>0. GateTypeOK /\ OutUnpinned /\ PinInv /\ FormInv
  BY DEF GateInv
<1>1. accounts' = accounts /\ Many' = Many
  BY DEF Many, SignedIn
<1>a. c.user \in Users
  BY <1>0 DEF GateTypeOK
<1>2. GateTypeOK'
  <2>1. fetches' \in SUBSET {"first", "retry"} /\ sess' \in Users /\ ~fresh'
    BY <1>0, <1>a DEF SignedIn, GateTypeOK
  <2>2. fresh' \in BOOLEAN
    BY DEF SignedIn
  <2>3. sending' \in SUBSET [form : {"login", "mfa", "setup"}, user : Users,
                             live : BOOLEAN]
    BY <1>0 DEF SignedIn, GateTypeOK
  <2> QED BY <1>0, <2>1, <2>2, <2>3 DEF SignedIn, pageVars, meVars, GateTypeOK
<1>3. OutUnpinned'
  BY <1>0 DEF SignedIn, pageVars, OutUnpinned
<1>4. PinInv'
  BY <1>0, <1>1 DEF SignedIn, PinInv, pageVars
<1>5. FormInv'
  BY <1>0, <1>1 DEF SignedIn, FormInv, pageVars
<1> QED BY <1>2, <1>3, <1>4, <1>5 DEF GateInv

LEMMA MfaRequiredKeeps ==
  ASSUME GateInv, NEW c \in sending, MfaRequired(c)
  PROVE  GateInv'
<1>0. GateTypeOK /\ OutUnpinned /\ PinInv /\ FormInv
  BY DEF GateInv
<1>1. accounts' = accounts /\ Many' = Many
  BY DEF Many, MfaRequired, serverVars
<1>a. /\ sending' = sending \ {c}
      /\ \/ mode' = "mfa" /\ mfaToken' = c.user /\ busy' = FALSE
         \/ UNCHANGED <<mode, mfaToken, busy>>
      /\ UNCHANGED <<fresh, accounts, sess, member, pin, gate, me, menu, fetches,
                     setupBusy, leaving, unloading, cached, inflight>>
  BY DEF MfaRequired, serverVars, meVars, pageVars
<1>b. c.user \in Users /\ c.user # None
  BY <1>0, GateAssumption DEF GateTypeOK
<1>2. GateTypeOK'
  <2>1. sending' \in SUBSET [form : {"login", "mfa", "setup"}, user : Users,
                             live : BOOLEAN]
    BY <1>0, <1>a DEF GateTypeOK
  <2>2. /\ mode' \in {"login", "mfa", "setup"} /\ mfaToken' \in Users \cup {None}
        /\ mode' = "mfa" => mfaToken' # None
        /\ busy' \in BOOLEAN
    BY <1>0, <1>a, <1>b DEF GateTypeOK
  <2> QED BY <1>0, <1>a, <2>1, <2>2 DEF GateTypeOK
<1>3. OutUnpinned'
  BY <1>0, <1>a DEF OutUnpinned
<1>4. PinInv'
  BY <1>0, <1>1, <1>a DEF PinInv
<1>5. FormInv'
  BY <1>0, <1>1, <1>a DEF FormInv
<1> QED BY <1>2, <1>3, <1>4, <1>5 DEF GateInv

LEMMA SignInFailsKeeps ==
  ASSUME GateInv, NEW c \in sending, SignInFails(c)
  PROVE  GateInv'
<1>0. GateTypeOK /\ OutUnpinned /\ PinInv /\ FormInv
  BY DEF GateInv
<1>1. accounts' = accounts /\ Many' = Many
  BY DEF Many, SignInFails
<1>a. /\ sending' = sending \ {c}
      /\ sess' \in {sess, c.user}
      /\ fresh' \in BOOLEAN /\ (fresh' => fresh)
      /\ setupBusy' \in BOOLEAN /\ busy' \in BOOLEAN
      /\ mode' \in {mode, "login"}
      /\ UNCHANGED <<accounts, member, pin, gate, me, menu, fetches, mfaToken,
                     leaving, unloading, cached, inflight>>
  BY <1>0 DEF SignInFails, meVars, pageVars, GateTypeOK
<1>b. c.user \in Users
  BY <1>0 DEF GateTypeOK
<1>2. GateTypeOK'
  BY <1>0, <1>a, <1>b DEF GateTypeOK
<1>3. OutUnpinned'
  BY <1>0, <1>a DEF OutUnpinned
<1>4. PinInv'
  BY <1>0, <1>1, <1>a DEF PinInv
<1>5. FormInv'
  BY <1>0, <1>1, <1>a DEF FormInv
<1> QED BY <1>2, <1>3, <1>4, <1>5 DEF GateInv

(* Where there are several users, nothing is under way when one of them    *)
(* switches.                                                               *)
LEMMA SwitchToOrgKeeps ==
  ASSUME GateInv, NEW o \in Orgs, SwitchToOrg(o)
  PROVE  GateInv'
<1>0. GateTypeOK /\ OutUnpinned /\ PinInv /\ FormInv
  BY DEF GateInv
<1>1. accounts' = accounts /\ Many' = Many
  BY DEF Many, SwitchToOrg, serverVars
<1>a. /\ gate = "ready" /\ pin' = o /\ unloading' = TRUE
      /\ UNCHANGED <<fresh, accounts, sess, member, gate, me, menu, fetches, mode,
                     mfaToken, busy, setupBusy, sending, leaving, cached, inflight>>
  BY DEF SwitchToOrg, serverVars, meVars, formVars
<1>2. GateTypeOK'
  BY <1>0, <1>a DEF GateTypeOK
<1>3. OutUnpinned'
  BY <1>a DEF OutUnpinned
<1>4. PinInv'
  <2>1. Many => fetches = {} /\ sending = {}
    BY <1>0, <1>a DEF FormInv
  <2> QED BY <1>1, <1>a, <2>1 DEF PinInv
<1>5. FormInv'
  BY <1>0, <1>1, <1>a DEF FormInv
<1> QED BY <1>2, <1>3, <1>4, <1>5 DEF GateInv

LEMMA MembersKeep ==
  ASSUME GateInv, NEW u \in Users, NEW o \in Orgs,
         AddMember(u, o) \/ RemoveMember(u, o)
  PROVE  GateInv'
<1>1. member' \in [Users -> SUBSET Orgs]
  BY DEF AddMember, RemoveMember, GateInv, GateTypeOK
<1>2. UNCHANGED <<fresh, accounts, sess, pin, gate, me, menu, fetches, mode,
                  mfaToken, busy, setupBusy, sending, leaving, unloading, cached,
                  inflight>>
  BY DEF AddMember, RemoveMember, meVars, formVars, pageVars
<1>3. GateTypeOK'
  BY <1>1, <1>2 DEF GateInv, GateTypeOK
<1>4. OutUnpinned' /\ PinInv' /\ FormInv'
  BY <1>2 DEF GateInv, OutUnpinned, PinInv, FormInv, Many
<1> QED BY <1>3, <1>4 DEF GateInv

LEMMA GateInitInv == GateInit => GateInv
<1> SUFFICES ASSUME GateInit PROVE GateInv
  OBVIOUS
<1>1. GateTypeOK /\ OutUnpinned
  BY GateAssumption DEF GateInit, GateTypeOK, OutUnpinned
<1>2. PinInv
  BY DEF GateInit, PinInv
<1>3. Many => ~fresh
  BY DEF GateInit, Many
<1>4. FormInv
  BY <1>3 DEF GateInit, FormInv
<1> QED BY <1>1, <1>2, <1>4 DEF GateInv

LEMMA GateStepInv == GateInv /\ [GateNext]_gateVars => GateInv'
<1> SUFFICES ASSUME GateInv, [GateNext]_gateVars PROVE GateInv'
  OBVIOUS
<1>1. CASE \E try \in {"first", "retry"} : MeAnswered(try)
  BY <1>1, MeAnsweredKeeps
<1>2. CASE MeRefused \/ RetryFails \/ MeFails \/ Retry
  BY <1>2, MeRefusedKeeps, RetryFailsKeeps, MeFailsKeeps, RetryKeeps
<1>3. CASE InstallStateArrives \/ BackToLogin
  BY <1>3, InstallStateKeeps, BackToLoginKeeps
<1>4. CASE \E form \in {"login", "mfa", "setup"}, u \in Users : Submit(form, u)
  BY <1>4, SubmitKeeps
<1>5. CASE \E c \in sending : SignedIn(c) \/ MfaRequired(c) \/ SignInFails(c)
  BY <1>5, SignedInKeeps, MfaRequiredKeeps, SignInFailsKeeps
<1>6. CASE SignOut \/ SignedOut
  BY <1>6, SignOutKeeps, SignedOutKeeps
<1>7. CASE \E o \in Orgs : SwitchToOrg(o)
  BY <1>7, SwitchToOrgKeeps
<1>8. CASE FetchAccess \/ AccessAnswered
  BY <1>8, FetchAccessKeeps, AccessAnsweredKeeps
<1>9. CASE Reload \/ SessionExpires
  BY <1>9, ReloadKeeps, SessionExpiresKeeps
<1>10. CASE \E u \in Users, o \in Orgs : AddMember(u, o) \/ RemoveMember(u, o)
  BY <1>10, MembersKeep
<1>11. CASE UNCHANGED gateVars
  BY <1>11 DEF GateInv, GateTypeOK, OutUnpinned, PinInv, FormInv, Many, gateVars
<1> QED
  BY <1>1, <1>2, <1>3, <1>4, <1>5, <1>6, <1>7, <1>8, <1>9, <1>10, <1>11
  DEF GateNext

LEMMA GateInvariant == GateSpec => []GateInv
<1> QED BY GateInitInv, GateStepInv, PTL DEF GateSpec

(* The application is only rendered for a user that /me named, and the     *)
(* second factor only asked of one.                                        *)
THEOREM GateTypeCorrect == GateSpec => []GateTypeOK
<1>1. GateInv => GateTypeOK
  BY DEF GateInv
<1> QED BY <1>1, GateInvariant, PTL

(* No pin is left in the browser for whoever signs in next, however the    *)
(* sign-in page was reached.                                               *)
THEOREM GateOutUnpinned == GateSpec => []OutUnpinned
<1>1. GateInv => OutUnpinned
  BY DEF GateInv
<1> QED BY <1>1, GateInvariant, PTL

=============================================================================
