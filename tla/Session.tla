------------------------------- MODULE Session -------------------------------
(***************************************************************************)
(* The session of a user in one browser tab: the store with its copy in    *)
(* local storage, the gate of the pages that need a session, the pages     *)
(* that give one, and every request, which ends the session when the       *)
(* server refuses its token.  A component that is gone still gets the      *)
(* answer to what it sent; the gate and the OAuth page ignore it, the      *)
(* others do not.  What forms and messages say is left out.                *)
(***************************************************************************)
EXTENDS Naturals, FiniteSets

CONSTANTS
  MaxTokens,    \* bound: sessions the server creates
  MaxRequests   \* bound: requests under way

ASSUME SessionAssumption == MaxTokens \in Nat /\ MaxRequests \in Nat

VARIABLES
  session,     \* the token of the store and of local storage
  tab,         \* the page that is open
  validated,   \* the token the mounted gate asked the server about
  requests,    \* requests under way
  loading,     \* the mounted forms that wait
  timer,       \* the reset page is about to go to the login page
  unloading,   \* the tab is about to load the login page anew
  valid,       \* the tokens the server accepts
  issued,      \* how many tokens the server has created
  ended        \* history: the sessions that ended or were replaced

sessionVars == <<session, tab, validated, requests, loading, timer, unloading, valid, issued, ended>>

NoToken == 0
\* Two pages of the layout (main), and (builder); (docs) is like the latter.
Guarded == {"flows", "settings", "builder"}
Tabs == Guarded \cup {"login", "signup", "forgot", "reset", "callback"}
layout(p) == IF p \in {"flows", "settings"} THEN "main" ELSE p

SessionInit ==
  /\ session \in {NoToken, 1} /\ issued = 1 /\ valid \in SUBSET {1}
  /\ tab \in {"login", "callback"} /\ (tab = "callback" => session = NoToken)
  /\ validated = NoToken /\ requests = {} /\ loading = {}
  /\ timer = FALSE /\ unloading = FALSE /\ ended = {}

MayAsk == Cardinality(requests) < MaxRequests
\* request: the store's token, and the one the server is asked about.
Request(kind, token, about) ==
  [kind |-> kind, token |-> token, about |-> about, accepted |-> about \in valid, here |-> TRUE]

(***************************************************************************)
(* What follows a change of page or session in the same commit: components *)
(* that go, the cleanup of their effects, and the gate, which asks about a *)
(* token once as long as its layout is mounted.                            *)
(***************************************************************************)
Still(r, p, s) ==
  [r EXCEPT !.here = @ /\ CASE r.kind = "me" -> p = tab /\ s = session
                            [] r.kind = "oauth" -> p = "callback"
                            [] OTHER -> layout(p) = layout(tab)]
useAuthGate(p, s, sent, spinning) ==
  LET ref == IF p \in Guarded /\ layout(p) = layout(tab) THEN validated ELSE NoToken
      asks == p \in Guarded /\ s # NoToken /\ ref # s
  IN /\ tab' = p /\ session' = s
     /\ requests' = {Still(r, p, s) : r \in sent} \cup (IF asks THEN {Request("me", s, s)} ELSE {})
     /\ validated' = IF asks THEN s ELSE ref
     /\ loading' = IF layout(p) = layout(tab) THEN spinning ELSE {}
     /\ ended' = IF s # session /\ session # NoToken THEN ended \cup {session} ELSE ended
quiet == UNCHANGED <<timer, unloading, valid, issued>>

\* The gate of a page without a session.
AuthGate ==
  /\ tab \in Guarded /\ session = NoToken
  /\ useAuthGate("login", session, requests, {})
  /\ quiet
navigate(p) ==
  /\ p # tab /\ p \in Guarded \cup {"login", "signup", "forgot", "reset"}
  /\ MayAsk /\ useAuthGate(p, session, requests, loading)
  /\ quiet
\* The tab is loaded again: what was under way is lost, the store is read
\* from local storage.
reload(p) ==
  /\ tab' = p /\ loading' = {} /\ timer' = FALSE /\ unloading' = FALSE
  /\ requests' = IF p \in Guarded /\ session # NoToken THEN {Request("me", session, session)} ELSE {}
  /\ validated' = IF p \in Guarded THEN session ELSE NoToken
  /\ UNCHANGED <<session, valid, issued, ended>>
readAuthSession == tab # "callback" /\ requests # {} /\ reload(tab)
locationReplaced == unloading /\ reload("login")

(***************************************************************************)
(* Answers.  A refused token ends whatever session there is, and the login *)
(* page is loaded, a little later.                                         *)
(***************************************************************************)
settled(r) == IF r.here THEN loading \ {r.kind} ELSE loading
request(r) ==
  /\ r \in requests /\ r.token # NoToken /\ r.about \notin valid
  /\ r.kind \in {"me", "query", "oauth"}
  /\ useAuthGate(IF r.kind = "oauth" /\ r.here THEN "login" ELSE tab,
                 NoToken, requests \ {r}, loading)
  /\ unloading' = (unloading \/ tab # "login")
  /\ UNCHANGED <<timer, valid, issued>>
MutMe(r) ==
  /\ r \in requests /\ r.kind = "me"
  /\ \/ r.accepted /\ useAuthGate(tab, r.token, requests \ {r}, loading)
     \/ IF r.here THEN useAuthGate("login", NoToken, requests \ {r}, loading)
        ELSE useAuthGate(tab, session, requests \ {r}, loading)
  /\ quiet
me(r) ==
  /\ r \in requests /\ r.kind = "me"
  /\ \/ /\ r.accepted
        /\ useAuthGate(tab, IF r.here THEN r.token ELSE session, requests \ {r}, loading)
     \* Any failure of the check ends the session it is about.
     \/ IF r.here THEN useAuthGate("login", NoToken, requests \ {r}, loading)
        ELSE useAuthGate(tab, session, requests \ {r}, loading)
  /\ quiet
\* Any other request of a page.
query ==
  /\ tab \in Guarded /\ session # NoToken /\ MayAsk
  /\ requests' = requests \cup {Request("query", session, session)}
  /\ UNCHANGED <<session, tab, validated, loading, timer, unloading, valid, issued, ended>>
answered(r) ==
  /\ r \in requests /\ r.kind = "query"
  /\ requests' = requests \ {r}
  /\ UNCHANGED <<session, tab, validated, loading, timer, unloading, valid, issued, ended>>

(***************************************************************************)
(* Signing in.                                                             *)
(***************************************************************************)
submit(k) ==
  /\ MayAsk /\ k \notin loading
  /\ requests' = requests \cup {Request(k, session, session)} /\ loading' = loading \cup {k}
  /\ UNCHANGED <<session, tab, validated, timer, unloading, valid, issued, ended>>
\* With an identifier and a password; without, nothing is sent.
useLoginPage == tab = "login" /\ submit("login")
\* With an address, a password and a name, which the address gives if need be.
useSignupPage == tab = "signup" /\ submit("signup")
\* The answer signs in and goes to the page that was asked for, wherever the
\* user is by now.
signedIn(r) ==
  /\ issued < MaxTokens /\ issued' = issued + 1 /\ valid' = valid \cup {issued'}
  /\ \E next \in Guarded : useAuthGate(next, issued', requests \ {r}, settled(r))
  /\ UNCHANGED <<timer, unloading>>
notSignedIn(r) ==
  /\ loading' = settled(r) /\ requests' = requests \ {r}
  /\ UNCHANGED <<session, tab, validated, timer, unloading, valid, issued, ended>>
useLogin(r) == r \in requests /\ r.kind = "login" /\ (signedIn(r) \/ notSignedIn(r))
useSignup(r) == r \in requests /\ r.kind = "signup" /\ (signedIn(r) \/ notSignedIn(r))

\* The buttons of the login page: the tab leaves for the provider, and comes
\* back to the callback page with a token of its own.
LoginPage ==
  /\ tab = "login" /\ issued < MaxTokens
  /\ issued' = issued + 1 /\ valid' = valid \cup {issued'}
  /\ tab' = "callback" /\ loading' = {} /\ timer' = FALSE /\ unloading' = FALSE
  /\ requests' = {[Request("oauth", session, issued') EXCEPT !.accepted = TRUE]}
  /\ validated' = NoToken
  /\ UNCHANGED <<session, ended>>
\* The callback page that was opened without a token.
OAuthCallbackPage ==
  /\ tab = "callback" /\ ~ \E r \in requests : r.kind = "oauth" /\ r.here
  /\ useAuthGate("login", session, requests, loading)
  /\ quiet
useOAuthCallbackPage(r) ==
  /\ r \in requests /\ r.kind = "oauth"
  /\ IF ~r.here THEN useAuthGate(tab, session, requests \ {r}, loading)
     ELSE \/ r.accepted /\ \E next \in Guarded :
                             useAuthGate(next, r.about, requests \ {r}, loading)
          \/ useAuthGate("login", session, requests \ {r}, loading)
  /\ quiet

(***************************************************************************)
(* A new password.                                                         *)
(***************************************************************************)
useForgotPasswordPage == tab = "forgot" /\ submit("forgot")
\* With the token of the link, and the password twice.
useResetPasswordPage == tab = "reset" /\ submit("reset")
requestPasswordReset(r) == r \in requests /\ r.kind = "forgot" /\ notSignedIn(r)
\* After it the login page opens, 800 ms later.
resetPassword(r) ==
  /\ r \in requests /\ r.kind = "reset"
  /\ timer' \in {timer, TRUE}
  /\ loading' = settled(r) /\ requests' = requests \ {r}
  /\ UNCHANGED <<session, tab, validated, unloading, valid, issued, ended>>
resetDone ==
  /\ timer
  /\ timer' = FALSE /\ useAuthGate("login", session, requests, loading)
  /\ UNCHANGED <<unloading, valid, issued>>

(***************************************************************************)
(* Signing out: by the button of a layout, after the server has answered   *)
(* in any way; in the settings without asking it; or elsewhere.            *)
(***************************************************************************)
SidebarProfile == tab \in Guarded /\ session # NoToken /\ submit("logout")
useLogout(r) ==
  /\ r \in requests /\ r.kind = "logout"
  /\ useAuthGate("login", NoToken, requests \ {r}, settled(r))
  /\ valid' \in {valid, valid \ {r.token}}
  /\ UNCHANGED <<timer, unloading, issued>>
onSignOut ==
  /\ tab = "settings"
  /\ useAuthGate("login", NoToken, requests, loading)
  /\ quiet
revoked(t) ==
  /\ t \in valid /\ valid' = valid \ {t}
  /\ UNCHANGED <<session, tab, validated, requests, loading, timer, unloading, issued, ended>>

SessionNext ==
  \/ AuthGate \/ (\E p \in Tabs : navigate(p)) \/ readAuthSession
  \/ locationReplaced
  \/ useLoginPage \/ useSignupPage \/ LoginPage \/ OAuthCallbackPage
  \/ useForgotPasswordPage \/ useResetPasswordPage \/ resetDone
  \/ query \/ SidebarProfile \/ onSignOut
  \/ (\E r \in requests :
        request(r) \/ me(r) \/ answered(r) \/ useLogin(r) \/ useSignup(r)
        \/ useOAuthCallbackPage(r) \/ requestPasswordReset(r) \/ resetPassword(r) \/ useLogout(r))
  \/ \E t \in 1..MaxTokens : revoked(t)

SessionSpec == SessionInit /\ [][SessionNext]_sessionVars

\* What the variables hold.
SessionTypeOK ==
  /\ session \in Nat /\ tab \in Tabs /\ validated \in Nat /\ issued \in Nat
  /\ requests \subseteq [kind : {"me", "query", "oauth", "login", "signup", "forgot", "reset", "logout"},
                         token : Nat, about : Nat, accepted : BOOLEAN, here : BOOLEAN]
  /\ loading \subseteq {"login", "signup", "forgot", "reset", "logout"}
  /\ timer \in BOOLEAN /\ unloading \in BOOLEAN
  /\ valid \subseteq Nat /\ ended \subseteq Nat

(***************************************************************************)
(* Why EndedStaysEnded holds: tokens are issued once, and an answer that   *)
(* still signs somebody in is about the session that is open (the gate's), *)
(* or about one that has not been open yet (the callback page's).          *)
(***************************************************************************)
SessionInv ==
  /\ session <= issued /\ \A t \in ended : 0 < t /\ t <= issued
  /\ \A r \in requests :
       /\ r.kind = "me" /\ r.here => r.token = session
       /\ r.kind = "oauth" /\ r.here =>
            0 < r.about /\ r.about <= issued /\ r.about # session /\ r.about \notin ended

(***************************************************************************)
(* A session that ended, or that another one replaced, never comes back:   *)
(* not by a late answer about it, not by a page that is gone.              *)
(***************************************************************************)
EndedStaysEnded == session \notin ended
=============================================================================
