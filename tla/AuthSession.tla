------------------------------ MODULE AuthSession ------------------------------
(***************************************************************************)
(* The refresh tokens of one browser: the store that issues and exchanges  *)
(* them (auth/refresh.go, httpapi/auth_handlers.go) and the tabs that use  *)
(* them (lib/api.js, store/authStore.js, the logout of                     *)
(* SettingsPopover.jsx).                                                   *)
(*                                                                         *)
(* A token is used once: a refresh takes it from Redis and then stores a   *)
(* new one, two calls of which either may fail.  Tabs share localStorage;  *)
(* each keeps its own copy of the token, which a storage event replaces    *)
(* some time after another tab has written.  A tab may refresh whenever it *)
(* has a token: its access token may expire or be rejected at any moment.  *)
(*                                                                         *)
(* A definition Name_Variant is Name with a bug put in; only the mutation  *)
(* runs use it.                                                            *)
(***************************************************************************)
EXTENDS Integers, Sequences

CONSTANTS
    Tab,         \* tabs of the browser, open or not
    MaxTokens    \* bound: tokens that are ever issued

VARIABLES
    valid,     \* the keys refresh:{token} in Redis
    parent,    \* issued token -> the token it was exchanged for, 0 after a login
    stored,    \* localStorage, 0 when it has no token
    open,      \* the open tabs
    mem,       \* tab -> refreshToken of its authStore, 0 when null
    access,    \* the tabs that have an accessToken
    news,      \* tab -> storage events that have not reached it yet
    refresh,   \* tab -> refreshInFlight
    logout,    \* tab -> its logout under way
    alone,     \* tabs whose logout no other refresh has met so far (history)
    given,     \* tokens that have reached a tab (history)
    spoiled    \* tokens that something has made unusable (history)

serverVars == <<valid, parent>>
tabVars == <<stored, open, mem, access, news, given>>
logoutVars == <<logout, alone>>
vars == <<serverVars, tabVars, refresh, logoutVars, spoiled>>

issued == Len(parent)
Token == 1 .. issued
None == 0

(***************************************************************************)
(* A refresh is sent with a token; the handler has taken the token from    *)
(* Redis; its answer is on the way: granted with a new token, or refused   *)
(* (401).                                                                  *)
(***************************************************************************)
NoRefresh == [pc |-> "none"]
Sent(k) == [pc |-> "sent", token |-> k]
Taken(k) == [pc |-> "taken", token |-> k]
Granted(k, new) == [pc |-> "granted", token |-> k, new |-> new]
Refused(k) == [pc |-> "refused", token |-> k]

(***************************************************************************)
(* A logout waits for a fresh access token, posts the refresh token, may   *)
(* have to renew the access token and post again, and has its answer.      *)
(***************************************************************************)
NoLogout == [pc |-> "none"]
Ensuring == [pc |-> "ensuring"]
Posting(k, again) == [pc |-> "posting", token |-> k, again |-> again]
Renewing(k) == [pc |-> "renewing", token |-> k]
Revoked(k) == [pc |-> "revoked", token |-> k]

Refreshing(t) == refresh[t].pc # "none"

RefreshState ==
    {NoRefresh} \cup [pc : {"sent", "taken", "refused"}, token : Token]
        \cup [pc : {"granted"}, token : Token, new : Token]
LogoutState ==
    {NoLogout, Ensuring} \cup [pc : {"posting"}, token : Token, again : BOOLEAN]
        \cup [pc : {"renewing", "revoked"}, token : Token]

TypeOK ==
    /\ parent \in Seq(Nat) /\ \A k \in Token : parent[k] < k
    /\ valid \cup given \cup spoiled \subseteq Token
    /\ stored \in Token \cup {None}
    /\ open \subseteq Tab /\ access \subseteq open
    /\ mem \in [Tab -> Token \cup {None}] /\ news \in [Tab -> Seq(Token)]
    /\ \A t \in Tab \ open : mem[t] = None /\ news[t] = <<>> /\ logout[t] = NoLogout
    /\ refresh \in [Tab -> RefreshState] /\ logout \in [Tab -> LogoutState]
    /\ alone \subseteq Tab

Init ==
    /\ valid = {} /\ parent = <<>>
    /\ stored = None /\ open = {} /\ mem = [t \in Tab |-> None] /\ access = {}
    /\ news = [t \in Tab |-> <<>>]
    /\ refresh = [t \in Tab |-> NoRefresh] /\ logout = [t \in Tab |-> NoLogout] /\ alone = {}
    /\ given = {} /\ spoiled = {}

-----------------------------------------------------------------------------
(* The tabs' store.                                                        *)

\* The other documents of the origin get a storage event.
Tell_Closed(t, k) == news' = [u \in Tab |-> IF u # t THEN Append(news[u], k) ELSE news[u]]

Tell(t, k) == news' = [u \in Tab |-> IF u \in open \ {t} THEN Append(news[u], k) ELSE news[u]]

SetSession_LoginOnly(t, k) ==
    /\ stored' = IF stored = None THEN k ELSE stored
    /\ mem' = [mem EXCEPT ![t] = k] /\ access' = access \cup {t}
    /\ Tell(t, k)
    /\ given' = given \cup {k}
    /\ UNCHANGED open

\* setSession: localStorage first; the other tabs are told.
SetSession(t, k) ==
    /\ stored' = k
    /\ mem' = [mem EXCEPT ![t] = k] /\ access' = access \cup {t}
    /\ Tell(t, k)
    /\ given' = given \cup {k}
    /\ UNCHANGED open

\* clearSession: also what another tab has stored; a removal is not adopted.
ClearSession(t) ==
    /\ stored' = None
    /\ mem' = [mem EXCEPT ![t] = None] /\ access' = access \ {t}
    /\ UNCHANGED <<open, news, given>>

OpenTab(t) ==
    /\ t \notin open /\ ~Refreshing(t)
    /\ open' = open \cup {t}
    /\ mem' = [mem EXCEPT ![t] = stored]
    /\ UNCHANGED <<serverVars, stored, access, news, given, refresh, logoutVars, spoiled>>

\* A refresh that the tab leaves behind goes on; its answer meets nobody
\* (bound: no tab is closed during its logout).
CloseTab(t) ==
    /\ t \in open /\ logout[t] = NoLogout
    /\ open' = open \ {t} /\ access' = access \ {t}
    /\ mem' = [mem EXCEPT ![t] = None] /\ news' = [news EXCEPT ![t] = <<>>]
    /\ spoiled' = spoiled \cup (IF Refreshing(t) THEN {refresh[t].token} ELSE {})
    /\ UNCHANGED <<serverVars, stored, given, refresh, logoutVars>>

Hear_Ignored(t) ==
    /\ news[t] # <<>> /\ news' = [news EXCEPT ![t] = Tail(@)]
    /\ UNCHANGED <<serverVars, stored, open, mem, access, given, refresh, logoutVars, spoiled>>

\* The storage event.
Hear(t) ==
    /\ news[t] # <<>>
    /\ mem' = [mem EXCEPT ![t] = Head(news[t])]
    /\ news' = [news EXCEPT ![t] = Tail(@)]
    /\ UNCHANGED <<serverVars, stored, open, access, given, refresh, logoutVars, spoiled>>

-----------------------------------------------------------------------------
(* The api.                                                                *)

\* Redis has a new token.
Issue(from) ==
    /\ issued < MaxTokens
    /\ valid' = valid \cup {issued + 1}
    /\ parent' = Append(parent, from)

\* Login and registration, from the request to setSession; one that fails
\* changes nothing a tab could see.
Login(t) ==
    /\ t \in open /\ logout[t] = NoLogout
    /\ Issue(None)
    /\ SetSession(t, issued + 1)
    /\ UNCHANGED <<refresh, logoutVars, spoiled>>

Answer(t, answer) == refresh' = [refresh EXCEPT ![t] = answer]

Consume(k) == valid' = valid \ {k}

\* GETDEL.
Take(t) ==
    /\ refresh[t].pc = "sent" /\ refresh[t].token \in valid
    /\ Consume(refresh[t].token)
    /\ Answer(t, Taken(refresh[t].token))
    /\ UNCHANGED <<parent, tabVars, logoutVars, spoiled>>

Refuse(t) ==
    /\ refresh[t].pc = "sent" /\ refresh[t].token \notin valid
    /\ Answer(t, Refused(refresh[t].token))
    /\ UNCHANGED <<serverVars, tabVars, logoutVars, spoiled>>

\* SET.
Grant(t) ==
    /\ refresh[t].pc = "taken"
    /\ Issue(refresh[t].token)
    /\ Answer(t, Granted(refresh[t].token, issued + 1))
    /\ UNCHANGED <<tabVars, logoutVars, spoiled>>

\* The TTL of a key.
Expire(k) ==
    /\ valid' = valid \ {k}
    /\ spoiled' = spoiled \cup {k}
    /\ UNCHANGED <<parent, tabVars, refresh, logoutVars>>

-----------------------------------------------------------------------------
(* Refreshing and logging out.                                             *)

\* The token a tab sends is spoiled when another tab has it in flight, or
\* has replaced it and the event is still to come.
Overlaps(t) == news[t] # <<>> \/ \E u \in Tab \ {t} : Refreshing(u) /\ refresh[u].token = mem[t]

\* doRefresh, unless one is in flight.
Ask(t) ==
    /\ refresh' = [refresh EXCEPT ![t] = Sent(mem[t])]
    /\ spoiled' = spoiled \cup (IF Overlaps(t) THEN {mem[t]} ELSE {})

\* A 401, an expiring access token, or a reloaded tab that has none.
Refresh(t) ==
    /\ t \in open /\ mem[t] # None /\ ~Refreshing(t) /\ logout[t].pc # "renewing"
    /\ Ask(t)
    /\ alone' = {}
    /\ UNCHANGED <<serverVars, tabVars, logout>>

Alone(t) == news[t] = <<>> /\ \A u \in Tab \ {t} : ~Refreshing(u)

\* Of a signed-in tab.  The access token is fresh, or a refresh is awaited:
\* a new one, or the one in flight.
BeginLogout(t) ==
    /\ t \in access /\ mem[t] # None /\ logout[t] = NoLogout
    /\ \/ /\ logout' = [logout EXCEPT ![t] = Posting(mem[t], FALSE)]
          /\ alone' = alone \cup {u \in {t} : Alone(u) /\ ~Refreshing(u)}
          /\ UNCHANGED <<refresh, spoiled>>
       \/ /\ logout' = [logout EXCEPT ![t] = Ensuring]
          /\ alone' = {u \in {t} : Alone(u)}
          /\ IF Refreshing(t) THEN UNCHANGED <<refresh, spoiled>> ELSE Ask(t)
    /\ UNCHANGED <<serverVars, tabVars>>

\* A refresh has brought token k: what the logout that awaits it posts.
Resume_OldToken(t, k) ==
    CASE logout[t].pc = "ensuring" -> Posting(refresh[t].token, FALSE)
      [] logout[t].pc = "renewing" -> Posting(logout[t].token, TRUE)
      [] OTHER -> logout[t]

\* The body of a request that is sent again is the old one.
Resume(t, k) ==
    CASE logout[t].pc = "ensuring" -> Posting(k, FALSE)
      [] logout[t].pc = "renewing" -> Posting(logout[t].token, TRUE)
      [] OTHER -> logout[t]

Ends(t) == refresh' = [refresh EXCEPT ![t] = NoRefresh]

\* refreshSession returns, if its tab is still there.
Granting(t) ==
    /\ refresh[t].pc = "granted"
    /\ Ends(t)
    /\ IF t \in open
       THEN /\ SetSession(t, refresh[t].new)
            /\ logout' = [logout EXCEPT ![t] = Resume(t, refresh[t].new)]
       ELSE UNCHANGED <<tabVars, logout>>
    /\ UNCHANGED <<serverVars, alone, spoiled>>

EndLogout(t) == logout' = [logout EXCEPT ![t] = NoLogout] /\ alone' = alone \ {t}

\* It throws: a logout that awaits it goes on to clear the session.
Throws(t, clear) ==
    /\ Ends(t)
    /\ IF t \in open /\ logout[t].pc \in {"ensuring", "renewing"}
       THEN ClearSession(t) /\ EndLogout(t)
       ELSE /\ IF t \in open /\ clear THEN ClearSession(t) ELSE UNCHANGED tabVars
            /\ UNCHANGED logoutVars
    /\ UNCHANGED serverVars

\* 401 or 403.
Refusing(t) == refresh[t].pc = "refused" /\ Throws(t, TRUE) /\ UNCHANGED spoiled

\* The rate limiter or Redis turns the refresh down, or a connection is
\* lost: before the token is taken, after, or on the way back (abstraction:
\* a request that is lost on its way is not carried out later).
Breaking(t) ==
    /\ Refreshing(t)
    /\ Throws(t, FALSE)
    /\ spoiled' = spoiled \cup (IF refresh[t].pc \in {"taken", "granted"} THEN {refresh[t].token} ELSE {})

\* The api deletes the token and answers 204.
Revoke(t) ==
    /\ logout[t].pc = "posting"
    /\ valid' = valid \ {logout[t].token}
    /\ spoiled' = spoiled \cup {logout[t].token}
    /\ logout' = [logout EXCEPT ![t] = Revoked(logout[t].token)]
    /\ UNCHANGED <<parent, tabVars, refresh, alone>>

\* The api rejects the access token: refresh and post again, once.
Rejected(t) ==
    /\ logout[t].pc = "posting" /\ ~logout[t].again /\ mem[t] # None
    /\ logout' = [logout EXCEPT ![t] = Renewing(logout[t].token)]
    /\ alone' = {}
    /\ IF Refreshing(t) THEN UNCHANGED <<refresh, spoiled>> ELSE Ask(t)
    /\ UNCHANGED <<serverVars, tabVars>>

\* The post is over, however it ended.
FinishLogout(t) ==
    /\ logout[t].pc \in {"posting", "revoked"}
    /\ ClearSession(t) /\ EndLogout(t)
    /\ UNCHANGED <<serverVars, refresh, spoiled>>

Next ==
    \/ \E t \in Tab :
        \/ OpenTab(t) \/ CloseTab(t) \/ Hear(t) \/ Login(t)
        \/ Refresh(t) \/ Take(t) \/ Refuse(t) \/ Grant(t)
        \/ Granting(t) \/ Refusing(t) \/ Breaking(t)
        \/ BeginLogout(t) \/ Revoke(t) \/ Rejected(t) \/ FinishLogout(t)
    \/ \E k \in valid : Expire(k)

Spec == Init /\ [][Next]_vars

-----------------------------------------------------------------------------
(* Properties.                                                             *)

\* Rotation: no token is exchanged twice, whatever tabs and retries send it.
OneSuccessor == \A j, k \in Token : parent[j] = parent[k] /\ parent[j] # None => j = k

\* A tab is refused only with a token that has expired, was revoked by a
\* logout, was lost when a refresh broke off, or was sent by two tabs at once:
\* otherwise the tabs follow each other's rotations.
NoNeedlessRefusal == \A t \in Tab : refresh[t].pc = "refused" => refresh[t].token \in spoiled

\* What a reload finds can be used, or a tab is just replacing it.
StoredIsUsable ==
    stored # None /\ stored \notin spoiled =>
        \/ stored \in valid
        \/ \E t \in open : refresh[t].pc \in {"taken", "granted"} /\ refresh[t].token = stored

\* The login that a token goes back to.
SameLogin(j, k) ==
    LET back[i \in Token] == IF parent[i] = None THEN i ELSE back[parent[i]]
    IN back[j] = back[k]

\* When a logout is answered and no other refresh came between, none of
\* the tokens that the login has brought the browser works any more.
LogoutRevokes ==
    \A t \in Tab : logout[t].pc = "revoked" /\ t \in alone =>
        \A k \in given \cap valid : ~SameLogin(k, logout[t].token)

=============================================================================
