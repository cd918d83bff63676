--------------------------- MODULE AuthSessionProofs ---------------------------
(***************************************************************************)
(* For any number of tabs: no refresh token is exchanged twice, and as     *)
(* long as nothing has spoiled it, the token a tab sends is accepted and   *)
(* the one localStorage keeps can be used.                                 *)
(*                                                                         *)
(* The argument follows the newest token a tab will know (Latest): it      *)
(* stays live, that is valid, spoiled or being exchanged by an open tab,   *)
(* because an exchange by another tab makes a newer one latest.            *)
(*                                                                         *)
(* That a logout ends the login follows the chain of exchanges the other   *)
(* way.  AuthSession finds the token that a login began with by a          *)
(* recursive function; that there is such a function, and that tokens of   *)
(* one login hang together, is shown by the least-number principle         *)
(* (Least), on tokens, which are numbered as they are issued.              *)
(*                                                                         *)
(* And for any number of changes and any Ttl: what the user's record and   *)
(* its cache and the tab that shows it may differ in, and when.            *)
(***************************************************************************)
EXTENDS MCAuthSession, SequenceTheorems, WellFoundedInduction, TLAPS

-----------------------------------------------------------------------------
(* The invariant.                                                          *)

Usable == valid \cup spoiled
Exchanging(t) == refresh[t].pc \in {"taken", "granted"}

Live(k) == k \in Usable \/ \E u \in open : Exchanging(u) /\ refresh[u].token = k

\* The token of a tab once all storage events have reached it.
Latest(t) == IF news[t] = <<>> THEN mem[t] ELSE news[t][Len(news[t])]

\* Whatever a tab knows has been given to it; a token just issued has not.
GivenInv ==
    /\ stored \in given \cup {None}
    /\ \A t \in Tab : mem[t] \in given \cup {None} /\ news[t] \in Seq(given)
    /\ \A t \in Tab : Refreshing(t) => refresh[t].token \in given
    /\ \A t \in Tab : refresh[t].pc = "granted" => refresh[t].new \in Usable \ given
    /\ \A t, u \in Tab : t # u /\ refresh[t].pc = "granted" /\ refresh[u].pc = "granted"
                            => refresh[t].new # refresh[u].new

HasSuccessor(k) == \E j \in Token : parent[j] = k

\* A token in Redis, or just taken from it, has not been exchanged.
ChainInv ==
    /\ OneSuccessor
    /\ \A k \in valid : ~HasSuccessor(k)
    /\ \A t \in Tab : refresh[t].pc = "taken" =>
            refresh[t].token \notin valid /\ ~HasSuccessor(refresh[t].token)
    /\ \A t, u \in Tab : t # u /\ refresh[t].pc = "taken" /\ refresh[u].pc = "taken"
                            => refresh[t].token # refresh[u].token

StoredLive == stored # None => Live(stored)
LatestLive == \A t \in open : Latest(t) # None => Live(Latest(t))
SentUsable == \A t \in Tab : refresh[t].pc = "sent" => refresh[t].token \in Usable

\* A token is spoiled when two tabs send it, when the tab that sent it is
\* gone, and when it is also the tab's latest though another event is to come.
SharedSpoiled ==
    \A t, u \in Tab : t # u /\ Refreshing(t) /\ Refreshing(u) /\ refresh[t].token = refresh[u].token
                        => refresh[t].token \in spoiled
LeftSpoiled == \A t \in Tab \ open : Refreshing(t) => refresh[t].token \in spoiled
LateSpoiled ==
    \A t \in Tab : Refreshing(t) /\ news[t] # <<>> /\ Latest(t) = refresh[t].token
                        => refresh[t].token \in spoiled

LiveInv ==
    /\ StoredLive /\ LatestLive
    /\ SentUsable /\ NoNeedlessRefusal
    /\ SharedSpoiled /\ LeftSpoiled /\ LateSpoiled

SessionInv == TypeOK /\ GivenInv /\ ChainInv /\ LiveInv

-----------------------------------------------------------------------------
(* Types.                                                                  *)

LEMMA RefreshKinds ==
    /\ \A r \in RefreshState :
        /\ r.pc \in {"none", "sent", "taken", "granted", "refused"}
        /\ r.pc # "none" => r.token \in Token
        /\ r.pc = "granted" => r.new \in Token
    /\ NoRefresh \in RefreshState
    /\ \A k \in Token : {Sent(k), Taken(k), Refused(k)} \subseteq RefreshState
    /\ \A k, n \in Token : Granted(k, n) \in RefreshState
  BY DEF RefreshState, NoRefresh, Sent, Taken, Refused, Granted

LEMMA LogoutKinds ==
    /\ \A l \in LogoutState : l.pc \in {"posting", "renewing", "revoked"} => l.token \in Token
    /\ {NoLogout, Ensuring} \subseteq LogoutState
    /\ \A k \in Token, a \in BOOLEAN : Posting(k, a) \in LogoutState
    /\ \A k \in Token : {Renewing(k), Revoked(k)} \subseteq LogoutState
  BY DEF LogoutState, NoLogout, Ensuring, Posting, Renewing, Revoked

LEMMA SameTokens ==
    ASSUME UNCHANGED parent
    PROVE  Token' = Token /\ RefreshState' = RefreshState /\ LogoutState' = LogoutState
  BY DEF Token, issued, RefreshState, LogoutState

\* A new token is one more.
LEMMA MoreTokens ==
    ASSUME TypeOK, NEW from \in Token \cup {None}, Issue(from)
    PROVE  /\ parent' \in Seq(Nat) /\ \A k \in Token' : parent'[k] < k
           /\ issued + 1 \notin Token /\ Token' = Token \cup {issued + 1}
           /\ \A k \in Token : parent'[k] = parent[k]
           /\ parent'[issued + 1] = from
           /\ valid' = valid \cup {issued + 1}
           /\ RefreshState \subseteq RefreshState' /\ LogoutState \subseteq LogoutState'
  <1>1. issued \in Nat /\ parent \in Seq(Nat) /\ from \in Nat /\ from <= issued
    BY DEF TypeOK, issued, Token, None
  <1>2. parent' = Append(parent, from)
    BY DEF Issue
  <1>3. parent' \in Seq(Nat) /\ issued' = issued + 1
    BY <1>1, <1>2 DEF issued
  <1>4. issued + 1 \notin Token /\ Token' = Token \cup {issued + 1}
    <2>1. Token' = 1 .. (issued + 1)
      BY <1>3 DEF Token
    <2>2. \A k : k \in 1 .. (issued + 1) <=> k \in 1 .. issued \/ k = issued + 1
      BY <1>1
    <2>3. Token = 1 .. issued /\ issued + 1 \notin 1 .. issued
      BY <1>1 DEF Token
    <2>4. QED
      BY <2>1, <2>2, <2>3
  <1>5. parent'[issued + 1] = from /\ \A k \in Token : parent'[k] = parent[k]
    BY <1>1, <1>2 DEF Token, issued
  <1>6. \A k \in Token' : parent'[k] < k
    <2>1. \A k \in Token : parent'[k] < k
      BY <1>5 DEF TypeOK
    <2>2. parent'[issued + 1] < issued + 1
      BY <1>1, <1>5
    <2>3. QED
      BY <1>4, <2>1, <2>2
  <1>7. RefreshState \subseteq RefreshState' /\ LogoutState \subseteq LogoutState'
    BY <1>4 DEF RefreshState, LogoutState
  <1>8. QED
    BY <1>3, <1>4, <1>5, <1>6, <1>7 DEF Issue

\* A refresh that moves on is the only one that does.
LEMMA Answered ==
    ASSUME TypeOK, NEW t \in Tab, NEW answer, Answer(t, answer)
    PROVE  /\ refresh'[t] = answer
           /\ \A u \in Tab \ {t} : refresh'[u] = refresh[u]
           /\ answer \in RefreshState' /\ RefreshState \subseteq RefreshState'
                => refresh' \in [Tab -> RefreshState']
  BY DEF Answer, TypeOK

\* Storage events are tokens.
LEMMA Told ==
    ASSUME TypeOK, NEW S, NEW k, NEW t \in Tab, news \in [Tab -> Seq(S)], k \in S, Tell(t, k)
    PROVE  /\ news' \in [Tab -> Seq(S)]
           /\ \A u \in Tab \ (open \ {t}) : news'[u] = news[u]
           /\ \A u \in open \ {t} : news'[u] # <<>> /\ news'[u][Len(news'[u])] = k
  <1>1. open \subseteq Tab
    BY DEF TypeOK
  <1>2. \A s \in Seq(S) : /\ Append(s, k) \in Seq(S) /\ Append(s, k) # <<>>
                          /\ Append(s, k)[Len(Append(s, k))] = k
    <2>1. SUFFICES ASSUME NEW s \in Seq(S)
                   PROVE  /\ Append(s, k) \in Seq(S) /\ Append(s, k) # <<>>
                          /\ Append(s, k)[Len(Append(s, k))] = k
      OBVIOUS
    <2>2. Len(Append(s, k)) = Len(s) + 1 /\ Len(s) \in Nat
      OBVIOUS
    <2>3. Append(s, k)[Len(s) + 1] = k /\ Append(s, k) \in Seq(S)
      OBVIOUS
    <2>4. QED
      BY <2>2, <2>3
  <1>3. QED
    BY <1>1, <1>2 DEF Tell

TokensTyped == parent \in Seq(Nat) /\ (\A k \in Token : parent[k] < k) /\ valid \cup given \cup spoiled \subseteq Token

TabsTyped ==
    /\ stored \in Token \cup {None}
    /\ open \subseteq Tab /\ access \subseteq open
    /\ mem \in [Tab -> Token \cup {None}] /\ news \in [Tab -> Seq(Token)]
    /\ \A t \in Tab \ open : mem[t] = None /\ news[t] = <<>>

RefreshTyped == refresh \in [Tab -> RefreshState]

LogoutTyped ==
    /\ logout \in [Tab -> LogoutState] /\ alone \subseteq Tab
    /\ \A t \in Tab \ open : logout[t] = NoLogout

LEMMA TypeParts == TypeOK <=> TokensTyped /\ TabsTyped /\ RefreshTyped /\ LogoutTyped
  BY DEF TypeOK, TokensTyped, TabsTyped, RefreshTyped, LogoutTyped

\* A session set to a token of the tab's own refresh or login.
LEMMA SessionSet ==
    ASSUME TypeOK, NEW t \in open, NEW k \in Token', SetSession(t, k), Token \subseteq Token'
    PROVE  /\ TabsTyped'
           /\ given' = given \cup {k}
  <1>1. t \in Tab /\ open \subseteq Tab
    BY DEF TypeOK
  <1>2. news \in [Tab -> Seq(Token')]
    BY DEF TypeOK
  <1>3. Tell(t, k) /\ open' = open
    BY DEF SetSession
  <1>4. news' \in [Tab -> Seq(Token')] /\ \A u \in Tab \ open : news'[u] = news[u]
    BY <1>1, <1>2, <1>3, Told
  <1>5. mem' \in [Tab -> Token' \cup {None}] /\ \A u \in Tab \ open : mem'[u] = mem[u]
    BY <1>1 DEF SetSession, TypeOK
  <1>6. QED
    BY <1>1, <1>3, <1>4, <1>5 DEF SetSession, TypeOK, TabsTyped, None

LEMMA SessionCleared ==
    ASSUME TypeOK, NEW t \in Tab, ClearSession(t), UNCHANGED parent
    PROVE  TabsTyped'
  BY SameTokens DEF ClearSession, TypeOK, TabsTyped

\* Ask sends a token the tab has.
LEMMA AskTyped ==
    ASSUME TypeOK, NEW t \in Tab, mem[t] # None, Ask(t), UNCHANGED parent
    PROVE  RefreshTyped' /\ spoiled' \subseteq Token
  <1>1. mem[t] \in Token
    BY DEF TypeOK
  <1>2. Answer(t, Sent(mem[t]))
    BY DEF Ask, Answer
  <1>3. Sent(mem[t]) \in RefreshState
    BY <1>1, RefreshKinds
  <1>4. RefreshTyped'
    BY <1>2, <1>3, Answered, SameTokens DEF RefreshTyped
  <1>5. QED
    BY <1>1, <1>4 DEF Ask, TypeOK

LEMMA ThrowsTyped ==
    ASSUME TypeOK, NEW t \in Tab, NEW clear \in BOOLEAN, Throws(t, clear)
    PROVE  TabsTyped' /\ RefreshTyped' /\ LogoutTyped' /\ given' = given /\ UNCHANGED serverVars
  <1>1. UNCHANGED parent /\ UNCHANGED serverVars
    BY DEF Throws, serverVars
  <1>2. RefreshTyped'
    BY <1>1, Answered, SameTokens, RefreshKinds DEF Throws, Ends, Answer, RefreshTyped
  <1>3. CASE ClearSession(t) /\ EndLogout(t)
    <2>1. TabsTyped' /\ given' = given /\ open' = open
      BY <1>1, <1>3, SessionCleared DEF ClearSession
    <2>2. LogoutTyped'
      BY <1>1, <1>3, <2>1, SameTokens, LogoutKinds DEF EndLogout, LogoutTyped, TypeOK
    <2>3. QED
      BY <1>1, <1>2, <2>1, <2>2
  <1>4. CASE ClearSession(t) /\ UNCHANGED logoutVars
    <2>1. TabsTyped' /\ given' = given /\ open' = open
      BY <1>1, <1>4, SessionCleared DEF ClearSession
    <2>2. LogoutTyped'
      BY <1>1, <1>4, <2>1, SameTokens DEF logoutVars, LogoutTyped, TypeOK
    <2>3. QED
      BY <1>1, <1>2, <2>1, <2>2
  <1>5. CASE UNCHANGED <<tabVars, logoutVars>>
    <2>1. TabsTyped' /\ given' = given /\ open' = open
      BY <1>1, <1>5, SameTokens DEF tabVars, TabsTyped, TypeOK
    <2>2. LogoutTyped'
      BY <1>1, <1>5, <2>1, SameTokens DEF logoutVars, LogoutTyped, TypeOK
    <2>3. QED
      BY <1>1, <1>2, <2>1, <2>2
  <1>6. QED
    BY <1>3, <1>4, <1>5 DEF Throws

\* What a step leaves alone keeps its type.
LEMMA Untouched ==
    ASSUME TypeOK, UNCHANGED parent
    PROVE  /\ (valid \cup given \cup spoiled)' \subseteq Token => TokensTyped'
           /\ UNCHANGED tabVars => TabsTyped'
           /\ UNCHANGED refresh => RefreshTyped'
           /\ UNCHANGED <<logoutVars, open>> => LogoutTyped'
  <1>1. TokensTyped /\ TabsTyped /\ RefreshTyped /\ LogoutTyped
    BY TypeParts
  <1>2. Token' = Token /\ RefreshState' = RefreshState /\ LogoutState' = LogoutState
    BY SameTokens
  <1>3. (valid \cup given \cup spoiled)' \subseteq Token => TokensTyped'
    BY <1>1, <1>2 DEF TokensTyped
  <1>4. UNCHANGED tabVars => TabsTyped'
    BY <1>1, <1>2 DEF tabVars, TabsTyped
  <1>5. UNCHANGED refresh => RefreshTyped'
    BY <1>1, <1>2 DEF RefreshTyped
  <1>6. UNCHANGED <<logoutVars, open>> => LogoutTyped'
    BY <1>1, <1>2 DEF logoutVars, LogoutTyped
  <1>7. QED
    BY <1>3, <1>4, <1>5, <1>6

\* A logout that moves on.
LEMMA LogoutMoves ==
    ASSUME TypeOK, NEW t \in open, NEW l \in LogoutState', UNCHANGED open,
           logout' = [logout EXCEPT ![t] = l], alone' \subseteq Tab,
           LogoutState \subseteq LogoutState'
    PROVE  LogoutTyped'
  BY DEF TypeOK, LogoutTyped

LEMMA NotLoggingOut ==
    ASSUME TypeOK, NEW t \in Tab, logout[t].pc # "none"
    PROVE  t \in open
  BY DEF TypeOK, NoLogout

THEOREM TypeStep == TypeOK /\ [Next]_vars => TypeOK'
  <1> SUFFICES ASSUME TypeOK, [Next]_vars
               PROVE  TokensTyped' /\ TabsTyped' /\ RefreshTyped' /\ LogoutTyped'
    BY DEF TypeOK, TokensTyped, TabsTyped, RefreshTyped, LogoutTyped
  <1> DEFINE Typed == TokensTyped' /\ TabsTyped' /\ RefreshTyped' /\ LogoutTyped'
  <1> USE DEF serverVars
  <1>0. TokensTyped /\ open \subseteq Tab /\ valid \cup given \cup spoiled \subseteq Token
    BY TypeParts DEF TypeOK
  <1>1. CASE UNCHANGED vars
    BY <1>0, <1>1, Untouched DEF vars, tabVars
  <1>2. ASSUME NEW t \in Tab, OpenTab(t)  PROVE Typed
    <2>1. TokensTyped' /\ RefreshTyped'
      BY <1>0, <1>2, Untouched DEF OpenTab
    <2>2. TabsTyped' /\ LogoutTyped'
      BY <1>2, SameTokens DEF OpenTab, logoutVars, TypeOK, TabsTyped, LogoutTyped
    <2>3. QED
      BY <2>1, <2>2
  <1>3. ASSUME NEW t \in Tab, CloseTab(t)  PROVE Typed
    <2>1. Refreshing(t) => refresh[t].token \in Token
      BY RefreshKinds DEF TypeOK, Refreshing
    <2>2. TokensTyped' /\ RefreshTyped'
      BY <1>0, <1>3, <2>1, Untouched DEF CloseTab
    <2>3. TabsTyped'
      BY <1>3, SameTokens DEF CloseTab, TypeOK, TabsTyped
    <2>4. LogoutTyped'
      BY <1>3, SameTokens DEF CloseTab, logoutVars, TypeOK, LogoutTyped
    <2>5. QED
      BY <2>2, <2>3, <2>4
  <1>4. ASSUME NEW t \in Tab, Hear(t)  PROVE Typed
    <2>1. TokensTyped' /\ RefreshTyped' /\ LogoutTyped'
      BY <1>0, <1>4, Untouched DEF Hear
    <2>2. Head(news[t]) \in Token /\ Tail(news[t]) \in Seq(Token)
      BY <1>4 DEF Hear, TypeOK
    <2>3. t \in open
      BY <1>4 DEF Hear, TypeOK
    <2>4. TabsTyped'
      BY <1>4, <2>2, <2>3, SameTokens DEF Hear, TypeOK, TabsTyped
    <2>5. QED
      BY <2>1, <2>4
  <1>5. ASSUME NEW t \in Tab, Login(t)  PROVE Typed
    <2>1. Issue(None) /\ SetSession(t, issued + 1) /\ t \in open
      BY <1>5 DEF Login
    <2>2. Token' = Token \cup {issued + 1}
      BY <2>1, MoreTokens
    <2>3. TabsTyped' /\ given' = given \cup {issued + 1} /\ open' = open
      BY <2>1, <2>2, SessionSet DEF SetSession
    <2>4. TokensTyped'
      BY <1>0, <1>5, <2>1, <2>2, <2>3, MoreTokens DEF Login, TokensTyped
    <2>5. RefreshTyped' /\ LogoutTyped'
      BY <1>5, <2>1, <2>3, MoreTokens DEF Login, logoutVars, TypeOK, RefreshTyped, LogoutTyped
    <2>6. QED
      BY <2>3, <2>4, <2>5
  <1>6. ASSUME NEW t \in Tab, Refresh(t)  PROVE Typed
    <2>1. RefreshTyped' /\ spoiled' \subseteq Token
      BY <1>6, AskTyped DEF Refresh
    <2>2. TokensTyped' /\ TabsTyped'
      BY <1>0, <1>6, <2>1, Untouched DEF Refresh, tabVars
    <2>3. LogoutTyped'
      BY <1>6, SameTokens DEF Refresh, tabVars, TypeOK, LogoutTyped
    <2>4. QED
      BY <2>1, <2>2, <2>3
  <1>7. ASSUME NEW t \in Tab, Take(t)  PROVE Typed
    <2>1. refresh[t].token \in Token
      BY <1>7, RefreshKinds DEF Take, TypeOK
    <2>2. RefreshTyped'
      BY <1>7, <2>1, RefreshKinds, Answered, SameTokens DEF Take, RefreshTyped
    <2>3. TokensTyped' /\ TabsTyped' /\ LogoutTyped'
      BY <1>0, <1>7, Untouched DEF Take, Consume, tabVars
    <2>4. QED
      BY <2>2, <2>3
  <1>8. ASSUME NEW t \in Tab, Refuse(t)  PROVE Typed
    <2>1. refresh[t].token \in Token
      BY <1>8, RefreshKinds DEF Refuse, TypeOK
    <2>2. RefreshTyped'
      BY <1>8, <2>1, RefreshKinds, Answered, SameTokens DEF Refuse, RefreshTyped
    <2>3. TokensTyped' /\ TabsTyped' /\ LogoutTyped'
      BY <1>0, <1>8, Untouched DEF Refuse, tabVars
    <2>4. QED
      BY <2>2, <2>3
  <1>9. ASSUME NEW t \in Tab, Grant(t)  PROVE Typed
    <2>1. refresh[t].token \in Token
      BY <1>9, RefreshKinds DEF Grant, TypeOK
    <2>2. /\ Token' = Token \cup {issued + 1} /\ valid' = valid \cup {issued + 1}
          /\ RefreshState \subseteq RefreshState' /\ LogoutState \subseteq LogoutState'
          /\ parent' \in Seq(Nat) /\ \A k \in Token' : parent'[k] < k
      BY <1>9, <2>1, MoreTokens DEF Grant
    <2>3. Granted(refresh[t].token, issued + 1) \in RefreshState'
      BY <2>1, <2>2 DEF Granted, RefreshState
    <2>4. RefreshTyped'
      BY <1>9, <2>2, <2>3, Answered DEF Grant, RefreshTyped
    <2>5. TokensTyped'
      BY <1>0, <1>9, <2>2 DEF Grant, tabVars, TokensTyped
    <2>6. TabsTyped' /\ LogoutTyped'
      BY <1>9, <2>2 DEF Grant, tabVars, logoutVars, TypeOK, TabsTyped, LogoutTyped
    <2>7. QED
      BY <2>4, <2>5, <2>6
  <1>10. ASSUME NEW t \in Tab, Granting(t)  PROVE Typed
    <2>1. UNCHANGED parent /\ refresh[t].new \in Token
      BY <1>10, RefreshKinds DEF Granting, TypeOK
    <2>2. RefreshTyped'
      BY <1>10, <2>1, RefreshKinds, Answered, SameTokens DEF Granting, Ends, Answer, RefreshTyped
    <2>3. CASE t \in open
      <3>1. SetSession(t, refresh[t].new) /\ logout' = [logout EXCEPT ![t] = Resume(t, refresh[t].new)]
        BY <1>10, <2>3 DEF Granting
      <3>2. TabsTyped' /\ given' = given \cup {refresh[t].new} /\ open' = open
        BY <2>1, <2>3, <3>1, SessionSet, SameTokens DEF SetSession
      <3>3. TokensTyped'
        BY <1>0, <1>10, <2>1, <3>2, Untouched DEF Granting
      <3>4. Resume(t, refresh[t].new) \in LogoutState
        <4>1. logout[t] \in LogoutState
          BY DEF TypeOK
        <4>2. CASE logout[t].pc = "ensuring"
          BY <2>1, <4>2, LogoutKinds DEF Resume
        <4>3. CASE logout[t].pc = "renewing"
          BY <4>1, <4>3, LogoutKinds DEF Resume
        <4>4. CASE logout[t].pc \notin {"ensuring", "renewing"}
          BY <4>1, <4>4 DEF Resume
        <4>5. QED
          BY <4>2, <4>3, <4>4
      <3>5. LogoutTyped'
        <4>1. alone' \subseteq Tab /\ LogoutState' = LogoutState
          BY <1>10, <2>1, SameTokens DEF Granting, TypeOK
        <4>2. QED
          BY <2>3, <3>1, <3>2, <3>4, <4>1, LogoutMoves
      <3>6. QED
        BY <2>2, <3>2, <3>3, <3>5
    <2>4. CASE t \notin open
      <3>1. TokensTyped' /\ TabsTyped' /\ LogoutTyped'
        BY <1>0, <1>10, <2>1, <2>4, Untouched DEF Granting, tabVars, logoutVars
      <3>2. QED
        BY <2>2, <3>1
    <2>5. QED
      BY <2>3, <2>4
  <1>11. ASSUME NEW t \in Tab, Refusing(t)  PROVE Typed
    <2>1. TabsTyped' /\ RefreshTyped' /\ LogoutTyped' /\ given' = given /\ UNCHANGED serverVars
      BY <1>11, ThrowsTyped DEF Refusing
    <2>2. TokensTyped'
      BY <1>0, <1>11, <2>1, Untouched DEF Refusing
    <2>3. QED
      BY <2>1, <2>2
  <1>12. ASSUME NEW t \in Tab, Breaking(t)  PROVE Typed
    <2>1. TabsTyped' /\ RefreshTyped' /\ LogoutTyped' /\ given' = given /\ UNCHANGED serverVars
      BY <1>12, ThrowsTyped DEF Breaking
    <2>2. refresh[t].token \in Token
      BY <1>12, RefreshKinds DEF Breaking, Refreshing, TypeOK
    <2>3. TokensTyped'
      BY <1>0, <1>12, <2>1, <2>2, Untouched DEF Breaking
    <2>4. QED
      BY <2>1, <2>3
  <1>13. ASSUME NEW t \in Tab, BeginLogout(t)  PROVE Typed
    <2>1. mem[t] \in Token /\ t \in open /\ UNCHANGED <<parent, valid, tabVars>>
      BY <1>13 DEF BeginLogout, TypeOK
    <2>2. RefreshTyped' /\ spoiled' \subseteq Token
      BY <1>0, <1>13, <2>1, AskTyped, Untouched DEF BeginLogout
    <2>3. TokensTyped' /\ TabsTyped'
      BY <1>0, <2>1, <2>2, Untouched DEF tabVars
    <2>4. \E l \in LogoutState : logout' = [logout EXCEPT ![t] = l]
      <3>1. Posting(mem[t], FALSE) \in LogoutState /\ Ensuring \in LogoutState
        BY <2>1, LogoutKinds
      <3>2. QED
        BY <1>13, <3>1 DEF BeginLogout
    <2>5. alone' \subseteq Tab /\ open' = open /\ LogoutState' = LogoutState
      BY <1>13, <2>1, SameTokens DEF BeginLogout, TypeOK, tabVars
    <2>6. LogoutTyped'
      BY <2>1, <2>4, <2>5, LogoutMoves
    <2>7. QED
      BY <2>2, <2>3, <2>6
  <1>14. ASSUME NEW t \in Tab, Revoke(t)  PROVE Typed
    <2>1. logout[t].token \in Token /\ t \in open
      BY <1>14, LogoutKinds, NotLoggingOut DEF Revoke, TypeOK
    <2>2. TokensTyped' /\ TabsTyped' /\ RefreshTyped'
      BY <1>0, <1>14, <2>1, Untouched DEF Revoke, tabVars
    <2>3. Revoked(logout[t].token) \in LogoutState' /\ LogoutState' = LogoutState
      BY <1>14, <2>1, LogoutKinds, SameTokens DEF Revoke
    <2>4. LogoutTyped'
      BY <1>14, <2>1, <2>3, LogoutMoves DEF Revoke, tabVars, TypeOK
    <2>5. QED
      BY <2>2, <2>4
  <1>15. ASSUME NEW t \in Tab, Rejected(t)  PROVE Typed
    <2>1. logout[t].token \in Token /\ t \in open /\ UNCHANGED <<parent, valid, tabVars>>
      BY <1>15, LogoutKinds, NotLoggingOut DEF Rejected, TypeOK
    <2>2. RefreshTyped' /\ spoiled' \subseteq Token
      BY <1>0, <1>15, <2>1, AskTyped, Untouched DEF Rejected
    <2>3. TokensTyped' /\ TabsTyped'
      BY <1>0, <2>1, <2>2, Untouched DEF tabVars
    <2>4. Renewing(logout[t].token) \in LogoutState' /\ LogoutState' = LogoutState
      BY <2>1, LogoutKinds, SameTokens
    <2>5. LogoutTyped'
      BY <1>15, <2>1, <2>4, LogoutMoves DEF Rejected, tabVars
    <2>6. QED
      BY <2>2, <2>3, <2>5
  <1>16. ASSUME NEW t \in Tab, FinishLogout(t)  PROVE Typed
    <2>1. t \in open
      BY <1>16, NotLoggingOut DEF FinishLogout
    <2>2. TabsTyped' /\ given' = given /\ open' = open
      BY <1>16, SessionCleared DEF FinishLogout, ClearSession
    <2>3. TokensTyped' /\ RefreshTyped'
      BY <1>0, <1>16, <2>2, Untouched DEF FinishLogout
    <2>4. NoLogout \in LogoutState' /\ LogoutState' = LogoutState
      BY <1>16, LogoutKinds, SameTokens DEF FinishLogout
    <2>5. LogoutTyped'
      BY <1>16, <2>1, <2>2, <2>4, LogoutMoves DEF FinishLogout, EndLogout, TypeOK
    <2>6. QED
      BY <2>2, <2>3, <2>5
  <1>17. ASSUME NEW k \in valid, Expire(k)  PROVE Typed
    BY <1>0, <1>17, Untouched DEF Expire, tabVars
  <1>18. QED
    BY <1>1, <1>2, <1>3, <1>4, <1>5, <1>6, <1>7, <1>8, <1>9, <1>10, <1>11, <1>12,
       <1>13, <1>14, <1>15, <1>16, <1>17 DEF Next

-----------------------------------------------------------------------------
(* What the steps have in common.                                          *)

\* A tab asks: its token was no one's exchange, or it spoils it.
Asking(t) ==
    /\ Ask(t) /\ t \in open /\ mem[t] # None /\ ~Refreshing(t)
    /\ UNCHANGED <<serverVars, tabVars>>

\* A refresh ends without a session.
Ending(t) ==
    /\ Refreshing(t) /\ Ends(t) /\ UNCHANGED serverVars
    /\ UNCHANGED tabVars \/ ClearSession(t)

\* The tabs and the logouts, seen through what the invariants speak of.
Effect ==
    \/ UNCHANGED <<serverVars, tabVars, refresh, spoiled>>
    \/ \E t \in Tab :
        \/ OpenTab(t) \/ CloseTab(t) \/ Hear(t) \/ Login(t)
        \/ Asking(t) \/ Take(t) \/ Refuse(t) \/ Grant(t)
        \/ Granting(t)
        \/ Refusing(t) /\ Ending(t)
        \/ Breaking(t) /\ Ending(t)
        \/ ClearSession(t) /\ UNCHANGED <<serverVars, refresh, spoiled>>
    \/ \E k \in Token : /\ valid' = valid \ {k} /\ spoiled' = spoiled \cup {k}
                        /\ UNCHANGED <<parent, tabVars, refresh>>

LEMMA StepEffect == TypeOK /\ [Next]_vars => Effect
  <1> SUFFICES ASSUME TypeOK, [Next]_vars  PROVE Effect
    OBVIOUS
  <1>1. CASE UNCHANGED vars
    BY <1>1 DEF vars, Effect
  <1>2. ASSUME NEW t \in Tab, OpenTab(t) \/ CloseTab(t) \/ Hear(t) \/ Login(t) \/ Take(t) \/ Refuse(t)
                              \/ Grant(t) \/ Granting(t)
        PROVE  Effect
    BY <1>2 DEF Effect
  <1>3. ASSUME NEW t \in Tab, Refresh(t)  PROVE Effect
    <2>1. Asking(t)
      BY <1>3 DEF Refresh, Asking
    <2>2. QED
      BY <2>1 DEF Effect
  <1>4. ASSUME NEW t \in Tab, BeginLogout(t)  PROVE Effect
    <2>1. t \in open
      BY <1>4 DEF BeginLogout, TypeOK
    <2>2. Asking(t) \/ UNCHANGED <<serverVars, tabVars, refresh, spoiled>>
      BY <1>4, <2>1 DEF BeginLogout, Asking
    <2>3. QED
      BY <2>2 DEF Effect
  <1>5. ASSUME NEW t \in Tab, Rejected(t)  PROVE Effect
    <2>1. t \in open
      BY <1>5, NotLoggingOut DEF Rejected
    <2>2. Asking(t) \/ UNCHANGED <<serverVars, tabVars, refresh, spoiled>>
      BY <1>5, <2>1 DEF Rejected, Asking
    <2>3. QED
      BY <2>2 DEF Effect
  <1>6. ASSUME NEW t \in Tab, Refusing(t)  PROVE Effect
    <2>1. Ending(t)
      BY <1>6 DEF Refusing, Throws, Ending, Refreshing
    <2>2. QED
      BY <1>6, <2>1 DEF Effect
  <1>7. ASSUME NEW t \in Tab, Breaking(t)  PROVE Effect
    <2>1. Ending(t)
      BY <1>7 DEF Breaking, Throws, Ending
    <2>2. QED
      BY <1>7, <2>1 DEF Effect
  <1>8. ASSUME NEW t \in Tab, FinishLogout(t)  PROVE Effect
    BY <1>8 DEF FinishLogout, Effect
  <1>9. ASSUME NEW t \in Tab, Revoke(t)  PROVE Effect
    <2> DEFINE k == logout[t].token
    <2>1. valid' = valid \ {k} /\ spoiled' = spoiled \cup {k} /\ UNCHANGED <<parent, tabVars, refresh>>
      BY <1>9 DEF Revoke
    <2>2. k \in Token
      BY <1>9, LogoutKinds DEF Revoke, TypeOK
    <2>3. QED
      BY <2>1, <2>2 DEF Effect
  <1>10. ASSUME NEW k \in valid, Expire(k)  PROVE Effect
    BY <1>10 DEF Expire, Effect, TypeOK
  <1>11. QED
    BY <1>1, <1>2, <1>3, <1>4, <1>5, <1>6, <1>7, <1>8, <1>9, <1>10 DEF Next

-----------------------------------------------------------------------------
(* What the tabs know.                                                     *)

LEMMA GivenStep == TypeOK /\ GivenInv /\ Effect => GivenInv'
  <1> SUFFICES ASSUME TypeOK, GivenInv, Effect  PROVE GivenInv'
    OBVIOUS
  <1> USE DEF serverVars
  <1>0. /\ open \subseteq Tab /\ given \subseteq Token /\ valid \subseteq Token /\ spoiled \subseteq Token
        /\ \A t \in Tab : Refreshing(t) => refresh[t].token \in given
        /\ \A u \in Tab : refresh[u].pc = "granted" => refresh[u].new \in Usable \ given
        /\ \A u \in Tab : refresh[u] \in RefreshState
    BY DEF TypeOK, GivenInv
  <1>1. CASE UNCHANGED <<serverVars, tabVars, refresh, spoiled>>
    BY <1>1 DEF tabVars, GivenInv, Refreshing, Usable
  <1>2. ASSUME NEW t \in Tab, OpenTab(t)  PROVE GivenInv'
    BY <1>2 DEF OpenTab, GivenInv, Refreshing, Usable, TypeOK
  <1>3. ASSUME NEW t \in Tab, CloseTab(t)  PROVE GivenInv'
    BY <1>0, <1>3 DEF CloseTab, GivenInv, Refreshing, Usable, TypeOK
  <1>4. ASSUME NEW t \in Tab, Hear(t)  PROVE GivenInv'
    <2>1. Head(news[t]) \in given /\ Tail(news[t]) \in Seq(given)
      BY <1>4 DEF Hear, GivenInv
    <2>2. QED
      BY <1>4, <2>1 DEF Hear, GivenInv, Refreshing, Usable, TypeOK
  <1>5. ASSUME NEW t \in Tab, Login(t)  PROVE GivenInv'
    <2>1. Issue(None) /\ SetSession(t, issued + 1) /\ t \in open /\ UNCHANGED <<refresh, spoiled>>
      BY <1>5 DEF Login
    <2>2. valid' = valid \cup {issued + 1} /\ given' = given \cup {issued + 1} /\ issued + 1 \notin Token
      BY <2>1, MoreTokens DEF SetSession
    <2>3. news' \in [Tab -> Seq(given')]
      BY <2>1, <2>2, Told DEF SetSession, GivenInv, TypeOK
    <2>4. QED
      BY <1>0, <2>1, <2>2, <2>3 DEF SetSession, GivenInv, Refreshing, Usable, TypeOK
  <1>6. ASSUME NEW t \in Tab, Asking(t)  PROVE GivenInv'
    <2>1. Answer(t, Sent(mem[t])) /\ mem[t] \in given
      BY <1>6 DEF Asking, Ask, Answer, GivenInv
    <2>2. refresh'[t] = Sent(mem[t]) /\ \A u \in Tab \ {t} : refresh'[u] = refresh[u]
      BY <2>1, Answered
    <2>3. QED
      BY <1>0, <1>6, <2>1, <2>2 DEF Asking, Ask, Sent, tabVars, GivenInv, Refreshing, Usable
  <1>7. ASSUME NEW t \in Tab, Take(t)  PROVE GivenInv'
    <2>1. refresh'[t] = Taken(refresh[t].token) /\ \A u \in Tab \ {t} : refresh'[u] = refresh[u]
      BY <1>7, Answered DEF Take
    <2>2. refresh[t].token \in given
      BY <1>0, <1>7 DEF Take, Refreshing
    <2>3. QED
      BY <1>0, <1>7, <2>1, <2>2 DEF Take, Consume, Taken, tabVars, GivenInv, Refreshing, Usable
  <1>8. ASSUME NEW t \in Tab, Refuse(t)  PROVE GivenInv'
    <2>1. refresh'[t] = Refused(refresh[t].token) /\ \A u \in Tab \ {t} : refresh'[u] = refresh[u]
      BY <1>8, Answered DEF Refuse
    <2>2. refresh[t].token \in given
      BY <1>0, <1>8 DEF Refuse, Refreshing
    <2>3. QED
      BY <1>0, <1>8, <2>1, <2>2 DEF Refuse, Refused, tabVars, GivenInv, Refreshing, Usable
  <1>9. ASSUME NEW t \in Tab, Grant(t)  PROVE GivenInv'
    <2>1. refresh'[t] = Granted(refresh[t].token, issued + 1) /\ \A u \in Tab \ {t} : refresh'[u] = refresh[u]
      BY <1>9, Answered DEF Grant
    <2>2. refresh[t].token \in given
      BY <1>0, <1>9 DEF Grant, Refreshing
    <2>3. valid' = valid \cup {issued + 1} /\ issued + 1 \notin Token
      BY <1>0, <1>9, <2>2, MoreTokens DEF Grant
    <2>4. QED
      BY <1>0, <1>9, <2>1, <2>2, <2>3 DEF Grant, Granted, tabVars, GivenInv, Refreshing, Usable
  <1>10. ASSUME NEW t \in Tab, Granting(t)  PROVE GivenInv'
    <2> DEFINE k == refresh[t].new
    <2>1. refresh'[t] = NoRefresh /\ \A u \in Tab \ {t} : refresh'[u] = refresh[u]
      BY <1>10, Answered DEF Granting, Ends, Answer
    <2>2. k \in Usable \ given /\ UNCHANGED <<valid, spoiled>>
      BY <1>0, <1>10 DEF Granting
    <2>3. CASE t \in open
      <3>1. SetSession(t, k)
        BY <1>10, <2>3 DEF Granting
      <3>2. given' = given \cup {k}
        BY <3>1 DEF SetSession
      <3>3. news \in [Tab -> Seq(given')] /\ k \in given'
        BY <3>2 DEF GivenInv, TypeOK
      <3>4. news' \in [Tab -> Seq(given')]
        BY <3>1, <3>3, Told DEF SetSession
      <3>5. /\ stored' \in given' \cup {None}
            /\ \A u \in Tab : mem'[u] \in given' \cup {None}
        BY <3>1, <3>2 DEF SetSession, GivenInv, TypeOK
      <3>6. \A u \in Tab \ {t} : refresh[u].pc = "granted" => refresh[u].new \in Usable \ given'
        BY <1>0, <1>10, <3>2 DEF Granting, GivenInv
      <3>7. refresh'[t].pc = "none" /\ Usable' = Usable
        BY <2>1, <2>2 DEF NoRefresh, Usable
      <3>8. QED
        BY <1>0, <2>1, <3>2, <3>4, <3>5, <3>6, <3>7 DEF GivenInv, Refreshing
    <2>4. CASE t \notin open
      BY <1>0, <1>10, <2>1, <2>2, <2>4 DEF Granting, NoRefresh, tabVars, GivenInv, Refreshing, Usable
    <2>5. QED
      BY <2>3, <2>4
  <1>11. ASSUME NEW t \in Tab, Ending(t), spoiled \subseteq spoiled'  PROVE GivenInv'
    <2>1. refresh'[t] = NoRefresh /\ \A u \in Tab \ {t} : refresh'[u] = refresh[u]
      BY <1>11, Answered DEF Ending, Ends, Answer
    <2>2. given' = given /\ news' = news /\ Usable \subseteq Usable'
      BY <1>11 DEF Ending, tabVars, ClearSession, Usable
    <2>3. stored' \in given \cup {None} /\ \A u \in Tab : mem'[u] \in given \cup {None}
      BY <1>11 DEF Ending, tabVars, ClearSession, GivenInv, TypeOK
    <2>4. refresh'[t].pc = "none"
      BY <2>1 DEF NoRefresh
    <2>5. QED
      BY <1>0, <2>1, <2>2, <2>3, <2>4 DEF GivenInv, Refreshing
  <1>12. ASSUME NEW t \in Tab, ClearSession(t), UNCHANGED <<serverVars, refresh, spoiled>>  PROVE GivenInv'
    BY <1>12 DEF ClearSession, GivenInv, Refreshing, Usable, TypeOK
  <1>13. ASSUME NEW k \in Token, valid' = valid \ {k}, spoiled' = spoiled \cup {k},
                UNCHANGED <<parent, tabVars, refresh>>
         PROVE  GivenInv'
    BY <1>0, <1>13 DEF tabVars, GivenInv, Refreshing, Usable
  <1>14. QED
    BY <1>1, <1>2, <1>3, <1>4, <1>5, <1>6, <1>7, <1>8, <1>9, <1>10, <1>11, <1>12, <1>13
       DEF Effect, Refusing, Breaking

-----------------------------------------------------------------------------
(* Rotation.                                                               *)

\* A step that neither issues nor takes a token.
LEMMA ChainKept ==
    ASSUME TypeOK, ChainInv, UNCHANGED parent, valid' \subseteq valid,
           \A u \in Tab : refresh'[u].pc = "taken" => refresh'[u] = refresh[u]
    PROVE  ChainInv'
  <1>1. Token' = Token
    BY SameTokens
  <1>2. \A k : HasSuccessor(k)' <=> HasSuccessor(k)
    BY <1>1 DEF HasSuccessor
  <1>3. QED
    BY <1>1, <1>2 DEF ChainInv, OneSuccessor

LEMMA ChainStep == TypeOK /\ ChainInv /\ Effect => ChainInv'
  <1> SUFFICES ASSUME TypeOK, ChainInv, Effect  PROVE ChainInv'
    OBVIOUS
  <1> USE DEF serverVars
  <1>0. valid \subseteq Token /\ \A u \in Tab : refresh[u].pc # "none" => refresh[u].token \in Token
    BY RefreshKinds DEF TypeOK
  <1>1. CASE UNCHANGED <<serverVars, tabVars, refresh, spoiled>>
    BY <1>1, ChainKept
  <1>2. ASSUME NEW t \in Tab, OpenTab(t) \/ CloseTab(t) \/ Hear(t)  PROVE ChainInv'
    BY <1>2, ChainKept DEF OpenTab, CloseTab, Hear
  <1>3. ASSUME NEW t \in Tab, Login(t)  PROVE ChainInv'
    <2> DEFINE n == issued + 1
    <2>1. Issue(None) /\ UNCHANGED refresh
      BY <1>3 DEF Login
    <2>2. /\ Token' = Token \cup {n} /\ n \notin Token /\ valid' = valid \cup {n}
          /\ parent'[n] = None /\ \A j \in Token : parent'[j] = parent[j]
      BY <2>1, MoreTokens
    <2>3. \A j \in Token : parent[j] # n
      BY DEF TypeOK, Token, issued
    <2>4. n # None
      BY DEF TypeOK, issued, None
    <2>5. \A k \in Token' : HasSuccessor(k)' <=> HasSuccessor(k)
      BY <2>2, <2>4 DEF HasSuccessor, Token, None
    <2>6. ~HasSuccessor(n)
      BY <2>3 DEF HasSuccessor
    <2>7. OneSuccessor'
      BY <2>2 DEF ChainInv, OneSuccessor
    <2>8. QED
      BY <1>0, <2>1, <2>2, <2>5, <2>6, <2>7 DEF ChainInv
  <1>4. ASSUME NEW t \in Tab, Asking(t)  PROVE ChainInv'
    <2>1. Answer(t, Sent(mem[t]))
      BY <1>4 DEF Asking, Ask, Answer
    <2>2. refresh'[t].pc = "sent" /\ \A u \in Tab \ {t} : refresh'[u] = refresh[u]
      BY <2>1, Answered DEF Sent
    <2>3. QED
      BY <1>4, <2>2, ChainKept DEF Asking
  <1>5. ASSUME NEW t \in Tab, Take(t)  PROVE ChainInv'
    <2> DEFINE k == refresh[t].token
    <2>1. refresh'[t] = Taken(k) /\ \A u \in Tab \ {t} : refresh'[u] = refresh[u]
      BY <1>5, Answered DEF Take
    <2>2. valid' = valid \ {k} /\ k \in valid /\ UNCHANGED parent
      BY <1>5 DEF Take, Consume
    <2>3. Token' = Token
      BY <2>2, SameTokens
    <2>4. \A j : HasSuccessor(j)' <=> HasSuccessor(j)
      BY <2>2, <2>3 DEF HasSuccessor
    <2>5. \A u \in Tab \ {t} : refresh[u].pc = "taken" => refresh[u].token # k
      BY <2>2 DEF ChainInv
    <2>6. refresh'[t].token = k
      BY <2>1 DEF Taken
    <2>7. OneSuccessor'
      BY <2>2, <2>3 DEF ChainInv, OneSuccessor
    <2>8. QED
      BY <2>1, <2>2, <2>4, <2>5, <2>6, <2>7 DEF ChainInv
  <1>6. ASSUME NEW t \in Tab, Refuse(t)  PROVE ChainInv'
    <2>1. refresh'[t].pc = "refused" /\ \A u \in Tab \ {t} : refresh'[u] = refresh[u]
      BY <1>6, Answered DEF Refuse, Refused
    <2>2. QED
      BY <1>6, <2>1, ChainKept DEF Refuse
  <1>7. ASSUME NEW t \in Tab, Grant(t)  PROVE ChainInv'
    <2> DEFINE k == refresh[t].token
               n == issued + 1
    <2>1. refresh'[t].pc = "granted" /\ \A u \in Tab \ {t} : refresh'[u] = refresh[u]
      BY <1>7, Answered DEF Grant, Granted
    <2>2. k \in Token /\ k \notin valid /\ ~HasSuccessor(k)
      BY <1>0, <1>7 DEF Grant, ChainInv
    <2>3. /\ Token' = Token \cup {n} /\ n \notin Token /\ valid' = valid \cup {n}
          /\ parent'[n] = k /\ \A j \in Token : parent'[j] = parent[j]
      BY <1>7, <2>2, MoreTokens DEF Grant
    <2>4. \A j \in Token : parent[j] # n
      BY DEF TypeOK, Token, issued
    <2>5. \A j \in Token' \ {k} : HasSuccessor(j)' <=> HasSuccessor(j)
      BY <2>3 DEF HasSuccessor
    <2>6. ~HasSuccessor(n)
      BY <2>4 DEF HasSuccessor
    <2>7. OneSuccessor'
      BY <2>2, <2>3 DEF ChainInv, OneSuccessor, HasSuccessor
    <2>8. \A u \in Tab \ {t} : refresh[u].pc = "taken" => refresh[u].token # k
      BY <1>7 DEF Grant, ChainInv
    <2>9. QED
      BY <1>0, <2>1, <2>2, <2>3, <2>5, <2>6, <2>7, <2>8 DEF ChainInv
  <1>8. ASSUME NEW t \in Tab, Granting(t) \/ Ending(t)  PROVE ChainInv'
    <2>1. refresh'[t].pc = "none" /\ \A u \in Tab \ {t} : refresh'[u] = refresh[u]
      BY <1>8, Answered DEF Granting, Ending, Ends, Answer, NoRefresh
    <2>2. QED
      BY <1>8, <2>1, ChainKept DEF Granting, Ending
  <1>9. ASSUME NEW t \in Tab, ClearSession(t), UNCHANGED <<serverVars, refresh, spoiled>>  PROVE ChainInv'
    BY <1>9, ChainKept
  <1>10. ASSUME NEW k \in Token, valid' = valid \ {k}, UNCHANGED <<parent, refresh>>  PROVE ChainInv'
    BY <1>10, ChainKept
  <1>11. QED
    BY <1>1, <1>2, <1>3, <1>4, <1>5, <1>6, <1>7, <1>8, <1>9, <1>10 DEF Effect

-----------------------------------------------------------------------------
(* The newest token of a tab is live.                                      *)

\* A live token stays live unless its exchange ends.
LEMMA LiveKept ==
    ASSUME NEW k, Live(k), Usable \subseteq Usable',
           \A u \in open : Exchanging(u) /\ refresh[u].token = k
                => (u \in open' /\ Exchanging(u)' /\ refresh'[u].token = k) \/ k \in Usable'
    PROVE  Live(k)'
  BY DEF Live

LEMMA LastOfTail ==
    ASSUME NEW S, NEW s \in Seq(S), s # <<>>
    PROVE  s[Len(s)] = IF Tail(s) = <<>> THEN Head(s) ELSE Tail(s)[Len(Tail(s))]
  <1>1. /\ Len(s) \in Nat \ {0} /\ Len(Tail(s)) = Len(s) - 1 /\ Tail(s) \in Seq(S)
        /\ \A i \in 1 .. Len(Tail(s)) : Tail(s)[i] = s[i + 1]
    BY HeadTailProperties, EmptySeq
  <1>2. CASE Tail(s) = <<>>
    <2>1. Len(<<>>) = 0
      BY EmptySeq
    <2>2. Len(s) - 1 = 0
      BY <1>1, <1>2, <2>1
    <2>3. Len(s) = 1
      <3>1. \A n \in Nat : n - 1 = 0 => n = 1
        OBVIOUS
      <3>2. Len(s) \in Nat
        BY <1>1
      <3>3. QED
        BY <2>2, <3>1, <3>2, Zenon
    <2>4. Head(s) = s[1]
      BY <1>1
    <2>5. QED
      BY <1>2, <2>3, <2>4
  <1>3. CASE Tail(s) # <<>>
    <2>1. Len(Tail(s)) \in 1 .. Len(Tail(s)) /\ Len(Tail(s)) + 1 = Len(s)
      BY <1>1, <1>3, EmptySeq
    <2>2. QED
      BY <1>1, <1>3, <2>1
  <1>4. QED
    BY <1>2, <1>3

LEMMA LatestHeard ==
    ASSUME TypeOK, NEW t \in Tab, Hear(t)
    PROVE  /\ t \in open
           /\ \A u \in Tab : Latest(u)' = Latest(u) /\ (news'[u] # <<>> => news[u] # <<>>)
  <1>1. news[t] \in Seq(Token) /\ news[t] # <<>> /\ t \in open
    BY DEF TypeOK, Hear
  <1>2. mem'[t] = Head(news[t]) /\ news'[t] = Tail(news[t])
    BY DEF TypeOK, Hear
  <1>3. \A u \in Tab \ {t} : mem'[u] = mem[u] /\ news'[u] = news[u]
    BY DEF TypeOK, Hear
  <1>4. Latest(t)' = Latest(t)
    BY <1>1, <1>2, LastOfTail DEF Latest
  <1>5. QED
    BY <1>1, <1>3, <1>4 DEF Latest

LEMMA LatestSet ==
    ASSUME TypeOK, NEW S, Token \subseteq S, NEW k \in S, NEW t \in open, SetSession(t, k)
    PROVE  /\ stored' = k /\ open' = open
           /\ \A u \in open \ {t} : Latest(u)' = k
           /\ Latest(t)' = IF news[t] = <<>> THEN k ELSE Latest(t)
           /\ news'[t] = news[t]
           /\ \A u \in Tab \ open : news'[u] = <<>>
  <1>1. news \in [Tab -> Seq(S)] /\ open \subseteq Tab
    BY DEF TypeOK
  <1>2. /\ \A u \in Tab \ (open \ {t}) : news'[u] = news[u]
        /\ \A u \in open \ {t} : news'[u] # <<>> /\ news'[u][Len(news'[u])] = k
    BY <1>1, Told DEF SetSession
  <1>3. mem'[t] = k
    BY <1>1 DEF SetSession, TypeOK
  <1>4. QED
    BY <1>1, <1>2, <1>3 DEF SetSession, Latest, TypeOK

LEMMA LatestCleared ==
    ASSUME TypeOK, NEW t \in Tab, ClearSession(t)
    PROVE  /\ stored' = None /\ open' = open /\ news' = news
           /\ Latest(t)' = IF news[t] = <<>> THEN None ELSE Latest(t)
           /\ \A u \in Tab \ {t} : Latest(u)' = Latest(u)
  BY DEF ClearSession, Latest, TypeOK

\* An ended refresh leaves the others as they are; tokens stay live when
\* the one it had taken is spoiled.
LEMMA LiveEnding ==
    ASSUME TypeOK, LiveInv, NEW t \in Tab, Refreshing(t), Ends(t), open' = open,
           valid \subseteq valid', spoiled \subseteq spoiled'
    PROVE  /\ SentUsable' /\ NoNeedlessRefusal' /\ SharedSpoiled' /\ LeftSpoiled'
           /\ refresh'[t] = NoRefresh /\ \A u \in Tab \ {t} : refresh'[u] = refresh[u]
           /\ \A k : Live(k) /\ (Exchanging(t) /\ t \in open /\ k = refresh[t].token => k \in spoiled')
                        => Live(k)'
  <1>1. refresh'[t] = NoRefresh /\ \A u \in Tab \ {t} : refresh'[u] = refresh[u]
    BY Answered DEF Ends, Answer
  <1>2. refresh'[t].pc = "none"
    BY <1>1 DEF NoRefresh
  <1>3. Usable \subseteq Usable' /\ open \subseteq Tab
    BY DEF Usable, TypeOK
  <1>4. SentUsable' /\ NoNeedlessRefusal' /\ SharedSpoiled' /\ LeftSpoiled'
    BY <1>1, <1>2, <1>3 DEF LiveInv, SentUsable, NoNeedlessRefusal, SharedSpoiled, LeftSpoiled, Refreshing
  <1>5. ASSUME NEW k, Live(k), Exchanging(t) /\ t \in open /\ k = refresh[t].token => k \in spoiled'
        PROVE  Live(k)'
    <2>1. \A u \in open : Exchanging(u) /\ refresh[u].token = k
                => (u \in open' /\ Exchanging(u)' /\ refresh'[u].token = k) \/ k \in Usable'
      BY <1>1, <1>3, <1>5 DEF Exchanging, Usable
    <2>2. QED
      BY <1>3, <1>5, <2>1, LiveKept
  <1>6. QED
    BY <1>1, <1>4, <1>5

LEMMA LiveStep == TypeOK /\ GivenInv /\ LiveInv /\ Effect => LiveInv'
  <1> SUFFICES ASSUME TypeOK, GivenInv, LiveInv, Effect  PROVE LiveInv'
    OBVIOUS
  <1> USE DEF serverVars
  <1>0. /\ open \subseteq Tab /\ given \subseteq Token /\ valid \subseteq Token /\ spoiled \subseteq Token
        /\ \A u \in Tab : Refreshing(u) => refresh[u].token \in given
    BY DEF TypeOK, GivenInv
  <1>1. CASE UNCHANGED <<serverVars, tabVars, refresh, spoiled>>
    BY <1>1 DEF tabVars, LiveInv, StoredLive, LatestLive, SentUsable, NoNeedlessRefusal, SharedSpoiled,
                LeftSpoiled, LateSpoiled, Live, Latest, Usable, Exchanging, Refreshing
  <1>2. ASSUME NEW t \in Tab, OpenTab(t)  PROVE LiveInv'
    <2>1. /\ \A u \in Tab \ {t} : Latest(u)' = Latest(u)
          /\ Latest(t)' = stored /\ news' = news /\ news[t] = <<>>
          /\ UNCHANGED <<stored, valid, spoiled, refresh>> /\ open' = open \cup {t}
      BY <1>2 DEF OpenTab, Latest, TypeOK
    <2>2. \A k : Live(k) => Live(k)'
      BY <2>1 DEF Live, Usable, Exchanging
    <2>3. StoredLive' /\ LatestLive'
      BY <1>0, <2>1, <2>2 DEF LiveInv, StoredLive, LatestLive
    <2>4. SentUsable' /\ NoNeedlessRefusal' /\ SharedSpoiled' /\ LeftSpoiled' /\ LateSpoiled'
      BY <2>1 DEF LiveInv, SentUsable, NoNeedlessRefusal, SharedSpoiled, LeftSpoiled, LateSpoiled,
                  Usable, Refreshing
    <2>5. QED
      BY <2>3, <2>4 DEF LiveInv
  <1>3. ASSUME NEW t \in Tab, CloseTab(t)  PROVE LiveInv'
    <2>1. /\ \A u \in Tab \ {t} : Latest(u)' = Latest(u) /\ news'[u] = news[u]
          /\ UNCHANGED <<stored, valid, refresh>> /\ open' = open \ {t} /\ news'[t] = <<>>
          /\ spoiled \subseteq spoiled' /\ (Refreshing(t) => refresh[t].token \in spoiled')
      BY <1>3 DEF CloseTab, Latest, TypeOK
    <2>2. ASSUME NEW k, Live(k)  PROVE Live(k)'
      <3>1. Usable \subseteq Usable'
        BY <2>1 DEF Usable
      <3>2. \A u \in open : Exchanging(u) /\ refresh[u].token = k
                => (u \in open' /\ Exchanging(u)' /\ refresh'[u].token = k) \/ k \in Usable'
        BY <2>1 DEF Exchanging, Refreshing, Usable
      <3>3. QED
        BY <2>2, <3>1, <3>2, LiveKept
    <2>3. StoredLive' /\ LatestLive'
      BY <1>0, <2>1, <2>2 DEF LiveInv, StoredLive, LatestLive
    <2>4. SentUsable' /\ NoNeedlessRefusal' /\ SharedSpoiled' /\ LeftSpoiled' /\ LateSpoiled'
      BY <2>1 DEF LiveInv, SentUsable, NoNeedlessRefusal, SharedSpoiled, LeftSpoiled, LateSpoiled,
                  Usable, Refreshing
    <2>5. QED
      BY <2>3, <2>4 DEF LiveInv
  <1>4. ASSUME NEW t \in Tab, Hear(t)  PROVE LiveInv'
    <2>1. \A u \in Tab : Latest(u)' = Latest(u) /\ (news'[u] # <<>> => news[u] # <<>>)
      BY <1>4, LatestHeard
    <2>2. UNCHANGED <<stored, open, valid, spoiled, refresh>>
      BY <1>4 DEF Hear
    <2>3. \A k : Live(k) => Live(k)'
      BY <2>2 DEF Live, Usable, Exchanging
    <2>4. StoredLive' /\ LatestLive'
      BY <1>0, <2>1, <2>2, <2>3 DEF LiveInv, StoredLive, LatestLive
    <2>5. SentUsable' /\ NoNeedlessRefusal' /\ SharedSpoiled' /\ LeftSpoiled' /\ LateSpoiled'
      BY <2>1, <2>2 DEF LiveInv, SentUsable, NoNeedlessRefusal, SharedSpoiled, LeftSpoiled, LateSpoiled,
                  Usable, Refreshing
    <2>6. QED
      BY <2>4, <2>5 DEF LiveInv
  <1>5. ASSUME NEW t \in Tab, Login(t)  PROVE LiveInv'
    <2>0. PICK n : n = issued + 1
      OBVIOUS
    <2>1. Issue(None) /\ SetSession(t, n) /\ t \in open /\ UNCHANGED <<refresh, spoiled>>
      BY <1>5, <2>0 DEF Login
    <2>2. n \notin Token /\ Token' = Token \cup {n} /\ valid' = valid \cup {n}
      BY <2>0, <2>1, MoreTokens
    <2>3. /\ stored' = n /\ open' = open
          /\ \A u \in open \ {t} : Latest(u)' = n
          /\ Latest(t)' = IF news[t] = <<>> THEN n ELSE Latest(t)
          /\ news'[t] = news[t]
          /\ \A u \in Tab \ open : news'[u] = <<>>
      <3>1. PICK S : S = Token'
        OBVIOUS
      <3>2. Token \subseteq S /\ n \in S
        BY <2>2, <3>1
      <3>3. QED
        BY <2>1, <3>2, LatestSet
    <2>4. Live(n)' /\ \A k : Live(k) => Live(k)'
      BY <2>1, <2>2, <2>3 DEF Live, Usable, Exchanging
    <2>5. StoredLive' /\ LatestLive'
      BY <2>1, <2>3, <2>4 DEF LiveInv, StoredLive, LatestLive
    <2>6. SentUsable' /\ NoNeedlessRefusal' /\ SharedSpoiled' /\ LeftSpoiled'
      BY <2>1, <2>2, <2>3 DEF LiveInv, SentUsable, NoNeedlessRefusal, SharedSpoiled, LeftSpoiled,
                  Usable, Refreshing
    <2>7. LateSpoiled'
      BY <1>0, <2>1, <2>2, <2>3 DEF LiveInv, LateSpoiled, Refreshing
    <2>8. QED
      BY <2>5, <2>6, <2>7 DEF LiveInv
  <1>6. ASSUME NEW t \in Tab, Asking(t)  PROVE LiveInv'
    <2> DEFINE k == mem[t]
    <2>1. /\ t \in open /\ k # None /\ ~Refreshing(t) /\ UNCHANGED <<valid, stored, open, mem, news>>
          /\ spoiled' = spoiled \cup (IF Overlaps(t) THEN {k} ELSE {})
      BY <1>6 DEF Asking, Ask, tabVars
    <2>2. refresh'[t] = Sent(k) /\ \A u \in Tab \ {t} : refresh'[u] = refresh[u]
      BY <1>6, Answered DEF Asking, Ask, Answer
    <2>3. refresh'[t].pc = "sent" /\ refresh'[t].token = k
      BY <2>2 DEF Sent
    <2>4. spoiled \subseteq spoiled' /\ Usable \subseteq Usable'
      BY <2>1 DEF Usable
    <2>5. k \in Usable'
      <3>1. CASE Overlaps(t)
        BY <2>1, <3>1 DEF Usable
      <3>2. CASE ~Overlaps(t)
        <4>1. Latest(t) = k
          BY <3>2 DEF Overlaps, Latest
        <4>2. Live(k)
          BY <2>1, <4>1 DEF LiveInv, LatestLive
        <4>3. \A u \in open : ~(Exchanging(u) /\ refresh[u].token = k)
          BY <1>0, <2>1, <3>2 DEF Overlaps, Exchanging, Refreshing
        <4>4. QED
          BY <2>4, <4>2, <4>3 DEF Live
      <3>3. QED
        BY <3>1, <3>2
    <2>6. ASSUME NEW j, Live(j)  PROVE Live(j)'
      <3>1. \A u \in open : Exchanging(u) /\ refresh[u].token = j
                => (u \in open' /\ Exchanging(u)' /\ refresh'[u].token = j) \/ j \in Usable'
        BY <1>0, <2>1, <2>2 DEF Exchanging, Refreshing
      <3>2. QED
        BY <2>4, <2>6, <3>1, LiveKept
    <2>7. StoredLive' /\ LatestLive'
      BY <2>1, <2>6 DEF LiveInv, StoredLive, LatestLive, Latest
    <2>8. SentUsable' /\ NoNeedlessRefusal' /\ LeftSpoiled'
      BY <2>1, <2>2, <2>3, <2>4, <2>5 DEF LiveInv, SentUsable, NoNeedlessRefusal, LeftSpoiled, Refreshing
    <2>9. SharedSpoiled'
      BY <2>1, <2>2, <2>3, <2>4 DEF LiveInv, SharedSpoiled, Overlaps, Refreshing
    <2>10. LateSpoiled'
      BY <2>1, <2>2, <2>3, <2>4 DEF LiveInv, LateSpoiled, Overlaps, Refreshing, Latest
    <2>11. QED
      BY <2>7, <2>8, <2>9, <2>10 DEF LiveInv
  <1>7. ASSUME NEW t \in Tab, Take(t)  PROVE LiveInv'
    <2> DEFINE k == refresh[t].token
    <2>1. /\ Refreshing(t) /\ valid' = valid \ {k} /\ k \in valid
          /\ UNCHANGED <<stored, open, mem, news, spoiled>>
      BY <1>7 DEF Take, Consume, tabVars, Refreshing
    <2>2. refresh'[t] = Taken(k) /\ \A u \in Tab \ {t} : refresh'[u] = refresh[u]
      BY <1>7, Answered DEF Take
    <2>3. refresh'[t].pc = "taken" /\ refresh'[t].token = k
      BY <2>2 DEF Taken
    <2>4. t \in open \/ k \in spoiled
      BY <2>1 DEF LiveInv, LeftSpoiled
    <2>5. ASSUME NEW j, Live(j)  PROVE Live(j)'
      <3>1. CASE j = k
        BY <2>1, <2>3, <2>4, <3>1 DEF Live, Usable, Exchanging
      <3>2. CASE j # k
        BY <1>0, <1>7, <2>1, <2>2, <2>3, <2>5, <3>2 DEF Live, Usable, Exchanging, Take
      <3>3. QED
        BY <3>1, <3>2
    <2>6. StoredLive' /\ LatestLive'
      BY <2>1, <2>5 DEF LiveInv, StoredLive, LatestLive, Latest
    <2>7. SentUsable'
      <3>1. \A u \in Tab \ {t} : refresh[u].pc = "sent" /\ refresh[u].token = k => k \in spoiled
        BY <2>1 DEF LiveInv, SharedSpoiled, Refreshing
      <3>2. QED
        BY <2>1, <2>2, <2>3, <3>1 DEF LiveInv, SentUsable, Usable
    <2>8. NoNeedlessRefusal' /\ SharedSpoiled' /\ LeftSpoiled' /\ LateSpoiled'
      BY <2>1, <2>2, <2>3 DEF LiveInv, NoNeedlessRefusal, SharedSpoiled, LeftSpoiled, LateSpoiled, Refreshing, Latest
    <2>9. QED
      BY <2>6, <2>7, <2>8 DEF LiveInv
  <1>8. ASSUME NEW t \in Tab, Refuse(t)  PROVE LiveInv'
    <2> DEFINE k == refresh[t].token
    <2>1. Refreshing(t) /\ k \in spoiled /\ UNCHANGED <<valid, stored, open, mem, news, spoiled>>
      BY <1>8 DEF Refuse, tabVars, Refreshing, LiveInv, SentUsable, Usable
    <2>2. refresh'[t] = Refused(k) /\ \A u \in Tab \ {t} : refresh'[u] = refresh[u]
      BY <1>8, Answered DEF Refuse
    <2>3. refresh'[t].pc = "refused" /\ refresh'[t].token = k
      BY <2>2 DEF Refused
    <2>4. \A j : Live(j) => Live(j)'
      BY <1>0, <1>8, <2>1, <2>2 DEF Live, Usable, Exchanging, Refuse
    <2>5. StoredLive' /\ LatestLive'
      BY <2>1, <2>4 DEF LiveInv, StoredLive, LatestLive, Latest
    <2>6. SentUsable' /\ NoNeedlessRefusal' /\ SharedSpoiled' /\ LeftSpoiled' /\ LateSpoiled'
      BY <2>1, <2>2, <2>3 DEF LiveInv, SentUsable, NoNeedlessRefusal, SharedSpoiled, LeftSpoiled, LateSpoiled,
                  Usable, Refreshing, Latest
    <2>7. QED
      BY <2>5, <2>6 DEF LiveInv
  <1>9. ASSUME NEW t \in Tab, Grant(t)  PROVE LiveInv'
    <2> DEFINE k == refresh[t].token
    <2>1. Refreshing(t) /\ Issue(k) /\ UNCHANGED <<stored, open, mem, news, spoiled>>
      BY <1>9 DEF Grant, tabVars, Refreshing
    <2>2. refresh'[t] = Granted(k, issued + 1) /\ \A u \in Tab \ {t} : refresh'[u] = refresh[u]
      BY <1>9, Answered DEF Grant
    <2>3. refresh'[t].pc = "granted" /\ refresh'[t].token = k
      BY <2>2 DEF Granted
    <2>4. Usable \subseteq Usable'
      BY <2>1 DEF Issue, Usable
    <2>5. \A j : Live(j) => Live(j)'
      BY <1>0, <2>1, <2>2, <2>3, <2>4 DEF Live, Exchanging
    <2>6. StoredLive' /\ LatestLive'
      BY <2>1, <2>5 DEF LiveInv, StoredLive, LatestLive, Latest
    <2>7. SentUsable' /\ NoNeedlessRefusal' /\ SharedSpoiled' /\ LeftSpoiled' /\ LateSpoiled'
      BY <2>1, <2>2, <2>3, <2>4 DEF LiveInv, SentUsable, NoNeedlessRefusal, SharedSpoiled, LeftSpoiled, LateSpoiled,
                  Refreshing, Latest
    <2>8. QED
      BY <2>6, <2>7 DEF LiveInv
  <1>10. ASSUME NEW t \in Tab, Granting(t)  PROVE LiveInv'
    <2>0. PICK k, n : k = refresh[t].token /\ n = refresh[t].new
      OBVIOUS
    <2>1. Refreshing(t) /\ Ends(t) /\ UNCHANGED <<valid, spoiled>> /\ n \in Usable \ given
      BY <1>10, <2>0 DEF Granting, Refreshing, GivenInv
    <2>2. open' = open
      BY <1>10 DEF Granting, SetSession, tabVars
    <2>3. /\ SentUsable' /\ NoNeedlessRefusal' /\ SharedSpoiled' /\ LeftSpoiled'
          /\ refresh'[t] = NoRefresh /\ \A u \in Tab \ {t} : refresh'[u] = refresh[u]
          /\ \A j : Live(j) /\ (t \in open /\ j = k => j \in spoiled) => Live(j)'
      BY <2>0, <2>1, <2>2, LiveEnding
    <2>4. refresh'[t].pc = "none"
      BY <2>3 DEF NoRefresh
    <2>5. CASE t \in open
      <3>1. SetSession(t, n)
        BY <1>10, <2>0, <2>5 DEF Granting
      <3>2. n \in Token
        BY <1>0, <2>1 DEF Usable
      <3>3. /\ stored' = n
            /\ \A u \in open \ {t} : Latest(u)' = n
            /\ Latest(t)' = IF news[t] = <<>> THEN n ELSE Latest(t)
            /\ news'[t] = news[t]
            /\ \A u \in Tab \ open : news'[u] = <<>>
        BY <2>5, <3>1, <3>2, LatestSet
      <3>4. Live(n)'
        BY <2>1 DEF Live, Usable
      <3>5. Latest(t)' # None => Live(Latest(t))'
        <4>1. CASE news[t] = <<>>
          BY <3>3, <3>4, <4>1
        <4>2. CASE news[t] # <<>> /\ Latest(t) # None
          <5>1. Live(Latest(t))
            BY <2>5, <4>2 DEF LiveInv, LatestLive
          <5>2. Latest(t) = k => k \in spoiled
            BY <2>0, <2>1, <4>2 DEF LiveInv, LateSpoiled
          <5>3. QED
            BY <2>3, <3>3, <4>2, <5>1, <5>2
        <4>3. QED
          BY <3>3, <4>1, <4>2
      <3>6. StoredLive' /\ LatestLive'
        BY <2>2, <3>3, <3>4, <3>5 DEF StoredLive, LatestLive
      <3>7. LateSpoiled'
        BY <1>0, <2>1, <2>3, <2>4, <3>3 DEF LateSpoiled, Refreshing
      <3>8. QED
        BY <2>3, <3>6, <3>7 DEF LiveInv
    <2>6. CASE t \notin open
      <3>1. UNCHANGED <<stored, mem, news>>
        BY <1>10, <2>6 DEF Granting, tabVars
      <3>2. StoredLive' /\ LatestLive'
        BY <2>2, <2>3, <2>6, <3>1 DEF LiveInv, StoredLive, LatestLive, Latest
      <3>3. LateSpoiled'
        BY <2>1, <2>3, <2>4, <3>1 DEF LiveInv, LateSpoiled, Refreshing, Latest
      <3>4. QED
        BY <2>3, <3>2, <3>3 DEF LiveInv
    <2>7. QED
      BY <2>5, <2>6
  <1>11. ASSUME NEW t \in Tab, Ending(t), spoiled \subseteq spoiled',
                Exchanging(t) => refresh[t].token \in spoiled'
         PROVE  LiveInv'
    <2>1. Refreshing(t) /\ Ends(t) /\ UNCHANGED valid /\ open' = open
      BY <1>11 DEF Ending, ClearSession, tabVars
    <2>2. /\ SentUsable' /\ NoNeedlessRefusal' /\ SharedSpoiled' /\ LeftSpoiled'
          /\ refresh'[t] = NoRefresh /\ \A u \in Tab \ {t} : refresh'[u] = refresh[u]
          /\ \A j : Live(j) => Live(j)'
      BY <1>11, <2>1, LiveEnding
    <2>3. refresh'[t].pc = "none"
      BY <2>2 DEF NoRefresh
    <2>4. /\ stored' \in {stored, None} /\ news' = news
          /\ \A u \in Tab \ {t} : Latest(u)' = Latest(u)
          /\ Latest(t)' \in {Latest(t), None}
      BY <1>11, LatestCleared DEF Ending, tabVars, Latest
    <2>5. StoredLive' /\ LatestLive'
      BY <1>0, <2>1, <2>2, <2>4 DEF LiveInv, StoredLive, LatestLive
    <2>6. LateSpoiled'
      BY <1>11, <2>2, <2>3, <2>4 DEF LiveInv, LateSpoiled, Refreshing
    <2>7. QED
      BY <2>2, <2>5, <2>6 DEF LiveInv
  <1>12. ASSUME NEW t \in Tab, ClearSession(t), UNCHANGED <<serverVars, refresh, spoiled>>  PROVE LiveInv'
    <2>1. /\ stored' = None /\ open' = open /\ news' = news
          /\ Latest(t)' = IF news[t] = <<>> THEN None ELSE Latest(t)
          /\ \A u \in Tab \ {t} : Latest(u)' = Latest(u)
      BY <1>12, LatestCleared
    <2>2. \A j : Live(j) => Live(j)'
      BY <1>12, <2>1 DEF Live, Usable, Exchanging
    <2>3. StoredLive' /\ LatestLive'
      BY <1>0, <2>1, <2>2 DEF LiveInv, StoredLive, LatestLive
    <2>4. SentUsable' /\ NoNeedlessRefusal' /\ SharedSpoiled' /\ LeftSpoiled'
      BY <1>12, <2>1 DEF LiveInv, SentUsable, NoNeedlessRefusal, SharedSpoiled, LeftSpoiled, Usable, Refreshing
    <2>5. LateSpoiled'
      BY <1>12, <2>1 DEF LiveInv, LateSpoiled, Refreshing
    <2>6. QED
      BY <2>3, <2>4, <2>5 DEF LiveInv
  <1>13. ASSUME NEW k \in Token, valid' = valid \ {k}, spoiled' = spoiled \cup {k},
                UNCHANGED <<parent, tabVars, refresh>>
         PROVE  LiveInv'
    <2>1. Usable \subseteq Usable' /\ UNCHANGED <<stored, open, mem, news>>
      BY <1>13 DEF Usable, tabVars
    <2>2. \A j : Live(j) => Live(j)'
      BY <1>13, <2>1 DEF Live, Exchanging
    <2>3. StoredLive' /\ LatestLive'
      BY <2>1, <2>2 DEF LiveInv, StoredLive, LatestLive, Latest
    <2>4. SentUsable' /\ NoNeedlessRefusal' /\ SharedSpoiled' /\ LeftSpoiled' /\ LateSpoiled'
      BY <1>13, <2>1 DEF LiveInv, SentUsable, NoNeedlessRefusal, SharedSpoiled, LeftSpoiled, LateSpoiled,
                  Refreshing, Latest
    <2>5. QED
      BY <2>3, <2>4 DEF LiveInv
  <1>14. ASSUME NEW t \in Tab, Refusing(t), Ending(t)  PROVE LiveInv'
    BY <1>11, <1>14 DEF Refusing, Exchanging
  <1>15. ASSUME NEW t \in Tab, Breaking(t), Ending(t)  PROVE LiveInv'
    BY <1>11, <1>15 DEF Breaking, Exchanging
  <1>16. QED
    BY <1>1, <1>2, <1>3, <1>4, <1>5, <1>6, <1>7, <1>8, <1>9, <1>10, <1>12, <1>13, <1>14, <1>15 DEF Effect

-----------------------------------------------------------------------------
(* The theorems.                                                           *)

LEMMA InitSession == Init => SessionInv
  <1> SUFFICES ASSUME Init  PROVE SessionInv
    OBVIOUS
  <1> USE DEF Init
  <1>1. Token = {} /\ parent = <<>>
    BY DEF Token, issued
  <1>2. NoRefresh \in RefreshState /\ NoLogout \in LogoutState /\ NoRefresh.pc = "none"
    BY RefreshKinds, LogoutKinds DEF NoRefresh
  <1>3. TypeOK
    BY <1>1, <1>2 DEF TypeOK
  <1>4. GivenInv
    BY <1>2 DEF GivenInv, Refreshing
  <1>5. ChainInv
    BY <1>1, <1>2 DEF ChainInv, OneSuccessor, HasSuccessor
  <1>6. LiveInv
    BY <1>2 DEF LiveInv, StoredLive, LatestLive, SentUsable, NoNeedlessRefusal, SharedSpoiled, LeftSpoiled,
                LateSpoiled, Refreshing
  <1>7. QED
    BY <1>3, <1>4, <1>5, <1>6 DEF SessionInv

THEOREM SessionHolds == Spec => []SessionInv
  <1>1. SessionInv /\ [Next]_vars => SessionInv'
    BY TypeStep, StepEffect, GivenStep, ChainStep, LiveStep DEF SessionInv
  <1>2. QED
    BY <1>1, InitSession, PTL DEF Spec

\* The types of all variables, for any number of tabs and tokens.
THEOREM SessionTypes == Spec => []TypeOK
  <1>1. SessionInv => TypeOK
    BY DEF SessionInv
  <1>2. QED
    BY <1>1, SessionHolds, PTL

\* No refresh token is exchanged twice (auth/refresh.go, Rotate).
THEOREM RotationIsSingleUse == Spec => []OneSuccessor
  <1>1. SessionInv => OneSuccessor
    BY DEF SessionInv, ChainInv
  <1>2. QED
    BY <1>1, SessionHolds, PTL

\* A tab that nothing has overtaken is not signed out by its own refresh
\* (store/authStore.js, the storage listener).
THEOREM TabsFollowRotation == Spec => []NoNeedlessRefusal
  <1>1. SessionInv => NoNeedlessRefusal
    BY DEF SessionInv, LiveInv
  <1>2. QED
    BY <1>1, SessionHolds, PTL

\* A reload finds a token that works or is being replaced
\* (store/authStore.js, setSession).
THEOREM ReloadFindsSession == Spec => []StoredIsUsable
  <1>1. SessionInv => StoredIsUsable
    BY DEF SessionInv, LiveInv, StoredLive, StoredIsUsable, Live, Usable, Exchanging
  <1>2. QED
    BY <1>1, SessionHolds, PTL

-----------------------------------------------------------------------------
(* Logging out.  The newest token a tab will know has not been replaced by *)
(* another that reached a tab; so a logout that no refresh meets posts the *)
(* last token of its login, and when that one is deleted the others have   *)
(* been exchanged already.                                                 *)

Newest(k) == k # None => \A s \in given : parent[s] # k

\* A tab is told of a token once, and never of the one it is exchanging.
KnownOnce(t) ==
    /\ \A i, j \in 1 .. Len(news[t]) : i # j => news[t][i] # news[t][j]
    /\ \A i \in 1 .. Len(news[t]) :
        news[t][i] # mem[t] /\ (Refreshing(t) => news[t][i] # refresh[t].token)

NewestInv ==
    /\ \A k \in Token : parent[k] \in given \cup {None}
    /\ \A t \in Tab : refresh[t].pc = "granted" => parent[refresh[t].new] = refresh[t].token
    /\ Newest(stored)
    /\ \A t \in Tab : KnownOnce(t) /\ Newest(Latest(t))

AloneInv ==
    \A t \in alone :
        /\ logout[t].pc \in {"ensuring", "posting", "revoked"}
        /\ \A u \in Tab \ {t} : ~Refreshing(u)
        /\ logout[t].pc # "ensuring" =>
                ~Refreshing(t) /\ logout[t].token \in given /\ Newest(logout[t].token)
        /\ logout[t].pc = "revoked" => logout[t].token \notin valid

\* The indices of an extended and of a shortened sequence.
LEMMA Longer ==
    ASSUME NEW S, NEW s \in Seq(S), NEW k
    PROVE  /\ \A i \in 1 .. Len(Append(s, k)) :
                \/ i \in 1 .. Len(s) /\ Append(s, k)[i] = s[i]
                \/ i = Len(s) + 1 /\ Append(s, k)[i] = k
           /\ \A i \in 1 .. Len(s) : s[i] \in S
  <1>1. Len(s) \in Nat /\ Len(Append(s, k)) = Len(s) + 1
    OBVIOUS
  <1>2. Append(s, k)[Len(s) + 1] = k /\ \A i \in 1 .. Len(s) : Append(s, k)[i] = s[i]
    OBVIOUS
  <1>3. \A n \in Nat : \A i \in 1 .. (n + 1) : i \in 1 .. n \/ i = n + 1
    OBVIOUS
  <1>4. \A i \in 1 .. Len(s) : s[i] \in S
    OBVIOUS
  <1>5. QED
    BY <1>1, <1>2, <1>3, <1>4

LEMMA Shorter ==
    ASSUME NEW S, NEW s \in Seq(S), s # <<>>
    PROVE  /\ Head(s) = s[1] /\ 1 \in 1 .. Len(s)
           /\ \A i \in 1 .. Len(Tail(s)) : Tail(s)[i] = s[i + 1] /\ i + 1 \in 1 .. Len(s) /\ i + 1 # 1
           /\ \A i, j \in 1 .. Len(Tail(s)) : i + 1 = j + 1 => i = j
  <1>1. /\ Len(s) \in Nat \ {0} /\ Len(Tail(s)) = Len(s) - 1
        /\ \A i \in 1 .. Len(Tail(s)) : Tail(s)[i] = s[i + 1]
    BY HeadTailProperties, EmptySeq
  <1>2. Head(s) = s[1] /\ 1 \in 1 .. Len(s)
    BY <1>1
  <1>3. QED
    BY <1>1, <1>2

\* A session set to a token that nobody had.
LEMMA KnownSet ==
    ASSUME TypeOK, GivenInv, \A u \in Tab : KnownOnce(u),
           NEW t \in open, NEW k, k \notin given, k # None, SetSession(t, k),
           \A u \in Tab : refresh'[u].pc # "none" => refresh'[u] = refresh[u]
    PROVE  \A u \in Tab : KnownOnce(u)'
  <1>1. open \subseteq Tab /\ t \in Tab
    BY DEF TypeOK
  <1>2. SUFFICES ASSUME NEW u \in Tab  PROVE KnownOnce(u)'
    OBVIOUS
  <1>3. /\ news[u] \in Seq(given) /\ mem[u] \in given \cup {None}
        /\ Refreshing(u) => refresh[u].token \in given
        /\ KnownOnce(u)
    BY DEF GivenInv
  <1>4. \A i \in 1 .. Len(news[u]) : news[u][i] \in given
    BY <1>3, Longer
  <1>5. mem'[u] = IF u = t THEN k ELSE mem[u]
    BY <1>1 DEF SetSession, TypeOK
  <1>6. CASE u \in open \ {t}
    <2>1. news'[u] = Append(news[u], k)
      BY <1>6 DEF SetSession, Tell
    <2>2. \A i \in 1 .. Len(news'[u]) :
            \/ i \in 1 .. Len(news[u]) /\ news'[u][i] = news[u][i]
            \/ i = Len(news[u]) + 1 /\ news'[u][i] = k
      <3>1. \A i \in 1 .. Len(Append(news[u], k)) :
                \/ i \in 1 .. Len(news[u]) /\ Append(news[u], k)[i] = news[u][i]
                \/ i = Len(news[u]) + 1 /\ Append(news[u], k)[i] = k
        BY <1>3, Longer
      <3>2. QED
        BY <2>1, <3>1, Zenon
    <2>3. \A i \in 1 .. Len(news'[u]) :
            news'[u][i] # mem[u] /\ (Refreshing(u) => news'[u][i] # refresh[u].token)
      BY <1>3, <1>4, <2>2 DEF KnownOnce
    <2>4. \A i, j \in 1 .. Len(news'[u]) : i # j => news'[u][i] # news'[u][j]
      BY <1>3, <1>4, <2>2 DEF KnownOnce
    <2>5. QED
      BY <1>5, <1>6, <2>3, <2>4 DEF KnownOnce, Refreshing
  <1>7. CASE u \notin open \ {t}
    <2>1. news'[u] = news[u]
      BY <1>7 DEF SetSession, Tell
    <2>2. QED
      BY <1>3, <1>4, <1>5, <2>1 DEF KnownOnce, Refreshing
  <1>8. QED
    BY <1>6, <1>7

LEMMA KnownHeard ==
    ASSUME TypeOK, \A u \in Tab : KnownOnce(u), NEW t \in Tab, Hear(t)
    PROVE  \A u \in Tab : KnownOnce(u)'
  <1>1. news[t] \in Seq(Token) /\ news[t] # <<>> /\ refresh' = refresh
    BY DEF TypeOK, Hear
  <1>2. mem'[t] = Head(news[t]) /\ news'[t] = Tail(news[t])
    BY DEF TypeOK, Hear
  <1>3. \A u \in Tab \ {t} : mem'[u] = mem[u] /\ news'[u] = news[u]
    BY DEF TypeOK, Hear
  <1>4. KnownOnce(t)'
    <2>1. /\ Head(news[t]) = news[t][1] /\ 1 \in 1 .. Len(news[t])
          /\ \A i \in 1 .. Len(Tail(news[t])) :
                Tail(news[t])[i] = news[t][i + 1] /\ i + 1 \in 1 .. Len(news[t]) /\ i + 1 # 1
          /\ \A i, j \in 1 .. Len(Tail(news[t])) : i + 1 = j + 1 => i = j
      BY <1>1, Shorter, Zenon
    <2>2. \A i, j \in 1 .. Len(Tail(news[t])) : i # j => Tail(news[t])[i] # Tail(news[t])[j]
      BY <2>1 DEF KnownOnce
    <2>3. \A i \in 1 .. Len(Tail(news[t])) :
            Tail(news[t])[i] # Head(news[t]) /\ (Refreshing(t) => Tail(news[t])[i] # refresh[t].token)
      BY <2>1 DEF KnownOnce
    <2>4. QED
      BY <1>1, <1>2, <2>2, <2>3 DEF KnownOnce, Refreshing
  <1>5. QED
    BY <1>1, <1>3, <1>4 DEF KnownOnce, Refreshing

\* Nobody has exchanged what nobody has.
LEMMA NewIsNewest ==
    ASSUME NewestInv, NEW k, k \notin given, given \subseteq Token
    PROVE  Newest(k)
  BY DEF NewestInv, Newest

\* A tab that hears of nothing and starts nothing.
LEMMA KnownKept ==
    ASSUME NEW u \in Tab, KnownOnce(u), news'[u] = news[u],
           mem'[u] = mem[u] \/ (mem'[u] = None /\ news[u] \in Seq(Token)),
           Refreshing(u)' => refresh'[u].token = mem[u] \/ (Refreshing(u) /\ refresh'[u].token = refresh[u].token)
    PROVE  KnownOnce(u)'
  <1>1. ASSUME news[u] \in Seq(Token)  PROVE \A i \in 1 .. Len(news[u]) : news[u][i] # None
    <2>1. \A i \in 1 .. Len(news[u]) : news[u][i] \in Token
      BY <1>1, Longer
    <2>2. QED
      BY <2>1 DEF Token, None
  <1>2. QED
    BY <1>1 DEF KnownOnce

LEMMA NewestStep == TypeOK /\ GivenInv /\ NewestInv /\ Effect => NewestInv'
  <1> SUFFICES ASSUME TypeOK, GivenInv, NewestInv, Effect  PROVE NewestInv'
    OBVIOUS
  <1> USE DEF serverVars
  <1> DEFINE Chained == /\ \A k \in Token' : parent'[k] \in given' \cup {None}
                        /\ \A u \in Tab : refresh'[u].pc = "granted" => parent'[refresh'[u].new] = refresh'[u].token
  <1>0. /\ open \subseteq Tab /\ given \subseteq Token
        /\ \A u \in Tab : refresh[u] \in RefreshState /\ news[u] \in Seq(Token)
        /\ \A u \in Tab : Refreshing(u) => refresh[u].token \in given
        /\ \A u \in Tab : refresh[u].pc = "granted" => refresh[u].new \in Token \ given
    BY RefreshKinds DEF TypeOK, GivenInv, Refreshing
  <1>1. ASSUME UNCHANGED <<parent, given>>  PROVE \A k : Newest(k)' <=> Newest(k)
    BY <1>1 DEF Newest
  <1>2. ASSUME UNCHANGED <<parent, given>>,
               \A u \in Tab : refresh'[u].pc = "granted" => refresh'[u] = refresh[u]
        PROVE  Chained
    BY <1>2, SameTokens DEF NewestInv
  <1>3. CASE UNCHANGED <<serverVars, tabVars, refresh, spoiled>>
    <2>1. Chained /\ \A k : Newest(k)' <=> Newest(k)
      BY <1>1, <1>2, <1>3 DEF tabVars
    <2>2. \A u \in Tab : KnownOnce(u)' /\ Latest(u)' = Latest(u)
      BY <1>3, KnownKept DEF tabVars, NewestInv, Refreshing, Latest
    <2>3. QED
      BY <1>3, <2>1, <2>2 DEF NewestInv, tabVars
  <1>4. ASSUME NEW t \in Tab, OpenTab(t) \/ CloseTab(t)  PROVE NewestInv'
    <2>1. UNCHANGED <<parent, given, stored, refresh>> /\ news'[t] = <<>> /\ (mem'[t] = stored \/ mem'[t] = None)
      BY <1>4 DEF OpenTab, CloseTab, TypeOK
    <2>2. \A u \in Tab \ {t} : mem'[u] = mem[u] /\ news'[u] = news[u]
      BY <1>4 DEF OpenTab, CloseTab, TypeOK
    <2>3. Chained /\ \A k : Newest(k)' <=> Newest(k)
      BY <1>1, <1>2, <2>1
    <2>4. \A u \in Tab \ {t} : KnownOnce(u)' /\ Latest(u)' = Latest(u)
      BY <2>1, <2>2, KnownKept DEF NewestInv, Refreshing, Latest
    <2>5. KnownOnce(t)' /\ Newest(Latest(t))'
      <3>1. Len(news'[t]) = 0
        BY <2>1, EmptySeq
      <3>2. Latest(t)' = mem'[t]
        BY <2>1 DEF Latest
      <3>3. QED
        BY <2>1, <2>3, <3>1, <3>2 DEF KnownOnce, NewestInv, Newest
    <2>6. QED
      BY <2>1, <2>3, <2>4, <2>5 DEF NewestInv
  <1>5. ASSUME NEW t \in Tab, Hear(t)  PROVE NewestInv'
    <2>1. UNCHANGED <<parent, given, stored, refresh>>
      BY <1>5 DEF Hear
    <2>2. \A u \in Tab : Latest(u)' = Latest(u) /\ KnownOnce(u)'
      BY <1>5, LatestHeard, KnownHeard DEF NewestInv
    <2>3. Chained /\ \A k : Newest(k)' <=> Newest(k)
      BY <1>1, <1>2, <2>1
    <2>4. QED
      BY <2>1, <2>2, <2>3 DEF NewestInv
  <1>6. ASSUME NEW t \in Tab, Login(t), NEW k, k = issued + 1  PROVE NewestInv'
    <2>1. Issue(None) /\ SetSession(t, k) /\ t \in open /\ UNCHANGED refresh
      BY <1>6 DEF Login
    <2>2. /\ Token' = Token \cup {k} /\ k \notin Token /\ parent'[k] = None
          /\ \A j \in Token : parent'[j] = parent[j]
      BY <1>6, <2>1, MoreTokens
    <2>3. given' = given \cup {k} /\ k # None
      BY <1>6, <2>1 DEF SetSession, TypeOK, issued, None
    <2>4. Chained
      BY <1>0, <2>1, <2>2, <2>3 DEF NewestInv
    <2>5. \A j : Newest(j) => Newest(j)'
      BY <1>0, <2>2, <2>3 DEF Newest
    <2>6. Newest(k)'
      BY <1>0, <2>2, <2>5, NewIsNewest
    <2>7. \A u \in Tab : KnownOnce(u)'
      BY <1>0, <2>1, <2>2, <2>3, KnownSet DEF NewestInv
    <2>8. Token \subseteq Token' /\ k \in Token'
      BY <2>2
    <2>9. /\ stored' = k /\ \A u \in open \ {t} : Latest(u)' = k
          /\ Latest(t)' = k \/ Latest(t)' = Latest(t)
          /\ \A u \in Tab \ open : news'[u] = <<>>
      BY <2>1, <2>8, LatestSet
    <2>10. \A u \in Tab \ open : Latest(u)' = None
      BY <2>1, <2>9 DEF SetSession, Latest, TypeOK
    <2>11. \A u \in Tab : Newest(Latest(u))'
      <3>1. Newest(None)'
        BY DEF Newest
      <3>2. QED
        BY <2>1, <2>5, <2>6, <2>9, <2>10, <3>1 DEF NewestInv
    <2>12. QED
      BY <2>4, <2>6, <2>7, <2>9, <2>11 DEF NewestInv
  <1>7. ASSUME NEW t \in Tab, Asking(t) \/ Take(t) \/ Refuse(t)  PROVE NewestInv'
    <2>1. UNCHANGED <<parent, tabVars>>
      BY <1>7 DEF Asking, Take, Refuse
    <2>2. /\ \A u \in Tab \ {t} : refresh'[u] = refresh[u]
          /\ refresh'[t].pc # "granted"
          /\ refresh'[t].token = mem[t] \/ (Refreshing(t) /\ refresh'[t].token = refresh[t].token)
      BY <1>7, Answered DEF Asking, Ask, Take, Refuse, Answer, Sent, Taken, Refused, Refreshing
    <2>3. Chained /\ \A k : Newest(k)' <=> Newest(k)
      BY <1>1, <1>2, <2>1, <2>2 DEF tabVars
    <2>4. \A u \in Tab : KnownOnce(u)' /\ Latest(u)' = Latest(u)
      BY <2>1, <2>2, KnownKept DEF tabVars, NewestInv, Refreshing, Latest
    <2>5. QED
      BY <2>1, <2>3, <2>4 DEF NewestInv, tabVars
  <1>8. ASSUME NEW t \in Tab, Grant(t)  PROVE NewestInv'
    <2> DEFINE k == refresh[t].token
               n == issued + 1
    <2>1. refresh'[t] = Granted(k, n) /\ \A u \in Tab \ {t} : refresh'[u] = refresh[u]
      BY <1>8, Answered DEF Grant
    <2>2. k \in given /\ k \in Token /\ Refreshing(t) /\ UNCHANGED tabVars
      BY <1>0, <1>8 DEF Grant, Refreshing
    <2>3. /\ Token' = Token \cup {n} /\ n \notin Token /\ parent'[n] = k
          /\ \A j \in Token : parent'[j] = parent[j]
      BY <1>8, <2>2, MoreTokens DEF Grant
    <2>4. refresh'[t].token = k /\ refresh'[t].new = n /\ refresh'[t].pc = "granted"
      BY <2>1 DEF Granted
    <2> HIDE DEF k, n
    <2>5. given' = given /\ stored' = stored
      BY <2>2 DEF tabVars
    <2>6. Chained
      BY <1>0, <2>1, <2>2, <2>3, <2>4, <2>5 DEF NewestInv
    <2>7. \A j : Newest(j) => Newest(j)'
      BY <1>0, <2>3, <2>5 DEF Newest
    <2>8. \A u \in Tab : KnownOnce(u)' /\ Latest(u)' = Latest(u)
      BY <2>1, <2>2, <2>4, KnownKept DEF tabVars, NewestInv, Refreshing, Latest, k
    <2>9. QED
      BY <2>5, <2>6, <2>7, <2>8 DEF NewestInv
  <1>9. ASSUME NEW t \in Tab, Granting(t), t \in open, NEW k, k = refresh[t].new  PROVE NewestInv'
    <2>1. SetSession(t, k) /\ UNCHANGED parent /\ given' = given \cup {k}
      BY <1>9 DEF Granting, SetSession
    <2>2. refresh'[t].pc = "none" /\ \A u \in Tab \ {t} : refresh'[u] = refresh[u]
      <3>1. Answer(t, NoRefresh)
        BY <1>9 DEF Granting, Ends, Answer
      <3>2. QED
        BY <3>1, Answered DEF NoRefresh
    <2>3. k \in Token \ given /\ parent[k] = refresh[t].token /\ Refreshing(t) /\ k # None
      BY <1>0, <1>9 DEF Granting, NewestInv, Refreshing, Token, None
    <2>4. Chained
      BY <2>1, <2>2, SameTokens DEF NewestInv
    <2>5. \A j : Newest(j) /\ j # refresh[t].token => Newest(j)'
      BY <2>1, <2>3 DEF Newest
    <2>6. Newest(k)'
      <3>1. Newest(k)
        BY <1>0, <2>3, NewIsNewest
      <3>2. k # refresh[t].token
        BY <1>0, <2>3
      <3>3. QED
        BY <2>5, <3>1, <3>2
    <2>7. \A u \in Tab : KnownOnce(u)'
      BY <1>9, <2>1, <2>2, <2>3, KnownSet DEF NewestInv
    <2>8. /\ stored' = k /\ \A u \in open \ {t} : Latest(u)' = k
          /\ Latest(t)' = IF news[t] = <<>> THEN k ELSE Latest(t)
          /\ \A u \in Tab \ open : news'[u] = <<>>
      BY <1>9, <2>1, <2>3, LatestSet
    <2>9. news[t] # <<>> => Latest(t) # refresh[t].token
      <3>1. news[t] # <<>> => Len(news[t]) \in 1 .. Len(news[t])
        BY <1>0, EmptySeq
      <3>2. QED
        BY <2>3, <3>1 DEF Latest, NewestInv, KnownOnce
    <2>10. \A u \in Tab \ open : Latest(u)' = None
      BY <1>9, <2>1, <2>8 DEF SetSession, Latest, TypeOK
    <2>11. \A u \in Tab : Newest(Latest(u))'
      <3>1. Newest(None)'
        BY DEF Newest
      <3>2. QED
        BY <1>9, <2>5, <2>6, <2>8, <2>9, <2>10, <3>1 DEF NewestInv
    <2>12. QED
      BY <2>4, <2>6, <2>7, <2>8, <2>11 DEF NewestInv
  <1>10. ASSUME NEW t \in Tab, (Granting(t) /\ t \notin open) \/ Ending(t)  PROVE NewestInv'
    <2>1. refresh'[t].pc = "none" /\ \A u \in Tab \ {t} : refresh'[u] = refresh[u]
      BY <1>10, Answered DEF Granting, Ending, Ends, Answer, NoRefresh
    <2>2. UNCHANGED parent /\ (UNCHANGED tabVars \/ ClearSession(t))
      BY <1>10 DEF Granting, Ending
    <2>3. UNCHANGED <<given, news>> /\ (stored' = stored \/ stored' = None)
      BY <2>2 DEF tabVars, ClearSession
    <2>4. Chained /\ \A k : Newest(k)' <=> Newest(k)
      BY <1>1, <1>2, <2>1, <2>2, <2>3
    <2>5. \A u \in Tab : /\ mem'[u] = mem[u] \/ mem'[u] = None
                         /\ Latest(u)' = Latest(u) \/ Latest(u)' = None
      BY <2>2 DEF tabVars, ClearSession, Latest, TypeOK
    <2>6. \A u \in Tab : KnownOnce(u)'
      BY <1>0, <2>1, <2>3, <2>5, KnownKept DEF NewestInv, Refreshing
    <2>7. Newest(None)'
      BY DEF Newest
    <2>8. QED
      BY <2>3, <2>4, <2>5, <2>6, <2>7 DEF NewestInv
  <1>11. ASSUME NEW t \in Tab, ClearSession(t), UNCHANGED <<serverVars, refresh, spoiled>>  PROVE NewestInv'
    <2>1. UNCHANGED <<given, news>> /\ stored' = None
      BY <1>11 DEF ClearSession
    <2>2. Chained /\ \A k : Newest(k)' <=> Newest(k)
      BY <1>1, <1>2, <1>11, <2>1
    <2>3. \A u \in Tab : /\ mem'[u] = mem[u] \/ mem'[u] = None
                         /\ Latest(u)' = Latest(u) \/ Latest(u)' = None
      BY <1>11 DEF ClearSession, Latest, TypeOK
    <2>4. \A u \in Tab : KnownOnce(u)'
      BY <1>0, <1>11, <2>1, <2>3, KnownKept DEF NewestInv, Refreshing
    <2>5. QED
      BY <2>1, <2>2, <2>3, <2>4 DEF NewestInv, Newest
  <1>12. ASSUME UNCHANGED <<parent, tabVars, refresh>>  PROVE NewestInv'
    <2>1. Chained /\ \A k : Newest(k)' <=> Newest(k)
      BY <1>1, <1>2, <1>12 DEF tabVars
    <2>2. \A u \in Tab : KnownOnce(u)' /\ Latest(u)' = Latest(u)
      BY <1>12, KnownKept DEF tabVars, NewestInv, Refreshing, Latest
    <2>3. QED
      BY <1>12, <2>1, <2>2 DEF NewestInv, tabVars
  <1>13. QED
    BY <1>3, <1>4, <1>5, <1>6, <1>7, <1>8, <1>9, <1>10, <1>11, <1>12 DEF Effect

\* What a logout relies on stays so while no refresh is granted.
LEMMA AloneKept ==
    ASSUME TypeOK, AloneInv, alone' \subseteq alone, UNCHANGED given, \A k \in Token : parent'[k] = parent[k],
           \A u \in alone' : logout'[u] = logout[u],
           \A u \in Tab : refresh'[u].pc # "none" => refresh[u].pc # "none",
           \A k \in Token : k \in valid' => k \in valid
    PROVE  AloneInv'
  <1>1. given \subseteq Token /\ alone \subseteq Tab
    BY DEF TypeOK
  <1>2. \A k : Newest(k) => Newest(k)'
    BY <1>1 DEF Newest
  <1>3. \A u \in Tab : Refreshing(u)' => Refreshing(u)
    BY DEF Refreshing
  <1>4. SUFFICES ASSUME NEW t \in alone'
                 PROVE  /\ logout'[t].pc \in {"ensuring", "posting", "revoked"}
                        /\ \A u \in Tab \ {t} : ~Refreshing(u)'
                        /\ logout'[t].pc # "ensuring" =>
                                /\ ~Refreshing(t)' /\ logout'[t].token \in given'
                                /\ \A k : k = logout'[t].token => Newest(k)'
                        /\ logout'[t].pc = "revoked" => logout'[t].token \notin valid'
    BY Zenon DEF AloneInv, Newest
  <1>5. QED
    BY <1>1, <1>2, <1>3 DEF AloneInv

LEMMA AloneStep == TypeOK /\ GivenInv /\ NewestInv /\ AloneInv /\ [Next]_vars => AloneInv'
  <1> SUFFICES ASSUME TypeOK, GivenInv, NewestInv, AloneInv, [Next]_vars  PROVE AloneInv'
    OBVIOUS
  <1> USE DEF serverVars
  <1>0. /\ open \subseteq Tab /\ given \subseteq Token /\ valid \subseteq Token /\ alone \subseteq Tab
        /\ \A u \in Tab : refresh[u].pc # "none" => refresh[u].token \in Token
    BY RefreshKinds DEF TypeOK
  <1>1. CASE UNCHANGED vars
    BY <1>1, AloneKept DEF vars, tabVars, logoutVars
  <1>2. ASSUME NEW t \in Tab, OpenTab(t) \/ CloseTab(t) \/ Hear(t)  PROVE AloneInv'
    BY <1>2, AloneKept DEF OpenTab, CloseTab, Hear, logoutVars
  <1>3. ASSUME NEW t \in Tab, Login(t)  PROVE AloneInv'
    <2>1. Issue(None) /\ SetSession(t, issued + 1) /\ UNCHANGED <<refresh, logoutVars>>
      BY <1>3 DEF Login
    <2>2. /\ Token' = Token \cup {issued + 1} /\ issued + 1 \notin Token /\ parent'[issued + 1] = None
          /\ (\A j \in Token : parent'[j] = parent[j]) /\ valid' = valid \cup {issued + 1}
      BY <2>1, MoreTokens
    <2>3. given' = given \cup {issued + 1}
      BY <2>1 DEF SetSession
    <2>4. \A j : Newest(j) => Newest(j)'
      BY <1>0, <2>2, <2>3 DEF Newest
    <2>5. UNCHANGED <<refresh, logout, alone>>
      BY <2>1 DEF logoutVars
    <2>6. \A u : Refreshing(u)' <=> Refreshing(u)
      BY <2>5 DEF Refreshing
    <2>7. \A u \in alone : logout[u].pc # "ensuring" => Newest(logout[u].token)'
      <3>1. \A u \in alone : logout[u].pc # "ensuring" => Newest(logout[u].token)
        BY DEF AloneInv
      <3>2. \A u \in alone : logout'[u].token = logout[u].token
        BY <2>5
      <3>3. QED
        BY <2>4, <3>1, <3>2
    <2>8. \A u \in alone : logout[u].pc # "ensuring" => logout[u].token \in Token
      BY <1>0 DEF AloneInv
    <2>9. QED
      BY <2>2, <2>3, <2>5, <2>6, <2>7, <2>8 DEF AloneInv
  <1>4. ASSUME NEW t \in Tab, Refresh(t) \/ Rejected(t)  PROVE AloneInv'
    BY <1>4 DEF Refresh, Rejected, AloneInv
  <1>5. ASSUME NEW t \in Tab, Take(t) \/ Refuse(t)  PROVE AloneInv'
    <2>1. refresh[t].pc # "none" /\ \A u \in Tab \ {t} : refresh'[u] = refresh[u]
      BY <1>5, Answered DEF Take, Refuse
    <2>2. UNCHANGED <<parent, given, logout, alone>> /\ valid' \subseteq valid
      BY <1>5 DEF Take, Consume, Refuse, tabVars, logoutVars
    <2>3. QED
      BY <2>1, <2>2, AloneKept
  <1>6. ASSUME NEW t \in Tab, Grant(t)  PROVE AloneInv'
    <2>1. refresh[t].pc # "none" /\ \A u \in Tab \ {t} : refresh'[u] = refresh[u]
      BY <1>6, Answered DEF Grant
    <2>2. refresh[t].token \in Token /\ Issue(refresh[t].token)
      BY <1>0, <1>6 DEF Grant
    <2>3. /\ \A j \in Token : parent'[j] = parent[j]
          /\ valid' = valid \cup {issued + 1} /\ issued + 1 \notin Token
      BY <2>2, MoreTokens
    <2>4. UNCHANGED <<given, logout, alone>>
      BY <1>6 DEF Grant, tabVars, logoutVars
    <2>5. QED
      BY <2>1, <2>3, <2>4, AloneKept
  <1>7. ASSUME NEW t \in Tab, Granting(t), t \notin open  PROVE AloneInv'
    <2>1. Answer(t, NoRefresh) /\ UNCHANGED <<parent, valid, given, logout, alone>>
      BY <1>7 DEF Granting, Ends, Answer, tabVars
    <2>2. refresh'[t].pc = "none" /\ \A u \in Tab \ {t} : refresh'[u] = refresh[u]
      BY <2>1, Answered DEF NoRefresh
    <2>3. QED
      BY <2>1, <2>2, AloneKept
  \* The only logout that its own refresh brings a token is the one that waits.
  <1>8. ASSUME NEW t \in Tab, Granting(t), t \in open, NEW k, k = refresh[t].new  PROVE AloneInv'
    <2>1. Answer(t, NoRefresh) /\ UNCHANGED <<parent, valid, alone>> /\ given' = given \cup {k}
      BY <1>8 DEF Granting, Ends, Answer, SetSession
    <2>2. refresh'[t].pc = "none" /\ \A u \in Tab \ {t} : refresh'[u] = refresh[u]
      BY <2>1, Answered DEF NoRefresh
    <2>3. Refreshing(t)
      BY <1>8 DEF Granting, Refreshing
    <2>4. \A u \in alone : u = t
      BY <2>3 DEF AloneInv
    <2>5. t \in alone => logout[t].pc = "ensuring"
      BY <2>3 DEF AloneInv
    <2>6. t \in alone => logout'[t] = Posting(k, FALSE)
      BY <1>8, <2>5 DEF Granting, Resume, TypeOK
    <2>7. Newest(k)'
      <3>1. k \in Token \ given /\ refresh[t].token \in given /\ parent[k] = refresh[t].token
        BY <1>8, <2>3, RefreshKinds DEF Granting, GivenInv, NewestInv, TypeOK
      <3>2. Newest(k)
        BY <1>0, <3>1, NewIsNewest
      <3>3. QED
        BY <2>1, <3>1, <3>2 DEF Newest
    <2>8. \A u \in Tab : Refreshing(u)' => Refreshing(u) /\ u # t
      BY <2>2 DEF Refreshing
    <2>9. t \in alone => /\ logout'[t].pc = "posting" /\ logout'[t].token = k
                         /\ \A u \in Tab : ~Refreshing(u)'
      BY <2>6, <2>8 DEF AloneInv, Posting
    <2>10. t \in alone => Newest(logout[t].token)'
      <3>1. t \in alone => logout'[t].token = k
        BY <2>9
      <3>2. QED
        BY <2>7, <3>1
    <2>11. QED
      BY <2>1, <2>4, <2>9, <2>10 DEF AloneInv
  <1>9. ASSUME NEW t \in Tab, Refusing(t) \/ Breaking(t)  PROVE AloneInv'
    <2>1. Throws(t, TRUE) \/ Throws(t, FALSE)
      BY <1>9 DEF Refusing, Breaking
    <2>2. Refreshing(t)
      BY <1>9 DEF Refusing, Breaking, Refreshing
    <2>3. Answer(t, NoRefresh) /\ UNCHANGED <<parent, valid, given>>
      BY <2>1 DEF Throws, Ends, Answer, tabVars, ClearSession
    <2>4. refresh'[t].pc = "none" /\ \A u \in Tab \ {t} : refresh'[u] = refresh[u]
      BY <2>3, Answered DEF NoRefresh
    <2>5. EndLogout(t) \/ UNCHANGED logoutVars
      BY <2>1 DEF Throws
    <2>6. alone' \subseteq alone /\ \A u \in alone' : logout'[u] = logout[u]
      BY <1>0, <2>5 DEF EndLogout, logoutVars, TypeOK
    <2>7. QED
      BY <2>3, <2>4, <2>6, AloneKept
  <1>10. ASSUME NEW t \in Tab, Revoke(t)  PROVE AloneInv'
    <2> DEFINE k == logout[t].token
    <2>1. UNCHANGED <<parent, given, refresh, alone>> /\ valid' = valid \ {k}
      BY <1>10 DEF Revoke, tabVars
    <2>2. logout'[t] = Revoked(k) /\ \A u \in Tab \ {t} : logout'[u] = logout[u]
      BY <1>10 DEF Revoke, TypeOK
    <2>3. logout'[t].pc = "revoked" /\ logout'[t].token = logout[t].token
      BY <2>2 DEF Revoked
    <2>4. logout[t].pc = "posting"
      BY <1>10 DEF Revoke
    <2>5. \A j : Newest(j)' <=> Newest(j)
      BY <2>1 DEF Newest
    <2>6. \A u : Refreshing(u)' <=> Refreshing(u)
      BY <2>1 DEF Refreshing
    <2>7. \A u \in alone : logout[u].pc # "ensuring" => Newest(logout[u].token)'
      <3>1. \A u \in alone : logout'[u].token = logout[u].token
        BY <1>0, <2>2, <2>3
      <3>2. QED
        BY <2>5, <3>1 DEF AloneInv
    <2>8. QED
      BY <1>0, <2>1, <2>2, <2>3, <2>4, <2>6, <2>7 DEF AloneInv
  <1>11. ASSUME NEW t \in Tab, FinishLogout(t)  PROVE AloneInv'
    <2>1. UNCHANGED <<parent, valid, given, refresh>>
      BY <1>11 DEF FinishLogout, ClearSession
    <2>2. alone' \subseteq alone /\ \A u \in alone' : logout'[u] = logout[u]
      BY <1>0, <1>11 DEF FinishLogout, EndLogout, TypeOK
    <2>3. QED
      BY <2>1, <2>2, AloneKept
  <1>12. ASSUME NEW k \in valid, Expire(k)  PROVE AloneInv'
    BY <1>12, AloneKept DEF Expire, tabVars, logoutVars
  <1>13. ASSUME NEW t \in Tab, BeginLogout(t), logout' = [logout EXCEPT ![t] = Ensuring],
                alone' = {u \in {t} : Alone(u)}, refresh' = refresh \/ Ask(t)
         PROVE  AloneInv'
    <2>1. logout'[t].pc = "ensuring"
      BY <1>13 DEF Ensuring, TypeOK
    <2>2. \A u \in Tab \ {t} : refresh'[u] = refresh[u]
      BY <1>13, Answered DEF Ask, Answer
    <2>3. QED
      BY <1>13, <2>1, <2>2 DEF Alone, AloneInv, Refreshing
  \* A logout that posts at once has what its tab knows, and no news is on its way.
  <1>14. ASSUME NEW t \in Tab, BeginLogout(t), logout' = [logout EXCEPT ![t] = Posting(mem[t], FALSE)],
                alone' = alone \cup {u \in {t} : Alone(u) /\ ~Refreshing(u)}, refresh' = refresh
         PROVE  AloneInv'
    <2>1. UNCHANGED <<parent, valid, given>> /\ mem[t] # None /\ logout[t].pc = "none"
      BY <1>14 DEF BeginLogout, tabVars, NoLogout
    <2>2. t \notin alone
      BY <2>1 DEF AloneInv
    <2>3. logout'[t] = Posting(mem[t], FALSE) /\ \A u \in Tab \ {t} : logout'[u] = logout[u]
      BY <1>14 DEF TypeOK
    <2>4. \A j : Newest(j)' <=> Newest(j)
      BY <2>1 DEF Newest
    <2>5. \A u : Refreshing(u)' <=> Refreshing(u)
      BY <1>14 DEF Refreshing
    <2>6. \A u \in alone : logout[u].pc # "ensuring" => Newest(logout[u].token)'
      <3>1. \A u \in alone : logout'[u].token = logout[u].token
        BY <1>0, <2>2, <2>3
      <3>2. QED
        BY <2>4, <3>1 DEF AloneInv
    <2>7. \A u \in alone : u # t /\ logout'[u] = logout[u]
      BY <1>0, <2>2, <2>3
    <2>8. logout'[t].pc = "posting" /\ logout'[t].token = mem[t]
      BY <2>3 DEF Posting
    <2>9. t \in alone' => /\ \A u \in Tab : ~Refreshing(u)'
                          /\ mem[t] \in given' /\ Newest(logout[t].token)'
      <3>1. t \in alone' => Alone(t) /\ ~Refreshing(t)
        BY <1>14, <2>2
      <3>2. Alone(t) => Newest(mem[t])
        BY DEF Alone, NewestInv, Latest
      <3>3. mem[t] \in given
        BY <2>1 DEF GivenInv
      <3>4. t \in alone' => Newest(logout[t].token)'
        BY <2>4, <2>8, <3>1, <3>2
      <3>5. QED
        BY <2>1, <2>5, <3>1, <3>3, <3>4 DEF Alone
    <2>10. \A u \in alone' : u \in alone \/ u = t
      BY <1>14
    <2> DEFINE Held(u) ==
            /\ logout[u].pc \in {"ensuring", "posting", "revoked"}
            /\ \A v \in Tab \ {u} : ~Refreshing(v)
            /\ logout[u].pc # "ensuring" =>
                    ~Refreshing(u) /\ logout[u].token \in given /\ Newest(logout[u].token)
            /\ logout[u].pc = "revoked" => logout[u].token \notin valid
    <2>11. \A u \in alone : Held(u)'
      BY <2>1, <2>5, <2>6, <2>7 DEF AloneInv
    <2>12. t \in alone' => Held(t)'
      BY <2>8, <2>9
    <2> HIDE DEF Held
    <2>13. \A u \in alone' : Held(u)'
      BY <2>10, <2>11, <2>12
    <2>14. AloneInv' <=> \A u \in alone' : Held(u)'
      BY DEF AloneInv, Held
    <2>15. QED
      BY <2>13, <2>14
  <1>15. QED
    <2>1. ASSUME NEW t \in Tab, BeginLogout(t)  PROVE AloneInv'
      BY <1>13, <1>14, <2>1 DEF BeginLogout
    <2>2. QED
      BY <1>1, <1>2, <1>3, <1>4, <1>5, <1>6, <1>7, <1>8, <1>9, <1>10, <1>11, <1>12, <2>1 DEF Next

\* Every set of naturals has a least element.
LEMMA Least ==
    ASSUME NEW S \in SUBSET Nat, S # {}
    PROVE  \E n \in S : \A m \in S : n <= m
  <1> DEFINE R == {p \in Nat \X Nat : p[1] < p[2]}
  <1>1. IsWellFoundedOn(R, Nat)
    BY Zenon, NatLessThanWellFounded DEF OpToRel
  <1>2. \A m, n \in Nat : m < n => <<m, n>> \in R
    OBVIOUS
  <1> HIDE DEF R
  <1>3. PICK n \in S : \A m \in S : ~(<<m, n>> \in R)
    BY <1>1, WFMin
  <1>4. \A m \in S : ~(m < n)
    BY <1>2, <1>3
  <1>5. QED
    BY <1>4

\* The token that the login of a token began with: the definition that
\* SameLogin makes, and the ancestors of a token.
Back == CHOOSE b : b = [i \in Token |-> IF parent[i] = None THEN i ELSE b[parent[i]]]

Closed(D) == \A d \in D : parent[d] # None => parent[d] \in D
Ancestors(i) == {a \in Token : \A D \in SUBSET Token : i \in D /\ Closed(D) => a \in D}
First(i) == CHOOSE a : a \in Ancestors(i) /\ parent[a] = None

LEMMA ParentTyped == TypeOK => \A i \in Token : parent[i] \in Nat /\ (parent[i] # None => parent[i] \in Token) /\ parent[i] < i
  BY DEF TypeOK, Token, issued, None

LEMMA BackExists == TypeOK => Back = [i \in Token |-> IF parent[i] = None THEN i ELSE Back[parent[i]]]
  <1> SUFFICES ASSUME TypeOK  PROVE Back = [i \in Token |-> IF parent[i] = None THEN i ELSE Back[parent[i]]]
    OBVIOUS
  <1> DEFINE B == [i \in Token |-> First(i)]
  <1>1. ASSUME NEW i \in Token, parent[i] = None  PROVE First(i) = i
    <2>1. {i} \in SUBSET Token /\ i \in {i} /\ Closed({i})
      BY <1>1 DEF Closed
    <2>2. \A a \in Ancestors(i) : a = i
      BY <2>1 DEF Ancestors
    <2>3. i \in Ancestors(i)
      BY DEF Ancestors
    <2>4. QED
      BY <1>1, <2>2, <2>3 DEF First
  <1>2. ASSUME NEW i \in Token, parent[i] # None  PROVE First(i) = First(parent[i])
    <2>1. parent[i] \in Token
      BY <1>2, ParentTyped
    <2>2. ASSUME NEW a, a \in Ancestors(i), parent[a] = None  PROVE a \in Ancestors(parent[i])
      <3>1. SUFFICES ASSUME NEW D \in SUBSET Token, parent[i] \in D, Closed(D)  PROVE a \in D
        BY <2>2 DEF Ancestors
      <3>2. D \cup {i} \in SUBSET Token /\ i \in D \cup {i} /\ Closed(D \cup {i})
        BY <3>1 DEF Closed
      <3>3. a \in D \cup {i}
        BY <2>2, <3>2 DEF Ancestors
      <3>4. QED
        BY <1>2, <2>2, <3>3
    <2>3. ASSUME NEW a \in Ancestors(parent[i])  PROVE a \in Ancestors(i)
      BY <1>2, <2>3 DEF Ancestors, Closed
    <2>4. \A a : a \in Ancestors(i) /\ parent[a] = None <=> a \in Ancestors(parent[i]) /\ parent[a] = None
      BY <2>2, <2>3
    <2>5. QED
      BY <2>4, Zenon DEF First
  <1>3. B = [i \in Token |-> IF parent[i] = None THEN i ELSE B[parent[i]]]
    <2>1. \A i \in Token : First(i) = IF parent[i] = None THEN i ELSE B[parent[i]]
      BY <1>1, <1>2, ParentTyped
    <2>2. QED
      BY <2>1
  <1> HIDE DEF B
  <1>4. \E b : b = [i \in Token |-> IF parent[i] = None THEN i ELSE b[parent[i]]]
    BY <1>3
  <1>5. QED
    BY <1>4, Zenon DEF Back

\* No token is older than the first of its login.
LEMMA BackIsOlder == TypeOK => \A i \in Token : Back[i] \in Nat /\ Back[i] <= i
  <1> SUFFICES ASSUME TypeOK, ~\A i \in Token : Back[i] \in Nat /\ Back[i] <= i  PROVE FALSE
    OBVIOUS
  <1> DEFINE Bad == {i \in Token : ~(Back[i] \in Nat /\ Back[i] <= i)}
  <1>1. Bad \in SUBSET Nat /\ Bad # {}
    BY DEF Token
  <1>2. PICK n \in Bad : \A m \in Bad : n <= m
    BY <1>1, Least
  <1>3. n \in Token /\ ~(Back[n] \in Nat /\ Back[n] <= n) /\ n \in Nat
    BY <1>1
  <1>4. parent[n] \in Nat /\ (parent[n] # None => parent[n] \in Token) /\ parent[n] < n
    BY <1>3, ParentTyped
  <1>5. Back[n] = IF parent[n] = None THEN n ELSE Back[parent[n]]
    BY <1>3, BackExists
  <1>6. parent[n] # None
    BY <1>3, <1>5
  <1>7. parent[n] \notin Bad
    BY <1>2, <1>3, <1>4
  <1>8. Back[parent[n]] \in Nat /\ Back[parent[n]] <= parent[n]
    BY <1>4, <1>6, <1>7
  <1>9. QED
    BY <1>3, <1>4, <1>5, <1>6, <1>8

\* Of two tokens of one login, the older has been exchanged for a token
\* that has reached a tab.
LEMMA OlderIsExchanged ==
    ASSUME TypeOK, OneSuccessor, NewestInv
    PROVE  \A i, j \in given : i < j /\ Back[i] = Back[j] => \E s \in given : parent[s] = i
  <1> DEFINE Good(i, j) == i < j /\ Back[i] = Back[j] => \E s \in given : parent[s] = i /\ s <= j
             Bad == {j \in given : \E i \in given : ~Good(i, j)}
  <1>1. given \subseteq Token /\ Token \subseteq Nat
    BY DEF TypeOK, Token
  <1>2. \A i \in Token : /\ parent[i] \in Nat /\ parent[i] < i
                         /\ parent[i] # None => parent[i] \in given
                         /\ Back[i] = IF parent[i] = None THEN i ELSE Back[parent[i]]
                         /\ Back[i] \in Nat /\ Back[i] <= i
    BY ParentTyped, BackExists, BackIsOlder DEF NewestInv
  <1>3. SUFFICES ASSUME Bad # {}  PROVE FALSE
    BY Zenon
  <1>4. Bad \in SUBSET Nat
    BY <1>1
  <1>5. PICK j \in Bad : \A m \in Bad : j <= m
    BY <1>3, <1>4, Least
  <1>6. PICK i \in given : ~Good(i, j)
    OBVIOUS
  <1>7. /\ i \in Token /\ j \in Token /\ i \in Nat /\ j \in Nat /\ j \in given
        /\ i < j /\ Back[i] = Back[j] /\ \A s \in given : parent[s] = i => ~(s <= j)
    BY <1>1, <1>6
  <1>8. \A m, n \in given : n < j => Good(m, n)
    BY <1>1, <1>5, <1>7
  <1>9. parent[j] # None
    <2>1. Back[i] <= i
      BY <1>2, <1>7
    <2>2. QED
      BY <1>2, <1>7, <2>1
  <1> DEFINE p == parent[j]
  <1>10. p \in given /\ p \in Token /\ p \in Nat /\ p < j /\ Back[p] = Back[i]
    BY <1>1, <1>2, <1>7, <1>9
  <1>11. p # i
    <2>1. j <= j
      BY <1>7
    <2>2. QED
      BY <1>7, <2>1
  <1>12. CASE i < p
    <2>1. PICK s \in given : parent[s] = i /\ s <= p
      BY <1>7, <1>8, <1>10, <1>12
    <2>2. s <= j
      BY <1>1, <1>7, <1>10, <2>1
    <2>3. QED
      BY <1>7, <2>1, <2>2
  <1>13. CASE p < i
    <2>1. PICK s \in given : parent[s] = p /\ s <= i
      BY <1>7, <1>8, <1>10, <1>13
    <2>2. s # j /\ s \in Token
      BY <1>1, <1>7, <2>1
    <2>3. QED
      BY <1>7, <1>9, <2>1, <2>2 DEF OneSuccessor
  <1>14. QED
    BY <1>7, <1>10, <1>11, <1>12, <1>13

LEMMA LogoutIsLast ==
    ASSUME TypeOK, ChainInv, NewestInv, AloneInv
    PROVE  LogoutRevokes
  <1>1. SUFFICES ASSUME NEW t \in Tab, logout[t].pc = "revoked", t \in alone,
                        NEW k \in given \cap valid, SameLogin(k, logout[t].token)
                 PROVE  FALSE
    BY DEF LogoutRevokes
  <1> DEFINE l == logout[t].token
  <1>2. l \in given /\ l \notin valid /\ \A s \in given : parent[s] # l
    <2>1. l # None
      BY <1>1 DEF AloneInv, TypeOK, Token, None
    <2>2. QED
      BY <1>1, <2>1 DEF AloneInv, Newest
  <1>3. Back[k] = Back[l]
    BY <1>1 DEF SameLogin, Back
  <1>4. given \subseteq Token /\ Token \subseteq Nat
    BY DEF TypeOK, Token
  <1>5. \A s \in given : parent[s] # k
    BY <1>4 DEF ChainInv, HasSuccessor
  <1>6. ~(k < l) /\ ~(l < k)
    BY <1>2, <1>3, <1>5, OlderIsExchanged DEF ChainInv
  <1>7. k \in Nat /\ l \in Nat
    BY <1>2, <1>4
  <1>8. k = l
    BY <1>6, <1>7
  <1>9. QED
    BY <1>2, <1>8

THEOREM LogoutInvariant == Spec => [](SessionInv /\ NewestInv /\ AloneInv)
  <1>1. Init => NewestInv /\ AloneInv
    <2> SUFFICES ASSUME Init  PROVE NewestInv /\ AloneInv
      OBVIOUS
    <2>1. Token = {} /\ given = {} /\ alone = {} /\ stored = None
      BY DEF Init, Token, issued
    <2>2. \A t \in Tab : refresh[t].pc = "none" /\ news[t] = <<>> /\ Len(news[t]) = 0 /\ mem[t] = None
      BY EmptySeq DEF Init, NoRefresh
    <2>3. \A t \in Tab : KnownOnce(t) /\ Newest(Latest(t))
      <3>1. \A t \in Tab : Latest(t) = None
        BY <2>2 DEF Latest
      <3>2. \A t \in Tab : KnownOnce(t)
        <4>1. \A t \in Tab : Len(news[t]) = 0
          BY <2>2
        <4>2. \A t \in Tab : \A i : i \notin 1 .. Len(news[t])
          BY <4>1
        <4>3. QED
          BY <4>2, Zenon DEF KnownOnce
      <3>3. QED
        BY <3>1, <3>2 DEF Newest
    <2>4. QED
      BY <2>1, <2>2, <2>3 DEF NewestInv, AloneInv, Newest
  <1>2. SessionInv /\ NewestInv /\ AloneInv /\ [Next]_vars => (NewestInv /\ AloneInv)'
    BY StepEffect, NewestStep, AloneStep DEF SessionInv
  <1>3. QED
    BY <1>1, <1>2, SessionHolds, PTL DEF Spec

\* When a logout that no other refresh met is answered, no token that its
\* login has brought the browser works any more, however long the login
\* lasted (SettingsPopover.jsx, handleLogout; auth/refresh.go, Revoke).
THEOREM LogoutEndsTheLogin == Spec => []LogoutRevokes
  <1>1. SessionInv /\ NewestInv /\ AloneInv => LogoutRevokes
    BY LogoutIsLast DEF SessionInv
  <1>2. QED
    BY <1>1, LogoutInvariant, PTL

-----------------------------------------------------------------------------
(* The user's record.  An entry of the cache that differs from the row is  *)
(* excused, or the request that made it differ has still to invalidate it; *)
(* and while no two requests overlap, the tab is behind the row by no more *)
(* than the change whose answer it waits for.                              *)

RequestRecord ==
    [n : 0 .. MaxWrites, via : {"settings", "form", "other"}, fields : SUBSET Profiles!Field,
     pc : {"sent", "read", "written", "done"}, snap : Profiles!Record]
EntryRecord(pc) ==
    [pc : {pc}, age : 0 .. Ttl, snap : Profiles!Record, passed : BOOLEAN,
     excused : BOOLEAN, old : 0 .. Ttl]
BegunRecord == [pc : {"begun"}, age : 0 .. Ttl]
AnswerRecord == [pc : {"read"}, snap : Profiles!Record, passed : BOOLEAN]

RecordTyped ==
    /\ row \in Profiles!Record /\ wanted \in Profiles!Record /\ user \in Profiles!Record
    /\ card = Profiles!Nothing \/ card \in Profiles!Record
    /\ reqs \subseteq RequestRecord /\ writes \in 0 .. MaxWrites
    /\ cache = Profiles!Nothing \/ cache \in EntryRecord("kept")
    /\ lookup = Profiles!Nothing \/ lookup \in BegunRecord \/ lookup \in EntryRecord("read")
    /\ ready = Profiles!Nothing \/ ready \in AnswerRecord
    /\ fetch = Profiles!Nothing \/ fetch \in AnswerRecord
    /\ apart \in BOOLEAN /\ cardApart \in BOOLEAN /\ overlap \in BOOLEAN

Uninvalidated == \E r \in reqs : r.pc = "written"

FreshEntry(x) ==
    /\ x.old <= x.age
    /\ x.snap # row => x.excused \/ Uninvalidated

EntriesFresh ==
    /\ cache # Profiles!Nothing => cache.age < Ttl /\ FreshEntry(cache)
    /\ lookup.pc = "read" => FreshEntry(lookup)

OneUnderWay ==
    /\ \A q, r \in reqs : q = r
    /\ reqs # {} => ready = Profiles!Nothing /\ fetch = Profiles!Nothing
    /\ ready = Profiles!Nothing \/ fetch = Profiles!Nothing

Shows(record) ==
    /\ ~apart => user = record
    /\ card # Profiles!Nothing /\ ~cardApart => card = record

Unanswered(r) == r.pc \in {"written", "done"}

TabFollows ==
    /\ row = wanted
    /\ \A r \in reqs :
        /\ r.pc = "read" => r.snap = row
        /\ Unanswered(r) => row = Profiles!With(r.snap, r.fields, r.n) /\ Shows(r.snap)
    /\ (\A r \in reqs : ~Unanswered(r)) => Shows(row)
    /\ ready # Profiles!Nothing => ready.snap = row
    /\ fetch # Profiles!Nothing => fetch.snap = row

RecordInv ==
    /\ RecordTyped
    /\ EntriesFresh
    /\ ~overlap => OneUnderWay /\ TabFollows

LEMMA RecordConstants ==
    Ttl \in Nat /\ Ttl > 0 /\ MaxWrites \in Nat /\ MaxReadies \in Nat
  BY ProfileIsSound DEF Profiles!ProfileAssumption

LEMMA RecordInit == Profiles!Init => RecordInv
  <1> SUFFICES ASSUME Profiles!Init  PROVE RecordInv
    OBVIOUS
  <1>1. RecordTyped
    <2>1. [f \in Profiles!Field |-> 0] \in Profiles!Record /\ 0 \in 0 .. MaxWrites
      BY RecordConstants DEF Profiles!Record
    <2>2. QED
      BY <2>1 DEF Profiles!Init, RecordTyped
  <1>2. EntriesFresh
    BY DEF Profiles!Init, Profiles!Nothing, EntriesFresh
  <1>3. OneUnderWay /\ TabFollows
    BY DEF Profiles!Init, OneUnderWay, TabFollows, Shows
  <1>4. QED
    BY <1>1, <1>2, <1>3 DEF RecordInv

LEMMA Rewritten ==
    \A record \in Profiles!Record, n \in 0 .. MaxWrites : \A fields :
        Profiles!With(record, fields, n) \in Profiles!Record
  BY DEF Profiles!With, Profiles!Record

\* A request that moves on.
LEMMA Moved ==
    \A r \in RequestRecord, pc \in {"sent", "read", "written", "done"} :
        /\ [r EXCEPT !.pc = pc] \in RequestRecord
        /\ [r EXCEPT !.pc = pc].pc = pc
        /\ [r EXCEPT !.pc = pc].snap = r.snap
        /\ [r EXCEPT !.pc = pc].fields = r.fields
        /\ [r EXCEPT !.pc = pc].n = r.n
  BY DEF RequestRecord

\* Where an entry is, its answer may be given out.
LEMMA EntryKinds ==
    ASSUME RecordTyped
    PROVE  /\ Profiles!Nothing.pc = "none"
           /\ cache # Profiles!Nothing <=> cache.pc = "kept"
           /\ cache.pc = "kept" <=> cache \in EntryRecord("kept")
           /\ cache.pc \in {"kept", "none"}
           /\ lookup.pc = "read" <=> lookup \in EntryRecord("read")
           /\ lookup.pc = "begun" <=> lookup \in BegunRecord
           /\ lookup # Profiles!Nothing <=> lookup.pc # "none"
           /\ lookup.pc \in {"read", "begun", "none"}
           /\ ready # Profiles!Nothing => ready \in AnswerRecord /\ ready.pc = "read"
           /\ fetch # Profiles!Nothing => fetch \in AnswerRecord /\ fetch.pc = "read"
  BY DEF RecordTyped, Profiles!Nothing, EntryRecord, BegunRecord, AnswerRecord

\* Time, and a write of the row, leave an entry what it was.
LEMMA EntryChanges ==
    \A pc \in {"read", "kept"} : \A x \in EntryRecord(pc) :
        /\ Profiles!Overtaken(x) \in EntryRecord(pc)
        /\ Profiles!Overtaken(x).old = x.old /\ Profiles!Overtaken(x).age = x.age
        /\ Profiles!Missed(x) \in EntryRecord(pc) /\ Profiles!Missed(x).excused
        /\ Profiles!Missed(x).old = x.old /\ Profiles!Missed(x).age = x.age
        /\ Profiles!Older(x) \in EntryRecord(pc)
        /\ Profiles!Older(x).snap = x.snap /\ Profiles!Older(x).excused = x.excused
        /\ Profiles!Older(x).age = (IF x.age < Ttl THEN x.age + 1 ELSE x.age)
        /\ x.old <= x.age => Profiles!Older(x).old <= Profiles!Older(x).age
  <1> SUFFICES ASSUME NEW pc \in {"read", "kept"}, NEW x \in EntryRecord(pc)
               PROVE  /\ Profiles!Overtaken(x) \in EntryRecord(pc)
                      /\ Profiles!Overtaken(x).old = x.old /\ Profiles!Overtaken(x).age = x.age
                      /\ Profiles!Missed(x) \in EntryRecord(pc) /\ Profiles!Missed(x).excused
                      /\ Profiles!Missed(x).old = x.old /\ Profiles!Missed(x).age = x.age
                      /\ Profiles!Older(x) \in EntryRecord(pc)
                      /\ Profiles!Older(x).snap = x.snap /\ Profiles!Older(x).excused = x.excused
                      /\ Profiles!Older(x).age = (IF x.age < Ttl THEN x.age + 1 ELSE x.age)
                      /\ x.old <= x.age => Profiles!Older(x).old <= Profiles!Older(x).age
    OBVIOUS
  <1>1. x.pc = pc /\ x.pc \in {"read", "kept"} /\ x.age \in 0 .. Ttl /\ x.old \in 0 .. Ttl
    BY DEF EntryRecord
  <1>2. Profiles!Overtaken(x) = [x EXCEPT !.passed = TRUE]
    BY <1>1 DEF Profiles!Overtaken
  <1>3. Profiles!Missed(x) = [x EXCEPT !.excused = TRUE]
    BY <1>1 DEF Profiles!Missed
  <1>4. Profiles!Older(x) =
            [x EXCEPT !.age = IF x.age < Ttl THEN x.age + 1 ELSE x.age,
                      !.old = IF x.passed /\ x.old < Ttl THEN x.old + 1 ELSE x.old]
    BY <1>1 DEF Profiles!Older
  <1>5. /\ Profiles!Overtaken(x) \in EntryRecord(pc)
        /\ Profiles!Overtaken(x).old = x.old /\ Profiles!Overtaken(x).age = x.age
    BY <1>2 DEF EntryRecord
  <1>6. /\ Profiles!Missed(x) \in EntryRecord(pc) /\ Profiles!Missed(x).excused
        /\ Profiles!Missed(x).old = x.old /\ Profiles!Missed(x).age = x.age
    BY <1>3 DEF EntryRecord
  <1>7. /\ Profiles!Older(x) \in EntryRecord(pc)
        /\ Profiles!Older(x).snap = x.snap /\ Profiles!Older(x).excused = x.excused
        /\ Profiles!Older(x).age = (IF x.age < Ttl THEN x.age + 1 ELSE x.age)
        /\ Profiles!Older(x).old = (IF x.passed /\ x.old < Ttl THEN x.old + 1 ELSE x.old)
    <2> DEFINE a == IF x.age < Ttl THEN x.age + 1 ELSE x.age
               o == IF x.passed /\ x.old < Ttl THEN x.old + 1 ELSE x.old
    <2>1. a \in 0 .. Ttl /\ o \in 0 .. Ttl
      BY <1>1, RecordConstants
    <2>2. Profiles!Older(x) = [x EXCEPT !.age = a, !.old = o]
      BY <1>4
    <2> HIDE DEF a, o
    <2>3. /\ [x EXCEPT !.age = a, !.old = o] \in EntryRecord(pc)
          /\ [x EXCEPT !.age = a, !.old = o].snap = x.snap
          /\ [x EXCEPT !.age = a, !.old = o].excused = x.excused
          /\ [x EXCEPT !.age = a, !.old = o].age = a
          /\ [x EXCEPT !.age = a, !.old = o].old = o
      BY <2>1 DEF EntryRecord
    <2>4. QED
      BY <2>2, <2>3 DEF a, o
  <1>8. x.old <= x.age => Profiles!Older(x).old <= Profiles!Older(x).age
    BY <1>1, <1>7, RecordConstants
  <1>9. QED
    BY <1>5, <1>6, <1>7, <1>8

LEMMA RecordTypedStep ==
    ASSUME RecordTyped, Profiles!Next
    PROVE  RecordTyped'
  <1> USE DEF Profiles!serverVars, Profiles!tabVars, Profiles!linkVars
  <1>1. ASSUME NEW form \in Profiles!Form, Profiles!Ask(form[1], form[2])  PROVE RecordTyped'
    <2> DEFINE r == [n |-> writes + 1, via |-> form[1], fields |-> form[2], pc |-> "sent",
                     snap |-> row]
    <2>1. form[1] \in {"settings", "form", "other"} /\ form[2] \subseteq Profiles!Field
      BY DEF Profiles!Form, Profiles!Field
    <2>2. writes \in 0 .. MaxWrites /\ writes < MaxWrites /\ writes' = writes + 1
          /\ reqs' = reqs \cup {r} /\ row \in Profiles!Record
      BY <1>1 DEF Profiles!Ask, RecordTyped
    <2>3. writes + 1 \in 0 .. MaxWrites
      BY <2>2, RecordConstants
    <2>4. r \in RequestRecord
      BY <2>1, <2>2, <2>3 DEF RequestRecord
    <2> HIDE DEF r
    <2>5. UNCHANGED <<row, wanted, cache, lookup, user, card, apart, cardApart, ready, fetch>>
          /\ overlap' \in BOOLEAN
      BY <1>1 DEF Profiles!Ask, RecordTyped
    <2>6. QED
      BY <2>2, <2>3, <2>4, <2>5 DEF RecordTyped
  <1>2. ASSUME NEW r \in reqs, Profiles!ReadRow(r)  PROVE RecordTyped'
    <2>1. [r EXCEPT !.pc = "read", !.snap = row] \in RequestRecord
      BY DEF RecordTyped, RequestRecord
    <2>2. QED
      BY <1>2, <2>1 DEF RecordTyped, Profiles!ReadRow
  <1>3. ASSUME NEW r \in reqs, Profiles!WriteRow(r)  PROVE RecordTyped'
    <2>1. r \in RequestRecord /\ r.snap \in Profiles!Record /\ r.n \in 0 .. MaxWrites
      BY DEF RecordTyped, RequestRecord
    <2>2. reqs' \subseteq RequestRecord
      BY <1>3, <2>1, Moved DEF RecordTyped, Profiles!WriteRow, Profiles!Move
    <2>3. wanted' \in Profiles!Record
      BY <1>3, <2>1, Rewritten DEF RecordTyped, Profiles!WriteRow
    <2>4. row' \in Profiles!Record
      <3>1. row \in Profiles!Record /\ Profiles!With(r.snap, r.fields, r.n) \in Profiles!Record
        BY <2>1, Rewritten DEF RecordTyped
      <3>2. QED
        BY <1>3, <3>1 DEF Profiles!WriteRow, Profiles!Record
    <2>5. /\ Profiles!Overtaken(Profiles!Nothing) = Profiles!Nothing
          /\ \A x \in BegunRecord : Profiles!Overtaken(x) = x
          /\ \A x \in AnswerRecord : Profiles!Overtaken(x) \in AnswerRecord
      BY DEF Profiles!Overtaken, Profiles!Nothing, BegunRecord, AnswerRecord
    <2>6. /\ cache' = Profiles!Overtaken(cache) /\ lookup' = Profiles!Overtaken(lookup)
          /\ ready' = Profiles!Overtaken(ready) /\ fetch' = Profiles!Overtaken(fetch)
          /\ UNCHANGED <<user, card, apart, cardApart, overlap, writes>>
      BY <1>3 DEF Profiles!WriteRow
    <2>7. QED
      BY <2>2, <2>3, <2>4, <2>5, <2>6, EntryChanges DEF RecordTyped
  <1>4. ASSUME NEW r \in reqs, Profiles!Finish(r)  PROVE RecordTyped'
    <2>1. reqs' \subseteq RequestRecord
      BY <1>4, Moved DEF RecordTyped, Profiles!Finish, Profiles!Move
    <2>2. /\ Profiles!Missed(Profiles!Nothing) = Profiles!Nothing
          /\ \A x \in BegunRecord : Profiles!Missed(x) = x
      BY DEF Profiles!Missed, Profiles!Nothing, BegunRecord
    <2>3. cache' \in {Profiles!Nothing, Profiles!Missed(cache)} /\ lookup' = Profiles!Missed(lookup)
          /\ UNCHANGED <<row, wanted, user, card, apart, cardApart, ready, fetch, overlap, writes>>
      BY <1>4 DEF Profiles!Finish, Profiles!Invalidate
    <2>4. QED
      BY <2>1, <2>2, <2>3, EntryChanges DEF RecordTyped
  <1>5. ASSUME NEW r \in reqs, Profiles!Answer(r)  PROVE RecordTyped'
    <2>1. Profiles!Answered(r) \in Profiles!Record
      <3>1. r.snap \in Profiles!Record /\ r.n \in 0 .. MaxWrites /\ user \in Profiles!Record
        BY DEF RecordTyped, RequestRecord
      <3>2. QED
        BY <3>1, Rewritten DEF Profiles!Answered
    <2>2. user' \in Profiles!Record /\ (card' = user' \/ card' = card) /\ reqs' \subseteq reqs
          /\ apart' \in BOOLEAN /\ cardApart' \in BOOLEAN
      BY <1>5, <2>1 DEF Profiles!Answer, RecordTyped
    <2>3. UNCHANGED <<row, wanted, cache, lookup, ready, fetch, overlap, writes>>
      BY <1>5 DEF Profiles!Answer
    <2>4. QED
      BY <2>2, <2>3 DEF RecordTyped
  <1>6. ASSUME NEW r \in reqs, Profiles!Fail(r)  PROVE RecordTyped'
    BY <1>6 DEF Profiles!Fail, RecordTyped
  <1>7. ASSUME Profiles!Miss  PROVE RecordTyped'
    BY <1>7, RecordConstants DEF Profiles!Miss, RecordTyped, BegunRecord
  <1>8. ASSUME Profiles!LookUp  PROVE RecordTyped'
    <2>1. lookup \in BegunRecord /\ row \in Profiles!Record
      BY <1>8, EntryKinds DEF Profiles!LookUp, RecordTyped
    <2>2. lookup' \in EntryRecord("read")
      BY <1>8, <2>1, RecordConstants DEF Profiles!LookUp, BegunRecord, EntryRecord
    <2>3. QED
      BY <1>8, <2>2 DEF Profiles!LookUp, RecordTyped
  <1>9. ASSUME Profiles!Keep  PROVE RecordTyped'
    <2>1. lookup \in EntryRecord("read")
      BY <1>9, EntryKinds DEF Profiles!Keep
    <2>2. [lookup EXCEPT !.pc = "kept"] \in EntryRecord("kept")
      BY <2>1 DEF EntryRecord
    <2>3. QED
      BY <1>9, <2>2 DEF Profiles!Keep, RecordTyped
  <1>10. ASSUME Profiles!Tick  PROVE RecordTyped'
    <2>1. Profiles!Older(Profiles!Nothing) = Profiles!Nothing
      BY DEF Profiles!Older, Profiles!Nothing
    <2>2. ASSUME NEW x \in BegunRecord  PROVE Profiles!Older(x) \in BegunRecord
      <3>1. x.pc = "begun" /\ x.age \in 0 .. Ttl
        BY DEF BegunRecord
      <3>2. Profiles!Older(x) = [x EXCEPT !.age = IF x.age < Ttl THEN x.age + 1 ELSE x.age]
        BY <3>1 DEF Profiles!Older
      <3>3. (IF x.age < Ttl THEN x.age + 1 ELSE x.age) \in 0 .. Ttl
        BY <3>1, RecordConstants
      <3>4. QED
        BY <3>2, <3>3 DEF BegunRecord
    <2>3. lookup' = Profiles!Older(lookup) /\ cache' \in {Profiles!Nothing, Profiles!Older(cache)}
          /\ UNCHANGED <<row, wanted, reqs, user, card, apart, cardApart, ready, fetch, overlap, writes>>
      BY <1>10 DEF Profiles!Tick
    <2>4. QED
      BY <2>1, <2>2, <2>3, EntryChanges DEF RecordTyped
  <1>11. ASSUME Profiles!Reconnect  PROVE RecordTyped'
    BY <1>11 DEF Profiles!Reconnect, RecordTyped, AnswerRecord
  <1>12. ASSUME Profiles!Ready  PROVE RecordTyped'
    <2>1. ready \in AnswerRecord
      BY <1>12 DEF Profiles!Ready, RecordTyped
    <2>2. ready.snap \in Profiles!Record /\ ready.passed \in BOOLEAN
      BY <2>1 DEF AnswerRecord
    <2>3. QED
      BY <1>12, <2>2 DEF Profiles!Ready, RecordTyped
  <1>13. ASSUME Profiles!Fetch  PROVE RecordTyped'
    BY <1>13 DEF Profiles!Fetch, RecordTyped, AnswerRecord
  <1>14. ASSUME Profiles!Fetched  PROVE RecordTyped'
    <2>1. fetch \in AnswerRecord
      BY <1>14 DEF Profiles!Fetched, RecordTyped
    <2>2. fetch.snap \in Profiles!Record /\ fetch.passed \in BOOLEAN
      BY <2>1 DEF AnswerRecord
    <2>3. QED
      BY <1>14, <2>2 DEF Profiles!Fetched, RecordTyped
  <1>15. ASSUME Profiles!FetchFails  PROVE RecordTyped'
    BY <1>15 DEF Profiles!FetchFails, RecordTyped
  <1>16. QED
    BY <1>1, <1>2, <1>3, <1>4, <1>5, <1>6, <1>7, <1>8, <1>9, <1>10, <1>11, <1>12, <1>13, <1>14, <1>15
    DEF Profiles!Next, Profiles!Change, Profiles!Serve, Profiles!Show

\* What an entry is measured by.
LEMMA EntriesUntouched ==
    ASSUME EntriesFresh, UNCHANGED <<cache, lookup, row>>, Uninvalidated => Uninvalidated'
    PROVE  EntriesFresh'
  BY DEF EntriesFresh, FreshEntry

LEMMA EntriesFreshStep ==
    ASSUME RecordTyped, EntriesFresh, Profiles!Next
    PROVE  EntriesFresh'
  <1> USE DEF Profiles!serverVars, Profiles!tabVars, Profiles!linkVars
  <1>1. ASSUME NEW form \in Profiles!Form, Profiles!Ask(form[1], form[2])  PROVE EntriesFresh'
    <2>1. UNCHANGED <<cache, lookup, row>> /\ reqs \subseteq reqs'
      BY <1>1 DEF Profiles!Ask
    <2>2. QED
      BY <2>1, EntriesUntouched DEF Uninvalidated
  <1>2. ASSUME NEW r \in reqs, Profiles!ReadRow(r)  PROVE EntriesFresh'
    <2>1. UNCHANGED <<cache, lookup, row>> /\ reqs \ {r} \subseteq reqs' /\ r.pc # "written"
      BY <1>2 DEF Profiles!ReadRow
    <2>2. QED
      BY <2>1, EntriesUntouched DEF Uninvalidated
  <1>3. ASSUME NEW r \in reqs, Profiles!WriteRow(r)  PROVE EntriesFresh'
    <2>1. Uninvalidated'
      BY <1>3, Moved DEF Uninvalidated, RecordTyped, Profiles!WriteRow, Profiles!Move
    <2>2. cache' = Profiles!Overtaken(cache) /\ lookup' = Profiles!Overtaken(lookup)
      BY <1>3 DEF Profiles!WriteRow
    <2>3. /\ cache # Profiles!Nothing => cache \in EntryRecord("kept")
          /\ cache = Profiles!Nothing => cache' = Profiles!Nothing
      BY <2>2 DEF RecordTyped, Profiles!Overtaken, Profiles!Nothing
    <2>4. cache' # Profiles!Nothing => cache'.age < Ttl /\ cache'.old <= cache'.age
      BY <2>2, <2>3, EntryChanges DEF EntriesFresh, FreshEntry
    <2>5. lookup'.pc = "read" => lookup'.old <= lookup'.age
      <3>1. CASE lookup \in EntryRecord("read")
        BY <2>2, <3>1, EntryKinds, EntryChanges DEF EntriesFresh, FreshEntry
      <3>2. CASE lookup \notin EntryRecord("read")
        BY <2>2, <3>2, EntryKinds DEF Profiles!Overtaken
      <3>3. QED
        BY <3>1, <3>2
    <2>6. QED
      BY <2>1, <2>4, <2>5 DEF EntriesFresh, FreshEntry
  <1>4. ASSUME NEW r \in reqs, Profiles!Finish(r)  PROVE EntriesFresh'
    <2>1. cache' \in {Profiles!Nothing, Profiles!Missed(cache)} /\ lookup' = Profiles!Missed(lookup)
      BY <1>4 DEF Profiles!Finish, Profiles!Invalidate
    <2>2. /\ cache # Profiles!Nothing => cache \in EntryRecord("kept")
          /\ Profiles!Missed(Profiles!Nothing) = Profiles!Nothing
      BY DEF RecordTyped, Profiles!Missed, Profiles!Nothing
    <2>3. cache' # Profiles!Nothing =>
            cache'.age < Ttl /\ cache'.old <= cache'.age /\ cache'.excused
      BY <2>1, <2>2, EntryChanges DEF EntriesFresh, FreshEntry
    <2>4. lookup'.pc = "read" => lookup'.old <= lookup'.age /\ lookup'.excused
      <3>1. CASE lookup \in EntryRecord("read")
        BY <2>1, <3>1, EntryKinds, EntryChanges DEF EntriesFresh, FreshEntry
      <3>2. CASE lookup \notin EntryRecord("read")
        BY <2>1, <3>2, EntryKinds DEF Profiles!Missed
      <3>3. QED
        BY <3>1, <3>2
    <2>5. QED
      BY <2>3, <2>4 DEF EntriesFresh, FreshEntry
  <1>5. ASSUME NEW r \in reqs, Profiles!Answer(r) \/ Profiles!Fail(r)  PROVE EntriesFresh'
    <2>1. UNCHANGED <<cache, lookup, row>> /\ reqs' = reqs \ {r} /\ r.pc # "written"
      BY <1>5 DEF Profiles!Answer, Profiles!Fail
    <2>2. QED
      BY <2>1, EntriesUntouched DEF Uninvalidated
  <1>6. ASSUME Profiles!Miss  PROVE EntriesFresh'
    BY <1>6 DEF Profiles!Miss, EntriesFresh, FreshEntry, Uninvalidated
  <1>7. ASSUME Profiles!LookUp  PROVE EntriesFresh'
    <2>1. lookup \in BegunRecord /\ UNCHANGED <<cache, row, reqs>>
      BY <1>7, EntryKinds DEF Profiles!LookUp
    <2>2. lookup'.old = 0 /\ lookup'.age = lookup.age /\ lookup.age \in 0 .. Ttl
          /\ lookup'.snap = row
      BY <1>7, <2>1 DEF Profiles!LookUp, BegunRecord
    <2>3. lookup'.old <= lookup'.age /\ lookup'.snap = row'
      BY <2>1, <2>2, RecordConstants
    <2>4. QED
      BY <2>1, <2>3 DEF EntriesFresh, FreshEntry, Uninvalidated
  <1>8. ASSUME Profiles!Keep  PROVE EntriesFresh'
    <2>1. lookup \in EntryRecord("read") /\ FreshEntry(lookup)
      BY <1>8, EntryKinds DEF Profiles!Keep, EntriesFresh
    <2>2. UNCHANGED <<row, reqs>> /\ lookup'.pc = "none"
          /\ cache' = IF lookup.age < Ttl THEN [lookup EXCEPT !.pc = "kept"] ELSE Profiles!Nothing
      BY <1>8 DEF Profiles!Keep, Profiles!Nothing
    <2>3. CASE lookup.age < Ttl
      <3>1. /\ cache'.age = lookup.age /\ cache'.old = lookup.old /\ cache'.snap = lookup.snap
            /\ cache'.excused = lookup.excused
        BY <2>1, <2>2, <2>3 DEF EntryRecord
      <3>2. QED
        BY <2>1, <2>2, <2>3, <3>1 DEF EntriesFresh, FreshEntry, Uninvalidated
    <2>4. CASE ~(lookup.age < Ttl)
      BY <2>2, <2>4 DEF EntriesFresh
    <2>5. QED
      BY <2>3, <2>4
  <1>9. ASSUME Profiles!Tick  PROVE EntriesFresh'
    <2>1. UNCHANGED <<row, reqs>> /\ lookup' = Profiles!Older(lookup)
          /\ cache' = IF cache.pc = "kept" /\ cache.age + 1 = Ttl THEN Profiles!Nothing
                      ELSE Profiles!Older(cache)
      BY <1>9 DEF Profiles!Tick
    <2>2. ASSUME cache' # Profiles!Nothing
          PROVE  cache'.age < Ttl /\ FreshEntry(cache)' 
      <3>1. cache \in EntryRecord("kept") /\ cache # Profiles!Nothing
        BY <2>1, <2>2 DEF RecordTyped, Profiles!Older, Profiles!Nothing
      <3>2. cache.pc = "kept" /\ cache.age \in 0 .. Ttl /\ cache.age < Ttl
        BY <3>1, EntryKinds DEF EntriesFresh, EntryRecord
      <3>3. cache' = Profiles!Older(cache) /\ cache.age + 1 # Ttl
        BY <2>1, <2>2, <3>2
      <3>4. /\ Profiles!Older(cache).snap = cache.snap
            /\ Profiles!Older(cache).excused = cache.excused
            /\ Profiles!Older(cache).age = cache.age + 1
            /\ Profiles!Older(cache).old <= Profiles!Older(cache).age
        BY <3>1, <3>2, EntryChanges DEF EntriesFresh, FreshEntry
      <3>5. cache.age + 1 < Ttl
        BY <3>2, <3>3, RecordConstants
      <3>6. QED
        BY <2>1, <3>1, <3>3, <3>4, <3>5 DEF EntriesFresh, FreshEntry, Uninvalidated
    <2>3. ASSUME lookup'.pc = "read"  PROVE FreshEntry(lookup)'
      <3>1. lookup \in EntryRecord("read") /\ lookup.pc = "read"
        BY <2>1, <2>3, EntryKinds DEF Profiles!Older, BegunRecord
      <3>2. QED
        BY <2>1, <3>1, EntryChanges DEF EntriesFresh, FreshEntry, Uninvalidated
    <2>4. QED
      BY <2>2, <2>3 DEF EntriesFresh
  <1>10. ASSUME Profiles!Show  PROVE EntriesFresh'
    <2>1. UNCHANGED <<cache, lookup, row, reqs>>
      BY <1>10 DEF Profiles!Show, Profiles!Reconnect, Profiles!Ready, Profiles!Fetch,
         Profiles!Fetched, Profiles!FetchFails
    <2>2. QED
      BY <2>1, EntriesUntouched DEF Uninvalidated
  <1>11. QED
    BY <1>1, <1>2, <1>3, <1>4, <1>5, <1>6, <1>7, <1>8, <1>9, <1>10
    DEF Profiles!Next, Profiles!Change, Profiles!Serve

\* The row as the tab last learnt of it.
LEMMA TabUntouched ==
    ASSUME TabFollows, UNCHANGED <<row, wanted, reqs, user, card, apart, cardApart, ready, fetch>>
    PROVE  TabFollows'
  BY DEF TabFollows, Shows

LEMMA TabFollowsStep ==
    ASSUME RecordTyped, OneUnderWay, TabFollows, ~overlap, Profiles!Next, ~overlap'
    PROVE  OneUnderWay' /\ TabFollows'
  <1> USE DEF Profiles!serverVars, Profiles!tabVars, Profiles!linkVars
  <1>1. ASSUME NEW form \in Profiles!Form, Profiles!Ask(form[1], form[2])
        PROVE  OneUnderWay' /\ TabFollows'
    <2> DEFINE r == [n |-> writes + 1, via |-> form[1], fields |-> form[2], pc |-> "sent",
                     snap |-> row]
    <2>1. /\ reqs = {} /\ ready = Profiles!Nothing /\ fetch = Profiles!Nothing
          /\ reqs' = {r} /\ r.pc = "sent"
          /\ UNCHANGED <<row, wanted, user, card, apart, cardApart, ready, fetch>>
      BY <1>1 DEF Profiles!Ask, Profiles!Busy
    <2> HIDE DEF r
    <2>2. Shows(row)
      BY <2>1 DEF TabFollows
    <2>3. QED
      BY <2>1, <2>2 DEF OneUnderWay, TabFollows, Shows, Unanswered
  <1>2. ASSUME NEW r \in reqs, Profiles!ReadRow(r)  PROVE OneUnderWay' /\ TabFollows'
    <2> DEFINE s == [r EXCEPT !.pc = "read", !.snap = row]
    <2>1. reqs = {r} /\ reqs' = {s} /\ r.pc = "sent" /\ r \in RequestRecord
          /\ UNCHANGED <<row, wanted, user, card, apart, cardApart, ready, fetch>>
      BY <1>2 DEF Profiles!ReadRow, OneUnderWay, RecordTyped
    <2>2. s.pc = "read" /\ s.snap = row
      BY <2>1 DEF RequestRecord
    <2> HIDE DEF s
    <2>3. Shows(row)
      BY <2>1 DEF TabFollows, Unanswered
    <2>4. QED
      BY <2>1, <2>2, <2>3 DEF OneUnderWay, TabFollows, Shows, Unanswered
  <1>3. ASSUME NEW r \in reqs, Profiles!WriteRow(r)  PROVE OneUnderWay' /\ TabFollows'
    <2> DEFINE s == [r EXCEPT !.pc = "written"]
    <2>1. /\ reqs = {r} /\ reqs' = {s} /\ r.pc = "read" /\ r \in RequestRecord
          /\ ready = Profiles!Nothing /\ fetch = Profiles!Nothing
          /\ UNCHANGED <<user, card, apart, cardApart>>
      BY <1>3 DEF Profiles!WriteRow, Profiles!Move, OneUnderWay, RecordTyped
    <2>2. s.pc = "written" /\ s.snap = r.snap /\ s.fields = r.fields /\ s.n = r.n
      BY <2>1, Moved
    <2>3. ready' = Profiles!Nothing /\ fetch' = Profiles!Nothing
      BY <1>3, <2>1 DEF Profiles!WriteRow, Profiles!Overtaken, Profiles!Nothing
    <2>4. r.snap = row /\ wanted = row /\ Shows(row)
      BY <2>1 DEF TabFollows, Unanswered
    <2>5. row' = Profiles!With(row, r.fields, r.n)
      <3>1. \A f \in Profiles!Field : f \in r.fields => f \in Profiles!Together(r.fields)
        BY DEF Profiles!Together
      <3>2. row \in Profiles!Record
        BY DEF RecordTyped
      <3>3. \A f \in Profiles!Field :
                (IF f \in Profiles!Together(r.fields)
                 THEN Profiles!With(r.snap, r.fields, r.n)[f] ELSE row[f])
                = (IF f \in r.fields THEN r.n ELSE row[f])
        BY <2>4, <3>1 DEF Profiles!With
      <3>4. QED
        BY <1>3, <3>3 DEF Profiles!WriteRow, Profiles!With
    <2>6. wanted' = row'
      BY <1>3, <2>4, <2>5 DEF Profiles!WriteRow
    <2> HIDE DEF s
    <2>7. OneUnderWay'
      BY <2>1, <2>3 DEF OneUnderWay
    <2>8. QED
      BY <2>1, <2>2, <2>3, <2>4, <2>5, <2>6, <2>7 DEF TabFollows, Shows, Unanswered
  <1>4. ASSUME NEW r \in reqs, Profiles!Finish(r)  PROVE OneUnderWay' /\ TabFollows'
    <2> DEFINE s == [r EXCEPT !.pc = "done"]
    <2>1. /\ reqs = {r} /\ reqs' = {s} /\ r.pc = "written" /\ r \in RequestRecord
          /\ UNCHANGED <<row, wanted, user, card, apart, cardApart, ready, fetch>>
      BY <1>4 DEF Profiles!Finish, Profiles!Move, OneUnderWay, RecordTyped
    <2>2. s.pc = "done" /\ s.snap = r.snap /\ s.fields = r.fields /\ s.n = r.n
      BY <2>1, Moved
    <2> HIDE DEF s
    <2>3. QED
      BY <2>1, <2>2 DEF OneUnderWay, TabFollows, Shows, Unanswered
  <1>5. ASSUME NEW r \in reqs, Profiles!Answer(r)  PROVE OneUnderWay' /\ TabFollows'
    <2>1. /\ reqs = {r} /\ reqs' = {} /\ r.pc = "done"
          /\ ready = Profiles!Nothing /\ fetch = Profiles!Nothing
          /\ UNCHANGED <<row, wanted, ready, fetch>>
      BY <1>5 DEF Profiles!Answer, OneUnderWay
    <2>2. row = Profiles!With(r.snap, r.fields, r.n) /\ Shows(r.snap)
      BY <2>1 DEF TabFollows, Unanswered
    <2>3. ~apart => Profiles!Answered(r) = row
      BY <2>2 DEF Profiles!Answered, Shows
    <2>4. /\ r.via = "other" => user' = user /\ apart'
          /\ r.via # "other" => user' = Profiles!Answered(r) /\ (apart' <=> apart)
          /\ r.via = "form" => card' = user' /\ (cardApart' <=> apart)
          /\ r.via # "form" => card' = card /\ (cardApart' <=> cardApart \/ card # Profiles!Nothing)
      BY <1>5 DEF Profiles!Answer
    <2>5. Shows(row)'
      BY <2>1, <2>3, <2>4 DEF Shows
    <2>6. QED
      BY <2>1, <2>5 DEF OneUnderWay, TabFollows
  <1>6. ASSUME NEW r \in reqs, Profiles!Fail(r)  PROVE OneUnderWay' /\ TabFollows'
    <2>1. /\ reqs = {r} /\ reqs' = {}
          /\ UNCHANGED <<row, wanted, ready, fetch, user, card>>
          /\ (apart' <=> apart \/ r.pc = "done") /\ (cardApart' <=> cardApart \/ r.pc = "done")
          /\ r.pc # "written"
      BY <1>6 DEF Profiles!Fail, OneUnderWay
    <2>2. Shows(row)'
      <3>1. CASE r.pc = "done"
        BY <2>1, <3>1 DEF Shows
      <3>2. CASE r.pc # "done"
        BY <2>1, <3>2 DEF Shows, TabFollows, Unanswered
      <3>3. QED
        BY <3>1, <3>2
    <2>3. QED
      BY <2>1, <2>2 DEF OneUnderWay, TabFollows
  <1>7. ASSUME Profiles!Serve  PROVE OneUnderWay' /\ TabFollows'
    <2>1. UNCHANGED <<row, wanted, reqs, user, card, apart, cardApart, ready, fetch>>
      BY <1>7 DEF Profiles!Serve, Profiles!Miss, Profiles!LookUp, Profiles!Keep, Profiles!Tick
    <2>2. QED
      BY <2>1, TabUntouched DEF OneUnderWay
  <1>8. ASSUME Profiles!Reconnect  PROVE OneUnderWay' /\ TabFollows'
    <2>1. /\ reqs = {} /\ fetch = Profiles!Nothing /\ ready'.snap = row
          /\ UNCHANGED <<row, wanted, reqs, user, card, apart, cardApart, fetch>>
      BY <1>8 DEF Profiles!Reconnect, Profiles!Busy
    <2>2. QED
      BY <2>1 DEF OneUnderWay, TabFollows, Shows
  <1>9. ASSUME Profiles!Ready  PROVE OneUnderWay' /\ TabFollows'
    <2>1. /\ ready # Profiles!Nothing /\ ready' = Profiles!Nothing /\ user' = ready.snap
          /\ UNCHANGED <<row, wanted, reqs, card, cardApart, fetch>>
      BY <1>9 DEF Profiles!Ready
    <2>2. ready.snap = row /\ Shows(row)
      BY <2>1 DEF TabFollows, OneUnderWay
    <2>3. QED
      BY <2>1, <2>2 DEF OneUnderWay, TabFollows, Shows
  <1>10. ASSUME Profiles!Fetch  PROVE OneUnderWay' /\ TabFollows'
    <2>1. /\ reqs = {} /\ ready = Profiles!Nothing /\ fetch'.snap = row
          /\ UNCHANGED <<row, wanted, reqs, user, card, apart, cardApart, ready>>
      BY <1>10 DEF Profiles!Fetch, Profiles!Busy
    <2>2. QED
      BY <2>1 DEF OneUnderWay, TabFollows, Shows
  <1>11. ASSUME Profiles!Fetched  PROVE OneUnderWay' /\ TabFollows'
    <2>1. /\ fetch # Profiles!Nothing /\ fetch' = Profiles!Nothing /\ card' = fetch.snap
          /\ UNCHANGED <<row, wanted, reqs, user, apart, ready>>
      BY <1>11 DEF Profiles!Fetched
    <2>2. fetch.snap = row /\ Shows(row)
      BY <2>1 DEF TabFollows, OneUnderWay
    <2>3. QED
      BY <2>1, <2>2 DEF OneUnderWay, TabFollows, Shows
  <1>12. ASSUME Profiles!FetchFails  PROVE OneUnderWay' /\ TabFollows'
    <2>1. /\ fetch' = Profiles!Nothing
          /\ UNCHANGED <<row, wanted, reqs, user, card, apart, cardApart, ready>>
      BY <1>12 DEF Profiles!FetchFails
    <2>2. QED
      BY <2>1 DEF OneUnderWay, TabFollows, Shows
  <1>13. QED
    BY <1>1, <1>2, <1>3, <1>4, <1>5, <1>6, <1>7, <1>8, <1>9, <1>10, <1>11, <1>12
    DEF Profiles!Next, Profiles!Change, Profiles!Show

LEMMA RecordStep ==
    ASSUME RecordInv, Profiles!Next
    PROVE  RecordInv'
  <1>1. RecordTyped' /\ EntriesFresh'
    BY RecordTypedStep, EntriesFreshStep DEF RecordInv
  <1>2. overlap => overlap'
    BY DEF Profiles!Next, Profiles!Change, Profiles!Serve, Profiles!Show, Profiles!Ask,
       Profiles!ReadRow, Profiles!WriteRow, Profiles!Finish, Profiles!Answer, Profiles!Fail,
       Profiles!Miss, Profiles!LookUp, Profiles!Keep, Profiles!Tick, Profiles!Reconnect,
       Profiles!Ready, Profiles!Fetch, Profiles!Fetched, Profiles!FetchFails
  <1>3. QED
    BY <1>1, <1>2, TabFollowsStep DEF RecordInv

\* The invariant of the browser's account, whichever of the three parts moves.
THEOREM RecordInvariant == PartSpec => []RecordInv
  <1>1. PartInit => RecordInv
    BY RecordInit DEF PartInit
  <1>2. ASSUME RecordInv, [PartNext]_<<part, vars, recordVars>>  PROVE RecordInv'
    <2>1. CASE Profiles!Next
      BY <1>2, <2>1, RecordStep
    <2>2. CASE UNCHANGED recordVars
      BY <1>2, <2>2 DEF recordVars, RecordInv, RecordTyped, EntriesFresh, FreshEntry,
         Uninvalidated, OneUnderWay, TabFollows, Shows
    <2>3. QED
      BY <1>2, <2>1, <2>2 DEF PartNext, Profiles!Next
  <1>3. QED
    BY <1>1, <1>2, PTL DEF PartSpec

\* As long as no two requests for a user's record overlap, each field of the row is
\* what was last asked for, and the tab and the profile card show it once the answers
\* are in (handlePatchMe, handleUploadAvatar, READY, the forms' setUser and setProfile).
THEOREM TheProfileIsShown == PartSpec => []ProfileShown
  <1>1. RecordInv => ProfileShown
    BY DEF RecordInv, TabFollows, Shows, ProfileShown, Profiles!ProfileShown, Profiles!Busy
  <1>2. QED
    BY <1>1, RecordInvariant, PTL

\* A user served from the cache was right at most one Ttl ago, and if it is not now,
\* an instance that the invalidation does not reach wrote the row, or a lookup raced
\* with a write, or the invalidation is still to come (usercache.go).
THEOREM CacheIsFresh == PartSpec => []ServedIsFresh
  <1>1. RecordInv => ServedIsFresh
    <2> SUFFICES ASSUME RecordInv, cache # Profiles!Nothing
                 PROVE  /\ cache.old < Ttl
                        /\ cache.snap # row => cache.excused \/ \E r \in reqs : r.pc = "written"
      BY DEF ServedIsFresh, Profiles!ServedIsFresh
    <2>1. cache.age < Ttl /\ FreshEntry(cache) /\ cache \in EntryRecord("kept")
      BY DEF RecordInv, RecordTyped, EntriesFresh
    <2>2. cache.age \in Nat /\ cache.old \in Nat
      BY <2>1, RecordConstants DEF EntryRecord
    <2>3. QED
      BY <2>1, <2>2, RecordConstants DEF FreshEntry, Uninvalidated
  <1>2. QED
    BY <1>1, RecordInvariant, PTL

\* Every variable of the browser's account keeps its type.
THEOREM BrowserTypes == PartSpec => []AllTypesOK
  <1>1. PartInit => TypeOK
    BY InitSession DEF PartInit, SessionInv
  <1>2. ASSUME TypeOK, [PartNext]_<<part, vars, recordVars>>  PROVE TypeOK'
    <2>1. [Next]_vars
      BY <1>2 DEF PartNext
    <2>2. QED
      BY <1>2, <2>1, TypeStep
  <1>3. ASSUME TypeOK, RecordInv  PROVE AllTypesOK
    <2>1. /\ \A r \in reqs : r.pc \in {"sent", "read", "written", "done"} /\ r.snap \in Profiles!Record
          /\ {cache.pc, lookup.pc, ready.pc, fetch.pc} \subseteq {"none", "begun", "read", "kept"}
      BY <1>3, EntryKinds DEF RecordInv, RecordTyped, RequestRecord
    <2>2. Profiles!TypeOK
      BY <1>3, <2>1 DEF RecordInv, RecordTyped, Profiles!TypeOK
    <2>3. QED
      BY <1>3, <2>2 DEF AllTypesOK
  <1>4. QED
    BY <1>1, <1>2, <1>3, RecordInvariant, PTL DEF PartSpec
=============================================================================
