# Verification of discurd

TLA+ models of discurd's backend and of the state its web client keeps, the TLC runs that check them on small instances and the TLAPS proofs of what holds
for every instance. Paths below are relative to the repository.

Run a model with `tlc -config X.cfg M` and a proof with `tlapm M.tla`, both in
this directory; `PROJECT.json` lists runs, mutants, theorems, the source lines of
every definition, the hazards and the findings.

## 1. The system

discurd is a chat service: a React client, stateless **api** replicas (REST,
writes ScyllaDB and publishes events), stateless **gateway** replicas (WebSockets,
fed by NATS), with ScyllaDB, Redis, core NATS, MinIO and LiveKit behind them.

| Component | State | Operations | Talks to | Hard because |
|---|---|---|---|---|
| Gateway hub `ws/hub.go` | registry of sessions, `closing` | register, unregister, handleNATS, dispatchToGuild/User, DropAllSessions, Shutdown | NATS subscription (one goroutine), sessions | copies of the registry go stale while they are walked; shutdown waits for sessions |
| Gateway session `ws/session.go` | send buffer, close code, `identified`, routing set | ServeWS, readLoop, writeLoop, identify, heartbeat, cleanup | hub, presence, store | three goroutines per socket; identify reads the store and then publishes what it read |
| Presence `presence/presence.go` | Redis: sorted set of sessions, presence key, two TTLs per user | Connect, Heartbeat, Disconnect, Statuses | sessions of all gateways | crashes, lost calls, key expiry, broadcasts that are not atomic with the scripts |
| Events `events/events.go` | none (core NATS) | ToGuild, ToUser | api and gateways to all gateways | at most once; no order between publishers |
| Gateway process `cmd/gateway` | lifecycle | subscribe, reconnect callback, drain | hub | sockets arrive while it drains |
| Accounts `store/users.go`, `auth_handlers.go`, `user_handlers.go` | users, users_by_email, users_by_username | register, rename, login | ScyllaDB (LWT) | three tables without a transaction, ambiguous timeouts, concurrent renames |
| Refresh tokens `auth/refresh.go`, `lib/api.js`, `authStore.js` | Redis tokens; the client's stored token, per tab | issue, rotate, revoke, silent refresh | api, tabs of a browser | single-use tokens against retries and several tabs |
| Guilds, channels, invites `store/guilds.go`, `store/channels.go`, `store/invites.go`, `guild_handlers.go` | guilds, guild_members, user_guilds, channels, channels_by_id, invites | create, join, list | events, gateway routing sets | membership is two writes; routing follows by event |
| Messages, reactions `store/messages.go`, `message_handlers.go` | bucketed messages, reactions | create, edit, delete, list, react | events | upserts race with deletes; bucket arithmetic; write and publish are not atomic |
| User cache `store/usercache.go` | per-replica LRU with TTL | GetByIDs, Invalidate | handlers of one replica | fill races with invalidation |
| Rate limiter `ratelimit/ratelimit.go` | Redis counters | Allow | middleware | window boundary, INCR and EXPIRE apart |
| Web chat store `chatStore.js` | guilds, channels, members, selection, message lists, pending events, pills, typing | select, create, join, load, older, send, react, apply*, resync | REST, gateway client | responses and events interleave in any order |
| Web gateway client `lib/gateway.js` | socket, timers, `identifiedOnce` | connect, disconnect, open, hello, READY, close, reconnect | authStore, chat store | an await inside `open`; sockets that lost their place keep their handlers |
| Web voice store `voiceStore.js`, `VoiceStage.jsx` | room, status, participants | join, leave, toggles, room events | api, LiveKit | awaits inside join and leave, one module variable for the room |
| Effects `effectsStore.js`, `EffectsOverlay.jsx`, `lib/effects.js` | last effect, storm mode; canvas loop, shake timer | trigger, playLocal, toggleStorm, frames | api, gateway client | a loop that stops by itself and is restarted from hooks |
| Typing `MessageInput.jsx`, `TypingIndicator.jsx` | throttle, entries with a deadline, interval | onChange, send, applyTypingStart, pruneTyping | api, events | three clocks and a delivery that is neither sure nor ordered |
| Profiles `profileStore.js`, `EditProfileModal.jsx`, `SettingsPopover.jsx` | card, form | open, fetch, save | `user_handlers.go`, cache, READY | three copies of one record, partial updates |
| JWT, passwords, uploads, GIFs, voice tokens, routing, validation, config, seed, rendering | none of their own | | | plain I/O or pure functions |

What makes each part correct: a live session stays a member of its user's
presence and ghosts disappear; a session is sent its own events, in order, and is
told when it missed some; shutdown ends every session it accepted; accounts keep
the address and the name they registered and nobody shares them; a refresh token
works once and a browser keeps a valid one; a member sees the guild from both
sides; a message that was deleted stays deleted and one that is stored is listed;
the client's lists and pills converge to the server's and what it shows belongs
together; it resyncs after every gap and comes back; a call is shown as it is.

## 2. Modules

| Module | Models | Run | Proofs |
|---|---|---|---|
| `Presence` | one user's presence in Redis, the sessions that drive it, their gateways | `sockets`, `presence_race` | `SocketsProofs` |
| `GatewayClient` | the socket of one tab: open, close, reconnect, resync | `sockets`, `stale_start` | `SocketsProofs` |
| `Voice` | the voice calls of one tab | `sockets`, `voice_race` | `SocketsProofs` |
| `Gateway` | one gateway process: hub, sessions, NATS feed, shutdown | `endings`, `guilds`, `gateway_identify_race` | `GatewayProofs` |
| `Effects` | the effects on one client's screen | `endings` | `EndingsProofs` |
| `Accounts` | registration and rename over three tables | `accounts`, `rename_race` | `AccountsProofs` |
| `Directory` | what `Accounts` promises: accounts with an address and a name of their own | `accounts` | `AccountsProofs` |
| `RateLimit` | the fixed-window limiter for one key | `accounts` | `AccountsProofs` |
| `MessageStore` | a channel's message table, edits and deletions, paging through its buckets | `channel` | `MessageStoreProofs` |
| `ChatClient` | the web client's list of a channel, against the server's table and its events | `channel` | `ChatClientProofs`, `MessageStoreProofs` |
| `Reactions` | one emoji under one message, from the rows to the pill | `channel`, `reactions_edit` | `MessageStoreProofs` |
| `Typing` | one composer and the line another member sees | `channel` | `MessageStoreProofs` |
| `AuthSession` | refresh tokens in Redis and the tabs of a browser that use them | `auth` | `AuthSessionProofs` |
| `Profile` | one user's record: row, cache, the tab's user and card | `auth` | `AuthSessionProofs` |
| `Guilds` | the handlers that create guilds, channels and invites and join, over six tables | `guilds` | `GuildsProofs` |
| `GuildClient` | the web client's guilds, channels, members and selection | `guilds` | `GuildsProofs` |

A passing run explores several modules: its module (`MCSockets`, `MCEndings`,
`MCAdmission`, `MCChannel`, `MCAuthSession`, `MCGuilds`) adds a variable `part`, chosen at
the start, that says which of them moves while the others stay at their initial state. The
reachable states are those of the single modules side by side, so an invariant holds of the
run exactly if it holds of the module alone, or, where two parts split an instance too large
for one run (`table` and `races`, `list` and `sends`), of its two restrictions. The parts do not share state; where two
components interact, one module holds both, or each says what it assumes of the other.
A definition called `Name_Variant` is
`Name` with a bug put in, used only to see that a property would notice it.

### Presence

`conns` is the sorted set `presence_conns:{user}` as a function from members to
the **age** of their score; `connsTTL` and `keyTTL` are the times left to the two
keys. Relative times make `Tick` (everything ages by one) the only clock, and the
state space finite without a bound on time. The three Lua scripts are atomic:
`Prune`, `Zadd`, `Zrem`, `Refresh`, `Remove` follow their lines. A session passes
through the phases in which `session.go` calls the tracker: identified, announcing
(Connect returned first), live, leaving, retracting (Disconnect returned last).
Calls may fail with or without effect (`ConnectFails`, `HeartbeatFails`,
`DisconnectFails`), publishes may be lost (`PublishFails`), a gateway may die with
all its sessions (`Crash`). `timer` enforces the deadlines the code sets: the 90 s
read deadline and the timeouts of the calls.

* `NeverEvicted`: no live session that Redis answered is pruned. It rests on
  `TimeAssumption`: read deadline plus call timeout fit in `livenessWindow`.
* `StatusMatchesMembers`: the status shown agrees with the members: online only with a
  member, and with every member that was refreshed within `presenceTTL`.
* `ReportsMatchMembers`: without an unreported transition, what was announced last
  agrees with whether there are members. `gap` records that something failed to be
  reported, so the property speaks about runs in which nothing failed.
* `GhostsAgeOut`: members whose session is gone disappear; needs fairness of `Tick`
  and of the sessions' calls (they return by their timeouts), none of clients or
  failures.

Instance: two sockets on two gateways, a tick of 10 s, so the code's constants are
7, 12 and 9 ticks. Two sockets are enough for a first, a last and an overlap.
`presence_race` shows that announcements can still arrive in the wrong order
(section 4): the scripts are atomic, the broadcasts after them are not.

### Gateway

Program counters of the read goroutine (`reader`), a flag for the write goroutine
(`writing`; when it stops the socket is closed), the buffer as a count, `closed`
with the reason. The hub's goroutine takes an event (`TakeEvent` copies the
targets under the lock) and sends to one target per step (`DispatchTo`), so
everything else interleaves with a half-done dispatch; `DropAllSessions`/
`DropSession` and `Shutdown`/`ShutdownSession` likewise. The api appears as
`AddMember` then `PublishGuildCreate`, and as `PublishToGuild`; NATS as `inbox`,
and as outages in which events are not delivered. `got` and `since` are history
variables. Presence calls are part of the step of the session that makes them.

* `FeedIsWhole`: what a session is sent is in the order of NATS (`InOrder`), without a gap
  unless the session is closed or about to be, so that the client resyncs
  (`NoSilentGap`), and nothing at all after a close with 4001 (`RejectedGetsNothing`).
* `ExitLeavesNobody`, `ClosedSessionsEnd`, `ShutdownCompletes`.

In `guilds` there is one socket of a user who may join the one guild, three events and a
buffer of two: enough to lose one event between two others, to overflow behind
HELLO and READY, and to be in a dispatch while anything else happens. Sessions
share only the registry and the hub's goroutine, so `endings` takes two,
with one event and no outage, for what they do to each other when the process
drains. Bounds: `MaxEvents`, `BufSize` and `Outages`.

Fairness (`FairSpec`): handlers and cleanup finish because their calls have
timeouts; a closed session's writer stops because it writes under a deadline; a
reader whose socket is closed fails after the finitely many frames it had buffered
(strong fairness, since handling one disables the read); the hub's loops go on.
Clients, the api, NATS and the operator are under no obligation.

### Accounts

The three tables as functions, a registration per user id with the statement it is
at, and `Patch` rename requests at a time. Every statement is a step and may fail;
a failed write is applied or not. Rollback deletes by key, whoever holds it, as the
code does. An api crash is a request that never moves again, which the absence of
fairness allows.

* `EmailsHeld`: a created account's address resolves to it, unconditionally.
* `NamesHeld`: its name is reserved for it, as long as no user ever has two renames
  under way at once (`overlapped` records that).
* `NothingBurned`: unless a failure left a row behind (`leaked`), each reservation
  belongs to an account that uses it or to a request under way.

Three ids, two addresses and three names make every kind of conflict happen, two
renames an overlap.

* `ImplementsDirectory`: the abstract specification `Directory` knows only accounts with
  an address and a name, a step that adds one, a step that renames one to a free name, and
  a flag for renames that race, after which names are no longer promised. The mapping takes
  the users whose registration is `Created`. Every statement of the handlers is a step of
  `Directory` or changes nothing that can be seen.

`rename_race` drops the condition of `NamesHeld`.

### MessageStore

`rows` maps an id, which is the instant inside the timeuuid, to the author and to
who wrote the content. `now` is the true time; a replica that creates a message or
starts a `List` reads a clock at most `Skew` off. PATCH and DELETE are two steps,
`Load` (with its checks) and `Write`; the write follows what was loaded, and
`UpdateContent` is the upsert of CQL. The client's walk through the history is
`pager`: `Open` and `LoadOlder` start a `List`, `QueryBucket` is one query, and
anything may happen between two of them; a failed query ends the request.

* `PagingComplete`: paging to the end shows everything that was there when it began
  and was not deleted since. `NoGaps` and `PagesGoBack` are what the next page needs
  for it: nothing is skipped, nothing is repeated. The margin of one bucket in
  `List` is what makes them hold: `SkewAssumption` says how much it buys, writer and
  reader together at most one bucket apart.
* `DeletedLoseAuthor`, `OwnWords`: an edit that meets a deletion does bring a row
  back, but one without an author, which nobody but the owner can touch.

Known and excluded by `Steady`: a message whose id is in a bucket below the
channel's own (`created_at` of a fast clock, then a message from a slow one) is
stored and never listed.

Instance: buckets of two ticks and a skew of one, the widest the assumption admits;
the channel is created at the start of bucket 1 and time runs to 3, so clocks show
instants of buckets 0 to 2. Three messages and pages of two make a full page, a
short one and a page that ends inside a bucket. Two requests are an edit and a
deletion of the same message. All of it at once is too much for one run, so the part
`table` has the three messages and lets one request (`Only`) be used, and the part `races`
has both requests and stops at two messages (`FewRows`); they share one instance of the
module. `MaxTime` and `MaxMessages` are the other bounds.

### ChatClient

The server is a table of messages whose content is the number of the write that set
it, so the client's copy can be compared with it. A write leaves an event in
`events`, from where events are dispatched in any order (`Dispatch`) or never
(`Lose`): replicas publish independently and after their write, and delivery is at
most once. Three kinds of fetch (the first page, an older page, the resync after a
reconnect) are asked for, answered from the table at one moment (`Read`) and applied
at a later one. `conv` is the entry of `messagesByChannel`: absent, loading with its
`pending` buffer, or loaded. The functions of `chatStore.js` that change it are
operators on lists (`Shown`, `ApplyCreate`, `Apply`, `Prepended`, `Resolved`).

* `ListIsRight`: on every message the list accounts for and that nothing below has
  disturbed, it agrees with the server: shown once, as stored, or not at all.
* `SendsSettle`: a send leaves at most one entry, and none that waits for ever.
* `ShownStays`: only a deletion or a fresh list takes a message away.

What may disturb a message is kept in `unsure` until the list is fetched again. Each
cause is something the code does not guard against, and `ListIsRight` fails when any
one of them is left out of `unsure`:

1. an event, or the answer to one of the client's own requests, arrives behind a
   newer event of the same message: `applyMessage*` compare no versions;
2. an event is lost;
3. a write that the first page does not hold yet is an update or a deletion whose
   event comes while the page is fetched: only creations are buffered;
4. any event that comes between the read and the arrival of a resync is overwritten
   by it, and likewise between those of an older page for the messages on that page;
5. an older page that was asked for before the list was replaced is prepended to the
   new one: it can repeat messages (`known`) or leave out what lies between it and the
   new list;
6. a creation older than the list is appended to it. Paging shows it again, or, when it has
   become the first entry, starts behind it and never asks for what lies between it and the
   list (the second half of `Doubtful`).

That each cause is needed was tried by leaving it out on an instance of the bounds below.

Instances: the parts share one instance of the module, with three messages, two sends of the same
text, which is what matching an echo by content can confuse, and pages of one, so a page is full,
older pages exist, and there is a message between two others. The part `list` makes three
writes and no sends; `sends` makes up to two writes (`FewWrites`). Bounds: `MaxMessages`,
`MaxWrites`, one request of each kind under way, one edit or deletion of the client's own
under way.
Contents and attachments other than the text of a send are left out. The
socket is only what it means for the list: a reconnect asks for a resync.

### AuthSession

Tokens are numbered as they are issued; `valid` is what Redis holds and `parent` what
each token was exchanged for. A refresh is five steps of its tab's `refresh`: asked
(`Ask`, the token is read from the tab's memory), taken by GETDEL or refused, granted
by the SET, and applied (`Granting`) or cleared (`Refusing`); `Breaking` ends it at any
of these points, which is all the client sees of a rate limit, a failing Redis or a
lost connection. Tabs share `stored` (localStorage); `Tell` queues a storage event at
every other open tab, which adopts the token some time later (`Hear`). A removal is
not told, since the listener ignores it. A logout makes sure of an access token, posts
the refresh token, may have to renew and post again, and then clears the session.
A tab that has a token may refresh at any time, because its access token may expire or
be rejected at any time and a reloaded tab has none.

* `OneSuccessor`: no token is exchanged twice (proved, and checked through the proofs only).
* `NoNeedlessRefusal`: the api refuses only tokens that are `spoiled`.
* `StoredIsUsable`: what a reload would find works, or an open tab is replacing it.
* `LogoutRevokes`: when a logout is answered, and no refresh but its own came between,
  no token of that login that has reached the browser works any more.

`spoiled` holds the tokens that expired, were revoked by a logout, were being
exchanged when the refresh broke off or its tab was closed, or were sent while another
tab was sending them too or had already replaced them. What the code does with these is known, and
each exception is needed, since TLC finds the property violated without it:

1. two tabs that send one token: the loser gets 401 and `clearSession` also removes
   the token the winner has just stored, which signs out the browser at its next reload;
2. a logout that has to renew its access token posts its old body again, so the token
   that the renewal brought stays valid in Redis until its TTL;
3. a refresh in flight when a tab logs out stores a new session after `clearSession`;
4. a refresh that breaks after GETDEL has used up the only token the browser has.

Instance: two tabs, enough for a rotation that the other misses, and three tokens, a
login and two rotations or two logins. Bounds: `MaxTokens`, no tab is closed during its
logout or opened again while the refresh it left behind is under way, a login is one
step, and a request that is lost on its way is not carried out later.

### Guilds

The six tables only gain rows, and every row of a membership or a channel is written to
two of them. `Steps(job)` is what a handler does after its checks, in the order of the
code: tables it inserts into, the user it reads, events it publishes. `Insert`, `ReadUser`
and `Publish` are one statement each; `StatementFails` ends a request with no rollback,
its write applied or not; `JoinInvite` and `CheckMember` are the reads of a join, between
which others may write. `Allocate` is the conditional insert of an invite code, tried
`Tries` times. An api crash is a request that takes no further step. A retry of a request
is a new request.

* `RowsAgree`: the two tables of a pair differ only in rows of requests that are under
  way or failed (`Halfway`), and always on the same side: a guild somebody lists can be
  opened by them, a channel that can be posted to is listed, and no row is about a guild
  that does not exist. It depends on the order of the inserts.
* `ToldIsStored`: what a success or an event says is in all of its tables, for good.

What the code does about half a membership is an exception of both: a later join of the
same user finds the row in `guild_members`, answers that all is well and leaves
`user_guilds` as it is, so the guild never shows in that user's list.

Instance: two users, two guilds, two channels, one code, four requests: a creation, an
invite, a join that fails half way and one that finds it, or a second invite for the same
code. Bound: `MaxRequests`.

### GuildClient

`guilds`, `cache` (`channelsByGuild` and `membersByGuild`), `selGuild`, `selChannel` and
`last` are the store's. A `task` is a call of one of its functions that waits for an
answer: `SelectGuild` runs to its first await, `Read` is the moment at which the api reads
its tables, `ListArrives` and the other `...Arrives` actions are the code after the await.
`resync` waits twice (`ResyncArrives`, `ResyncLands`). The server is the set of facts in
its tables; an event tells of each fact and comes in any order (`Dispatch`) or never
(`Lose`). Messages are left to `ChatClient`.

* `ListsAreRight`: guilds, channels and members are shown once each, none that is not
  there, and none is missing but what an event is still to tell of or what is `unsure`.
* `SelectionFits`: the selected channel is a text channel in the list of the selected
  guild, unless the choice is under way or the selection is `astray`.

`unsure` and `astray` name what the code does not guard against; each is needed:

1. an event that is lost, or is dispatched while the list it belongs to is being fetched:
   unlike `loadMessages`, `selectGuild` and `loadMembers` buffer nothing (`unsure`);
2. the `#general` of a new guild has no CHANNEL_CREATE, so a list of channels fetched
   between the two inserts never gains it (`unsure`);
3. GUILD_CREATE sets `guildsLoaded` though the list has never been fetched, or its fetch
   has failed (`unsure`);
4. `resync` reads the selection before it waits for the lists and clears every cache
   afterwards, so a guild selected meanwhile loses its lists, or gets the first channel of
   another guild; and that first channel may be a voice channel (`astray`);
5. the channels of the selected guild could not be fetched (`astray`).

Instance: two guilds, two text channels in different guilds, a voice channel that comes
first and is there from the start, two other people, one a member from the start, two tasks:
an overlap of any two functions. Bounds: `MaxCalls` (3 calls), others create or join only
when no event is on its way, the facts of `Start` are there from the beginning and any
others may be. So the second text channel and the second guild are founded, created, joined
or found, and a new voice channel is not created. What the client sees of the handlers are
the facts and events that `Found`, `Furnish` and `CreateChannel` make of them, in the
handlers' order.

### GatewayClient

`opens` counts calls of `open` that await a token; `sock` is the state of every socket that
still has its handlers, `ws` the current one, `beat` the one the heartbeat timer watches.
A socket that loses its place (`Disconnect` handles only the current one) is heard until it
closes, as in the code. `behind` says why cached lists may have missed events: fetched
before the first READY (`start`), a gap between two sockets (`gap`), or kept over the death
of a session, which does not reset the chat store (`death`).

* `OneAttempt`: while signed in there is always exactly one of a timer, an awaited token
  and a socket, the greeted socket is watched, and after a logout none is left.
* `ResyncsEveryGap`: READY after a gap makes the lists good.
* `ComesBack`: connected in the end, when tokens and sockets fail only finitely often.

Exceptions: an `open` that outlives a logout and the following login (`crossed`) opens a
second socket besides that of the login; a socket that dies before its hello has no
heartbeat and stays current until TCP gives up (`Unwatched`). `stale_start` (section 4) is
the resync that a first connection after several attempts does not get. Fairness: timers
fire, sockets that are alive answer, tokens are had or not; nothing is assumed of faults.
Instance: three sockets, two logins, three faults (`MaxFaults`): a fault of each of two
attempts and one more.

### Voice

`room` is the module variable of that name, `rooms` every Room ever made, `ui` the store's
fields, and a `call` an invocation of `join`, `leave` or a toggle at one of its awaits.
Listeners stay with a room until they are removed; `onRoomDisconnected` does not ask which
room it is about, and `Dropped` does as it does.

* `ShowsTheCall`: `connecting` never stays behind without a call that will end it; and as
  long as no join began within another join or leave (`crossed`) there is at most one live
  room, it is the store's, and bar, tiles and audio show what is published in it.

`voice_race` drops the condition. Instance: two channels, two overlapping calls, two rooms,
one change of media; the race takes three rooms and no changes. The audio is the one of the
stage (`Heard`), see section 4.

### Reactions

One emoji under one message: `rows` in the table, handlers that have written and not yet
published (`due`), events on their way in the order in which they were published, own
requests, a page under way. `Toggle`, `Added`, `Removed` and `Fails` are the functions of the
store. `doubt` collects why the pill may differ from the rows, for good or until the next
page:

1. an event is lost, or publishes of one user overtake each other (`lost`, `overtaken`);
2. a failure meets another click or a row that was written all the same (`failed`);
3. a page brings a count but no names: an addition by somebody it counted is counted twice,
   their removal is ignored once somebody else is known, and while nobody is known the removal
   of somebody it did not count takes one away (`misread`);
4. an edit replaces the message by one without reactions (`edited`).

* `ReactionsRight`: with no doubt, once everything has arrived, count, own mark and label are
  those of the rows. `reactions_edit` admits the fourth cause and fails.

Instance: me and two others, three writes, two clicks, one page or edit.

### Typing

A tick is half a second in the instance, so the times are those of the code: asked every 8 s
(`TYPING_THROTTLE`), shown for 10 s, swept every second, a delivery of up to 1 s. `sure` is
the promise to whoever types steadily.

* `TypingRight`: whoever keeps typing stays on the line from one request to the next; nobody
  stays longer than a request is good for; a message takes its author off, unless a request
  from before it arrives after it. It rests on `TimesAssumption`: throttle plus delay below
  the TTL.

### Profile

A field holds the number of the request that wrote it last. `handlePatchMe` is three steps
(`ReadRow`, `WriteRow`, `Finish` with the invalidation), the cache's `GetByIDs` is three
(`Miss`, `LookUp`, `Keep`). The tab's user changes by answers and READY, the card by `Fetch`
and the form.

* `ProfileShown`: without overlapping requests the row holds what was asked for, and the user
  and card show it unless another tab changed it or the settings did (which leave the card
  alone).
* `ServedIsFresh`: the cache is never out of date for longer than its TTL, and only through
  another instance or a lookup that an invalidation met.

The cache and the screen both depend on the row, and neither on the other, so `auth` checks
`Change` with `Serve` and `Change` with `Show` as two parts: what holds of one side in those
holds of it under `Next`. Instance: two changes, one READY, a TTL of one tick.

### Effects

An effect is its type and its age; `raf` is a requested frame, `ink` whether the canvas shows
anything. `Frame(0)` is a frame with the same time as the last.

* `ScreenRight`: frames are requested while there is anything to draw and nothing is left when
  they stop; a shake has its timer; an overlay that is gone leaves nothing behind.
* `EffectsEnd`: every effect and shake ends. Fairness: frames advance, timers fire.

Instance: three effects of two types (one shakes, one lasts two frames), two mounts.

### RateLimit

Keys by window with a count and the time left; a request is `asked` (the replica's clock has
named the window), `counted` (INCR) and judged with the answer to EXPIRE, or let in by an
error. `Delay` bounds a call, `Skew` a clock.

* `LimitHolds`: less than three times the limit is let through in any stretch of a window
  less delay and skew; a refusal has as many counted requests in its window; a key without a
  TTL is one whose EXPIRE was lost.

One would expect twice the limit, the two windows that a stretch can meet. That is what this
property said until its proof failed: a key made in the first moments of its window expires in
the last, and is made again by a request that a slow call or clock has put into the old
window, so one window can be counted from one again inside the stretch. With a limit of two,
a window of three, a delay of one and six requests TLC finds five let through; three times the
limit less one is reached, and three times is not (`LimiterHolds`). `born` says which making of
the key counted a request.

Instance: a limit of one, three requests, windows of six ticks with delay and skew of one,
time up to the start of the third window (`MaxTime`). With a limit of one the bound is the
familiar one, at most two.

## 3. What is proved

A theorem is about every value of the constants that satisfies the assumptions of its module:
any sets of users, sessions, tabs, requests and channels, any lengths of time related as
assumed, and bounds of any size. Every assumption is evaluated by the run of the
module that holds it. Invariants that speak of one part of a composition are proved of the
specification of the composition (`PartSpec`), whose other parts then do not move.

| Module | Theorems about what the runs check | Rests on |
|---|---|---|
| `GatewayProofs` | `TypeOK`, `ExitLeavesNobody`, `FeedIsWhole` | `FeedInv`, `Drained` |
| `SocketsProofs` | `NeverEvicted`, `StatusMatchesMembers`, `ReportsMatchMembers`, `OneAttempt`, `ResyncsEveryGap`, `ShowsTheCall`, `AllTypesOK` | `IInv`, `ClientInv`, `CallsInv` |
| `EndingsProofs` | `ScreenRight`, `AllTypesOK` | `ScreenInv` |
| `AccountsProofs` | `TypeOK`, `EmailsHeld`, `NamesHeld`, `NothingBurned`, `LimitHolds`, `ImplementsDirectory` | `EmailInv`, `NameInv`, `BurnInv`, `LimiterInv` |
| `MessageStoreProofs` | `PagingComplete`, `NoGaps`, `PagesGoBack`, `DeletedLoseAuthor`, `OwnWords`, `TypingRight`, `ReactionsRight`, `ListIsRight`, `SendsSettle`, `ShownStays`, `AllTypesOK` | `PagingInv`, `AuthorInv`, `LineInv`, `PillInv`, `ChatInv` |
| `ChatClientProofs` | the same of any list: `TypeOK`, `ListIsRight`, `SendsSettle`, `ShownStays` | `ChatInv` |
| `AuthSessionProofs` | `OneSuccessor`, `NoNeedlessRefusal`, `StoredIsUsable`, `LogoutRevokes`, `ProfileShown`, `ServedIsFresh`, `AllTypesOK` | `SessionInv`, `NewestInv`, `AloneInv`, `RecordInv` |
| `GuildsProofs` | `TypeOK`, `RowsAgree`, `ToldIsStored`, `FeedIsWhole`, `ListsAreRight`, `SelectionFits`, `AllTypesOK` | `IInv`, `ClientInv` |

### The arguments

**Presence.** `IInv` adds how old a score may be in each phase (`ScoresFresh`: timer plus what
a call may take), that the keys outlive the scores, and that without a gap the members are
exactly the sessions that connected. It rests on `TimeAssumption`.

**Gateway.** A session is only sent what it routes (`Routed`, guilds are never unrouted), and
inbox, event in dispatch and what was sent follow each other in the order of the log
(`Ordered`). `NothingLost` is what makes a hole impossible: while a session owes no resync, every
event it has still to get is in the inbox. `Lives` says where a session is in its life, and so why
one that was rejected has been sent nothing; `Drained`, that nobody registers behind the
copy that `Shutdown` made. `MemberFeedIsWhole` carries the result over to the instance of
`Gateway` in `MCGuilds`.

**GatewayClient and Voice.** `Connected` says that what the client waits for is one of a timer,
a token and a socket, and the socket the current one; `Resynced`, that a gap is only left
before the READY that closes it. In `Voice` at most one join or leave is at an await until a
click starts one inside another (`OneAtATime`), only the room in use is wired, and every other
one that is linked has somebody who will close it (`OneRoom`).

**Effects.** `ScreenRight` is inductive; only the types need that an echo is of an effect that was
played.

**Accounts.** A request deletes by key, so the invariants say who owns a key while a request may
delete it: `EmailsReserved` for registrations; for names also `RenamesConsistent` (a rename knows
its user's current name and owns the old one until it deletes it), which holds only while a
user's renames do not overlap. `BurnInv` is the other direction: who has to answer for a
reservation that is there. The refinement `ImplementsDirectory` maps initial states to initial
states, and each action, taken with the invariants before the step, to one of `Directory` or a
stutter.

**RateLimit.** `LimiterInv` counts by making: two requests counted in one making of a key have
different numbers, at most the limit of them is let through; two makings of the key of one
window are a window apart, and whoever is counted by the second was not before the first
expired. So a stretch meets at most three makings, two of its earlier window and one of its
later. The first of them was made before the stretch began (`TwoMakings`), so the request it
counted first is not in it, and those let in can be numbered from 1 to three times the limit
less one (`Numbered`).

**MessageStore.** `PagingInv` adds to the properties what a walk has settled (`Settled`): each
steady message is returned already, or in a bucket that is still to be queried, or older than all
of a page that is full; and how `before` bounds the page and what is on screen (`WalkInv`).
`AuthorInv` adds `EditsByAuthor`: the row a pending edit is about has the author who is
editing, or, after a deletion, no row or no author.

**ChatClient.** `ChatInv` has a part for each place where something waits. Rows: the content of a
row is the last write about it (`RowsInv`). Notices: an event or answer is true of its write, and
the first write about a message, and no other, is a creation (`NoticesInv`). Pages: between
`Read` and arrival a page may be outdated only by writes later than `at`, and leaves out nothing
from its floor on that was there then (`FetchInv`, `PageOK`). The buffer of a list that is loading
holds exactly what was heard (`HeardInv`). A send has one entry at most, which has failed if and only
if the send is over (`SendsInv`). `ListInv` strengthens `ListIsRight`, which is silent about a
message while an event of it is to come: then the list shows it once, whatever the version, and may
lack it only while its creation is to come (`Right`). Lists are compared by what they show,
the versions of a message (`Vers`) and the fates of a send, so each helper
(`Without`, `Substitute`, `Append`, `Prepended`, `Newest`, `Buffered`) needs one lemma that says what it shows.
`MessageStoreProofs` carries the results over to the instance of `ChatClient` in `MCChannel`, as
it does for the table (`TableIsTheStore`): the parts are restrictions of the modules' own steps.

**Typing.** While somebody types, the line is kept by its entry, good for longer than the next
request is away, or by a request that arrives before the entry is over (`SureLasts`); the
entry is no older than the last request and its delay (`BarLasts`); and a request that left
after the last message is about an unfinished text (`MessageEnds`). It rests on
`TimesAssumption`: throttle plus delay below the TTL.

**Reactions.** Unless publishes overtook each other, the last of a member's events still to come
says whether they have reacted, and a page that no event has passed is right about everybody who has
none to come (`LastIsRow`, `PageKnows`). A pill without doubt counts whom it knows, whom a page counted
and me, each once (`Consistent`), and among them whoever has no event to come exactly if they are in
the table (`PillShows`). My own clicks run ahead of the table, so of me it says so only once
no request is still to be carried out; a request that is alone and was made on the true state
(`OwnRequests`) can be taken back.

**AuthSession.** `ChainInv` says that a token in Redis, or just taken from it, has no successor
and that two exchanges are of two tokens. `LiveInv` follows the newest token each tab will know
once all storage events have reached it (`Latest`): it is live, that is valid, spoiled or being
exchanged by an open tab, and so is the stored one; a tab that asks with anything but its latest
token spoils it. `GivenInv` keeps a token that has just been issued apart from all that the tabs
know. For `LogoutRevokes`, `NewestInv` says that no tab will end up with a token that one the browser
knows has replaced, and `AloneInv` that a logout nobody disturbed posts the last token of its
login. The chain is a recursive function over the tokens; that there is such a function, and
that every other token of a login has been exchanged, follows by the least-number principle.

**Profile.** While no two requests overlap, the tab is behind the row by the one change whose
answer it waits for (`TabFollows`); an entry of the cache that differs from the row is excused,
or the request that made it differ has still to invalidate it (`EntriesFresh`).

**Guilds.** `IInv` adds how far each request has come: the rows of all statements behind it are
there (`Progress`), a success has none ahead of it. Tables only grow and a step is of one
request, so what is said of the others survives it (`Kept`), and whoever has half a row
written has it still or has written the other half (`Settles`).

**GuildClient.** Because the tables only grow, what a task has read stays true (`TasksTrue`), and
what is shown of it (`ListsTrue`). `ListsComplete` is about facts, not lists: whatever is in the
tables and missing from a list that is there is outstanding or unsure; a list that arrives is
compared with the tables as they are then, which is why what is dispatched while it is
fetched becomes unsure at the dispatch. `Selected` needs of a list only that it contains the
selected channel. Lists of the tables are enumerations in the order of the ids
(`InOrder`); that it enumerates a finite set of numbers, each once, is a lemma (`OrderIs`).

### What the proofs changed in the models

* `LimitHolds` promised too little room; see RateLimit above.
* `Reactions` called every removal misread once somebody was known. No step of the proof needed that
  for a user the client knows; `Misread` is now only about those it does not.
* Bounds and tables of times that a module declared without saying what they are got
  assumptions: `MaxPlays` and `MaxMounts` in `Effects`, `None` and the bounds in
  `GatewayClient`, `Voice`, `GuildClient`, `Profile`, `MaxMessages` in `Typing`. A module that is a part of a
  composition states them as a definition, and the composition assumes it of its instance.
* `GuildClient` sorted the tables with `SetToSortSeq`, whose definition by `SortSeq` no
  backend can expand; `InOrder` says the same by counting.

* `ChatClient` filtered with `SelectSeq` and sorted with `SetToSortSeq`; `Without`, `Substitute` and
  `Newest` now speak of positions, counted with `Nth`.
* `ChatClient` held too many messages in doubt after an older page for a list since replaced, and
  missed one case, the hole between an old creation that was appended and the list.
  The step of `OlderArrives` failed on it, and TLC found the behaviour with one write more than the
  run makes; `Doubtful` now says what the step needs.
* The arms of a `CASE` in `Apply` overlapped, which leaves the choice open; TLC takes the first one,
  a theorem is about any.

### What is only model-checked

* Liveness (`GhostsAgeOut`, `ClosedSessionsEnd`, `ShutdownCompletes`, `ComesBack`, `EffectsEnd`) and
  `ENABLED` are out of this prover's reach.
* Theorems of the library that take an operator as a parameter, the induction theorems among
  them, cannot be instantiated by the provers. Where induction over numbers is needed
  it is done with the least element of a set of numbers instead.

## 4. Findings

* `presence_race`: offline published after a later online; contradicts
  docs/DEPLOYMENT.md:75-76.
* `gateway_identify_race`: a guild joined during identify is never routed;
  contradicts docs/DEPLOYMENT.md:73-74.
* `rename_race`: overlapping renames of one user break unique usernames;
  contradicts docs/ARCHITECTURE.md:114-115.
* docs/ARCHITECTURE.md:126 and 235-238 describe a counter where the code keeps a
  sorted set.
* `voice_race`: two clicks on voice channels while in a call leave two live rooms;
  contradicts src/web/src/store/voiceStore.js:154.
* `reactions_edit`: an edit comes back without reactions and the pill is gone;
  contradicts docs/FEATURES-v2.md:43-44.
* `stale_start`: a first connection that took several attempts is not followed by a resync,
  though lists may have been fetched meanwhile; src/web/src/store/chatStore.js:549-550.
* `resync` falls back to `channels[0]`, which may be a voice channel; contrary to
  src/web/src/store/chatStore.js:78-79 (exception 4 of `GuildClient`).
* Remote audio is played by the stage only, so a call is silent while a text channel is
  open; contrary to src/web/src/store/voiceStore.js:108-110.
* Removals of users that a page counted are ignored once somebody is known;
  docs/FEATURES-v2.md:47.
* `lastEffect` is never cleared and is played again by the next mount of the overlay;
  src/web/src/store/effectsStore.js:19.
* Overlapping PATCH requests undo each other's profile fields;
  src/backend/internal/httpapi/user_handlers.go:79.

## 5. Not modelled

* Presence: clock skew between gateways, and scripts applied after their call timed out and
  a later one returned.
* Gateway: the interval between a failing read and `hub.unregister`, and kills after the
  grace period.
* Accounts: write timestamps of ScyllaDB, in particular a plain DELETE against an LWT.
* GatewayClient: the lengths of backoff and heartbeat intervals; what events contain.
* Voice: devices that vanish, active speakers, the expiry of a token.
* Effects: what the effects look and sound like; two frames are told apart only by age.
* Typing: two typists on one line, and the text "several people".
* Profile: `accent_color` goes the way of `pronouns`; a second cache is only another
  instance whose invalidation does not arrive; eviction of the LRU.
* `PRESENCE_UPDATE` at the client sets one field of a member and is left out.
* The scroll position that MessagePane.jsx:34-55 keeps across an older page depends on
  layout, which no model here has.

Parts without state or with only I/O (tokens and hashes, MinIO, the GIF provider, routing and
validation, configuration, the seed script, rendering) are listed in `PROJECT.json` with the
reason.

## 6. Plan

1. More abstract specifications: presence as "online iff some session is connected", which
   `Presence` implements while nothing fails; a list that equals the server's, which
   `ChatClient` implements when `unsure` is empty.
2. Larger instances where a run has time left: a second other participant in `Voice`, a
   limit of two in `RateLimit`.
