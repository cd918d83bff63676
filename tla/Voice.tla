--------------------------------- MODULE Voice ---------------------------------
(***************************************************************************)
(* The voice calls of one browser tab (store/voiceStore.js) and what its   *)
(* components show of them.                                                *)
(*                                                                         *)
(* room is the module's variable of that name: the LiveKit Room the store  *)
(* works with.  join and leave give up control at every await - the        *)
(* disconnect of the old room, the request for a token, the connect - and  *)
(* further clicks, answers and events of any room come in between, so      *)
(* several calls of them may be under way.  Every Room ever created stays  *)
(* in rooms: whether it is linked to the server, whether our listeners are *)
(* wired, what we publish in it and what the other participant does.       *)
(*                                                                         *)
(* A definition Name_Variant is Name with a bug put in; only the mutation  *)
(* runs use it.                                                            *)
(***************************************************************************)
EXTENDS Integers, Sequences

CONSTANTS
    Channel,     \* voice channels
    None,        \* no channel
    Caller,      \* the calls of join, leave and the toggles that may overlap
    Media,       \* what a participant can publish: "mic", "cam", "screen"
    MaxRooms, MaxChanges   \* bounds

ConstantsAssumption ==
    /\ Media \subseteq {"mic", "cam", "screen"} /\ "mic" \in Media /\ None \notin Channel
    /\ MaxRooms \in Nat /\ MaxChanges \in Nat

VARIABLES
    room,        \* the Room in use, 0 for null
    rooms,       \* the Rooms created so far
    ui,          \* the fields of the store
    call,        \* the calls under way
    changes,     \* number of toggles and changes of the other participant (bound)
    crossed      \* a join began while another join or leave was under way (history)

vars == <<room, rooms, ui, call, changes, crossed>>

Absent == {"absent"}
Published == {Absent} \cup SUBSET Media

\* What the store and the tiles show of a room: the participants with their
\* mute signs, the one picture of a tile, and the audio that is played.
Picture(media) == CASE "screen" \in media -> "screen" [] "cam" \in media -> "cam" [] OTHER -> "avatar"
View(r) ==
    [own |-> r.own, there |-> r.peer # Absent, mic |-> "mic" \in r.peer,
     tile |-> Picture(r.peer), audio |-> "mic" \in r.peer]

NoView == [own |-> {}, there |-> FALSE, mic |-> FALSE, tile |-> "avatar", audio |-> FALSE]

Reset == [connected |-> FALSE, connecting |-> FALSE, channel |-> None, view |-> NoView, stage |-> FALSE]

Idle == [pc |-> "idle"]
Awaiting == {"leaving", "token", "connecting", "failing", "bailing"}

\* The content area shows the stage, and with it the tiles and the audio.
OnStage == ui.stage /\ (ui.connected \/ ui.connecting)
Heard == OnStage /\ ui.view.audio

TypeOK ==
    /\ room \in 0 .. Len(rooms) /\ Len(rooms) <= MaxRooms /\ changes \in 0 .. MaxChanges
    /\ \A k \in DOMAIN rooms :
        /\ rooms[k].channel \in Channel /\ rooms[k].link \in {"new", "up", "closed"}
        /\ rooms[k].wired \in BOOLEAN /\ rooms[k].own \subseteq Media /\ rooms[k].peer \in Published
    /\ ui.channel \in Channel \cup {None} /\ ui.view.own \subseteq Media
    /\ \A c \in Caller : call[c].pc \in Awaiting \cup {"idle", "media"}
    /\ ui.connected => ~ui.connecting

Init ==
    /\ room = 0 /\ rooms = <<>> /\ ui = Reset
    /\ call = [c \in Caller |-> Idle]
    /\ changes = 0 /\ crossed = FALSE

Goto(c, state) == call' = [call EXCEPT ![c] = state]

\* syncFromRoom: the store shows the room in use, if there is one.
Synced(u, rs) == IF room = 0 THEN u ELSE [u EXCEPT !.view = View(rs[room])]

-----------------------------------------------------------------------------
(* join and leave.                                                         *)

Connecting(u, ch) == [u EXCEPT !.connecting = TRUE, !.channel = ch, !.stage = TRUE]

\* The first half of leave: the room is given up and told to disconnect.
\* Without one there is nothing to wait for.
GiveUp(c, then) ==
    /\ room' = 0
    /\ rooms' = [rooms EXCEPT ![room].wired = FALSE]
    /\ Goto(c, [pc |-> "leaving", r |-> room, then |-> then])

\* A click on a voice channel.
Join(c, ch) ==
    /\ call[c] = Idle
    /\ IF ui.connecting \/ (ui.connected /\ ui.channel = ch)
       THEN /\ ui' = [ui EXCEPT !.stage = TRUE]
            /\ UNCHANGED <<room, rooms, call, crossed>>
       ELSE /\ crossed' = (crossed \/ \E d \in Caller : call[d].pc \in Awaiting)
            /\ IF room # 0
               THEN GiveUp(c, ch) /\ ui' = [ui EXCEPT !.stage = TRUE]
               ELSE /\ ui' = Connecting(IF ui.connected THEN Reset ELSE ui, ch)
                    /\ Goto(c, [pc |-> "token", ch |-> ch])
                    /\ UNCHANGED <<room, rooms>>
    /\ UNCHANGED changes

\* The control bar, with its button to hang up, is there while connected.
Hangup(c) ==
    /\ call[c] = Idle /\ ui.connected
    /\ IF room # 0 THEN GiveUp(c, None) /\ UNCHANGED ui
       ELSE ui' = Reset /\ UNCHANGED <<room, rooms, call>>
    /\ UNCHANGED <<changes, crossed>>

\* disconnect has returned: the rest of leave, and of the join that called it.
Left(c) ==
    /\ call[c].pc = "leaving"
    /\ rooms' = [rooms EXCEPT ![call[c].r].link = "closed"]
    /\ IF call[c].then = None THEN ui' = Reset /\ Goto(c, Idle)
       ELSE /\ ui' = Connecting(Reset, call[c].then)
            /\ Goto(c, [pc |-> "token", ch |-> call[c].then])
    /\ UNCHANGED <<room, changes, crossed>>

TokenFails(c) ==
    /\ call[c].pc = "token"
    /\ ui' = Reset
    /\ Goto(c, Idle)
    /\ UNCHANGED <<room, rooms, changes, crossed>>

TokenArrives(c) ==
    /\ call[c].pc = "token" /\ Len(rooms) < MaxRooms
    /\ rooms' = Append(rooms, [channel |-> call[c].ch, link |-> "new", wired |-> TRUE,
                               own |-> {}, peer |-> Absent])
    /\ room' = Len(rooms) + 1
    /\ Goto(c, [pc |-> "connecting", r |-> Len(rooms) + 1])
    /\ UNCHANGED <<ui, changes, crossed>>

\* connect rejects: the room is abandoned and the store reset.
ConnectFails(c) ==
    /\ call[c].pc = "connecting"
    /\ room' = IF room = call[c].r THEN 0 ELSE room
    /\ rooms' = [rooms EXCEPT ![call[c].r].wired = FALSE]
    /\ Goto(c, [pc |-> "failing", r |-> call[c].r])
    /\ UNCHANGED <<ui, changes, crossed>>

\* connect resolves; if the room is not the one in use any more it is closed.
Connects(c) ==
    LET r == call[c].r IN
    /\ call[c].pc = "connecting" /\ rooms[r].link = "new"
    /\ \E peer \in Published : peer \in {Absent, {}} /\
        rooms' = [rooms EXCEPT ![r].link = "up", ![r].peer = peer, ![r].wired = @ /\ room = r]
    /\ IF room = r
       THEN /\ ui' = Synced([ui EXCEPT !.connected = TRUE, !.connecting = FALSE], rooms')
            /\ Goto(c, [pc |-> "media", r |-> r, m |-> "mic", on |-> TRUE, sync |-> FALSE])
       ELSE UNCHANGED ui /\ Goto(c, [pc |-> "bailing", r |-> r])
    /\ UNCHANGED <<room, changes, crossed>>

\* The disconnect of an abandoned room has returned.
Abandoned(c) ==
    /\ call[c].pc \in {"failing", "bailing"}
    /\ rooms' = [rooms EXCEPT ![call[c].r].link = "closed"]
    /\ ui' = IF call[c].pc = "failing" THEN Reset ELSE ui
    /\ Goto(c, Idle)
    /\ UNCHANGED <<room, changes, crossed>>

-----------------------------------------------------------------------------
(* In a call.                                                              *)

\* toggleMic, toggleCamera, toggleScreenShare.
Toggle(c, m) ==
    /\ call[c] = Idle /\ ui.connected /\ room # 0
    /\ changes < MaxChanges /\ changes' = changes + 1
    /\ Goto(c, [pc |-> "media", r |-> room, m |-> m, on |-> m \notin rooms[room].own, sync |-> TRUE])
    /\ UNCHANGED <<room, rooms, ui, crossed>>

\* The browser grants the device, or refuses it; a toggle syncs with the room
\* in use in any case, a join only if that is still its own.
Granted(c) ==
    /\ rooms[call[c].r].link = "up"
    /\ rooms' = [rooms EXCEPT ![call[c].r].own =
                    IF call[c].on THEN @ \cup {call[c].m} ELSE @ \ {call[c].m}]

MediaAnswer_NoSync(c) ==
    /\ call[c].pc = "media"
    /\ UNCHANGED rooms \/ Granted(c)
    /\ Goto(c, Idle)
    /\ UNCHANGED <<room, ui, changes, crossed>>

MediaAnswer(c) ==
    /\ call[c].pc = "media"
    /\ UNCHANGED rooms \/ Granted(c)
    /\ ui' = IF call[c].sync \/ room = call[c].r THEN Synced(ui, rooms') ELSE ui
    /\ Goto(c, Idle)
    /\ UNCHANGED <<room, changes, crossed>>

\* The other participant joins, leaves, publishes or mutes: an event of the room.
PeerChanges(r, media) ==
    /\ changes < MaxChanges /\ changes' = changes + 1
    /\ rooms[r].link = "up" /\ rooms[r].peer # media
    /\ rooms' = [rooms EXCEPT ![r].peer = media]
    /\ ui' = IF rooms[r].wired THEN Synced(ui, rooms') ELSE ui
    /\ UNCHANGED <<room, call, crossed>>

\* The server drops the room: onRoomDisconnected, which asks only whether
\* there is a room in use, not which.
Dropped(r) ==
    /\ rooms[r].link \in {"new", "up"}
    /\ rooms' = [rooms EXCEPT ![r].link = "closed", ![r].own = {}, ![r].peer = Absent]
    /\ IF rooms[r].wired /\ room # 0 THEN room' = 0 /\ ui' = Reset ELSE UNCHANGED <<room, ui>>
    /\ UNCHANGED <<call, changes, crossed>>

\* A text channel is opened, or the bar's button brings the stage back.
ShowStage(on) ==
    /\ on => ui.connected
    /\ ui' = [ui EXCEPT !.stage = on]
    /\ UNCHANGED <<room, rooms, call, changes, crossed>>

Answer(c) ==
    Left(c) \/ TokenFails(c) \/ TokenArrives(c) \/ ConnectFails(c) \/ Connects(c)
        \/ Abandoned(c) \/ MediaAnswer(c)

Next ==
    \/ \E c \in Caller : Answer(c) \/ Hangup(c)
    \/ \E c \in Caller, ch \in Channel : Join(c, ch)
    \/ \E c \in Caller, m \in Media : Toggle(c, m)
    \/ \E r \in DOMAIN rooms : Dropped(r) \/ \E media \in Published : PeerChanges(r, media)
    \/ \E on \in BOOLEAN : ShowStage(on)

Spec == Init /\ [][Next]_vars

-----------------------------------------------------------------------------
(* Properties.                                                             *)

\* join returns at once when the store says that it is connecting, so a flag
\* left behind would make every voice channel unusable: some join or leave is
\* at work that will end it.
ConnectingEnds == ui.connecting => \E c \in Caller : call[c].pc \in Awaiting

\* A room that is linked, and that no call under way is about to close.
Live(r) ==
    /\ rooms[r].link = "up"
    /\ \A c \in Caller : call[c].pc \in {"leaving", "bailing", "failing"} => call[c].r # r

\* The bar connects no longer than somebody is at it, and as long as no join
\* began in the middle of another join or leave, whatever else is interleaved,
\* we are live in at most the one room whose bar is shown, under the name of
\* its channel, and the bar, tiles and audio show what is published in it.
ShowsTheCall ==
    /\ ConnectingEnds
    /\ ~crossed =>
        /\ \A r \in DOMAIN rooms : Live(r) => r = room /\ ui.connected
        /\ ui.connected /\ room # 0 =>
            rooms[room].channel = ui.channel /\ ui.view = View(rooms[room])

\* "Already in another call - tear it down before joining the new one"
\* (voiceStore.js:154): there is never more than one live room.
OneCall == \A r, s \in DOMAIN rooms : Live(r) /\ Live(s) => r = s

=============================================================================
