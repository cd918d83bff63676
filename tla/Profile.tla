--------------------------------- MODULE Profile ---------------------------------
(***************************************************************************)
(* One user's record: the row (store/users.go), the handlers that change   *)
(* it (handlePatchMe, handleUploadAvatar), an api instance's cache of it   *)
(* (store/usercache.go), and what the user's tab shows: the user of        *)
(* authStore and the profile card (store/profileStore.js), changed by the  *)
(* settings, by the profile form and by READY.                             *)
(*                                                                         *)
(* A field holds the number of the request that wrote it.  Names are never *)
(* refused here (Accounts has the reservations); accent_color goes the way *)
(* of pronouns.                                                            *)
(*                                                                         *)
(* A definition Name_Variant is Name with a bug put in; only the mutation  *)
(* runs use it.                                                            *)
(***************************************************************************)
EXTENDS Integers, FiniteSets

CONSTANTS
    Ttl,         \* of a cache entry, in ticks
    MaxWrites, MaxReadies   \* bounds

ProfileAssumption == Ttl \in Nat \ {0} /\ {MaxWrites, MaxReadies} \subseteq Nat

VARIABLES
    row,         \* the users row
    wanted,      \* the last value each field was asked to have (history)
    reqs,        \* requests that change the row
    cache,       \* the entry of UserCache
    lookup,      \* a GetByIDs that missed
    user,        \* authStore's user
    card,        \* profileStore's profile of the user
    ready,       \* a READY under way
    fetch,       \* a GET /users/{id} under way
    apart,       \* user may differ from the row (history)
    cardApart,   \* and the card (history)
    overlap,     \* two requests have overlapped (history)
    writes, readies   \* numbers of each so far (bounds)

serverVars == <<row, wanted, cache, lookup>>
tabVars == <<user, card, apart, cardApart>>
linkVars == <<ready, fetch, readies>>
vars == <<serverVars, reqs, tabVars, linkVars, overlap, writes>>

Field == {"name", "avatar", "bio", "pronouns"}
Record == [Field -> 0 .. MaxWrites]
Nothing == [pc |-> "none"]

\* Who asks for what: the settings, the profile form, or another tab or client.
Form == {<<"settings", {"name"}>>, <<"settings", {"avatar"}>>, <<"form", {"avatar"}>>,
         <<"form", {"bio", "pronouns"}>>, <<"other", {"bio"}>>, <<"other", {"pronouns"}>>}

TypeOK ==
    /\ row \in Record /\ wanted \in Record /\ user \in Record
    /\ card = Nothing \/ card \in Record
    /\ \A r \in reqs : r.pc \in {"sent", "read", "written", "done"} /\ r.snap \in Record
    /\ {cache.pc, lookup.pc, ready.pc, fetch.pc} \subseteq {"none", "begun", "read", "kept"}
    /\ {apart, cardApart, overlap} \subseteq BOOLEAN

Init ==
    /\ row = [f \in Field |-> 0] /\ wanted = row /\ user = row
    /\ card = Nothing /\ reqs = {}
    /\ cache = Nothing /\ lookup = Nothing /\ ready = Nothing /\ fetch = Nothing
    /\ apart = FALSE /\ cardApart = FALSE /\ overlap = FALSE
    /\ writes = 0 /\ readies = 0

Busy == reqs # {} \/ ready # Nothing \/ fetch # Nothing

-----------------------------------------------------------------------------
(* Changing the row.                                                       *)

Ask(via, fields) ==
    /\ writes < MaxWrites /\ writes' = writes + 1
    /\ reqs' = reqs \cup {[n |-> writes + 1, via |-> via, fields |-> fields, pc |-> "sent",
                           snap |-> row]}
    /\ overlap' = (overlap \/ Busy)
    /\ UNCHANGED <<serverVars, tabVars, linkVars>>

Move(r, pc) == reqs' = (reqs \ {r}) \cup {[r EXCEPT !.pc = pc]}

\* currentUser.
ReadRow(r) ==
    /\ r.pc = "sent"
    /\ reqs' = (reqs \ {r}) \cup {[r EXCEPT !.pc = "read", !.snap = row]}
    /\ UNCHANGED <<serverVars, tabVars, linkVars, overlap, writes>>

With(record, fields, n) == [f \in Field |-> IF f \in fields THEN n ELSE record[f]]

\* The profile's fields are written together, those not given as they were read.
Together(fields) == IF fields \subseteq {"bio", "pronouns"} THEN {"bio", "pronouns"} ELSE fields

\* What was read before is out of date from now on.
Overtaken(read) == IF read.pc \in {"read", "kept"} THEN [read EXCEPT !.passed = TRUE] ELSE read

WriteRow(r) ==
    /\ r.pc = "read"
    /\ Move(r, "written")
    /\ row' = [f \in Field |-> IF f \in Together(r.fields) THEN With(r.snap, r.fields, r.n)[f]
                               ELSE row[f]]
    /\ wanted' = With(wanted, r.fields, r.n)
    /\ cache' = Overtaken(cache) /\ lookup' = Overtaken(lookup)
    /\ ready' = Overtaken(ready) /\ fetch' = Overtaken(fetch)
    /\ UNCHANGED <<tabVars, readies, overlap, writes>>

\* An entry that an invalidation cannot reach.
Missed(read) == IF read.pc \in {"read", "kept"} THEN [read EXCEPT !.excused = TRUE] ELSE read

Invalidate_Never(here) == cache' = cache /\ lookup' = lookup

\* Invalidate, of the handler's own instance.
Invalidate(here) ==
    /\ cache' = IF here THEN Nothing ELSE Missed(cache)
    /\ lookup' = Missed(lookup)

Finish(r) ==
    /\ r.pc = "written"
    /\ Move(r, "done")
    /\ \E here \in BOOLEAN : Invalidate(here)
    /\ UNCHANGED <<row, wanted, tabVars, linkVars, overlap, writes>>

-----------------------------------------------------------------------------
(* The cache.                                                              *)

\* GetByIDs: a miss, the read, and the entry, good for Ttl from the miss.
Miss ==
    /\ cache = Nothing /\ lookup = Nothing
    /\ lookup' = [pc |-> "begun", age |-> 0]
    /\ UNCHANGED <<row, wanted, cache, reqs, tabVars, linkVars, overlap, writes>>

LookUp ==
    /\ lookup.pc = "begun"
    /\ lookup' = [pc |-> "read", age |-> lookup.age, snap |-> row, passed |-> FALSE,
                  excused |-> FALSE, old |-> 0]
    /\ UNCHANGED <<row, wanted, cache, reqs, tabVars, linkVars, overlap, writes>>

Keep ==
    /\ lookup.pc = "read" /\ lookup' = Nothing
    /\ cache' = IF lookup.age < Ttl THEN [lookup EXCEPT !.pc = "kept"] ELSE Nothing
    /\ UNCHANGED <<row, wanted, reqs, tabVars, linkVars, overlap, writes>>

Older(read) ==
    CASE read.pc = "begun" -> [read EXCEPT !.age = IF @ < Ttl THEN @ + 1 ELSE @]
      [] read.pc \in {"read", "kept"} ->
            [read EXCEPT !.age = IF @ < Ttl THEN @ + 1 ELSE @,
                         !.old = IF read.passed /\ @ < Ttl THEN @ + 1 ELSE @]
      [] OTHER -> read

\* Time; an entry ends.
Tick ==
    /\ lookup' = Older(lookup)
    /\ cache' = IF cache.pc = "kept" /\ cache.age + 1 = Ttl THEN Nothing ELSE Older(cache)
    /\ UNCHANGED <<row, wanted, reqs, tabVars, linkVars, overlap, writes>>

-----------------------------------------------------------------------------
(* The tab.                                                                *)

\* The answer to a PATCH is the record the handler read, with its changes;
\* an upload's is the url, merged into the user there is.
Answered(r) == IF r.fields = {"avatar"} THEN With(user, r.fields, r.n) ELSE With(r.snap, r.fields, r.n)

Answer_KeepsCard(r) ==
    /\ r.pc = "done" /\ reqs' = reqs \ {r}
    /\ IF r.via = "other" THEN UNCHANGED user /\ apart' = TRUE ELSE user' = Answered(r) /\ UNCHANGED apart
    /\ cardApart' = IF r.via = "form" THEN apart ELSE (cardApart \/ card # Nothing)
    /\ UNCHANGED <<serverVars, card, linkVars, overlap, writes>>

\* setUser, and setProfile in the form only.  Nobody tells other tabs.
Answer(r) ==
    /\ r.pc = "done" /\ reqs' = reqs \ {r}
    /\ IF r.via = "other" THEN UNCHANGED user /\ apart' = TRUE ELSE user' = Answered(r) /\ UNCHANGED apart
    /\ IF r.via = "form" THEN card' = user' /\ cardApart' = apart
       ELSE UNCHANGED card /\ cardApart' = (cardApart \/ card # Nothing)
    /\ UNCHANGED <<serverVars, linkVars, overlap, writes>>

\* The handler fails, or its answer is lost.
Fail(r) ==
    /\ r.pc # "written" /\ reqs' = reqs \ {r}
    /\ apart' = (apart \/ r.pc = "done") /\ cardApart' = (cardApart \/ r.pc = "done")
    /\ UNCHANGED <<serverVars, user, card, linkVars, overlap, writes>>

\* A reconnect: the gateway reads the record, and its READY is merged.
Reconnect ==
    /\ ready = Nothing /\ readies < MaxReadies /\ readies' = readies + 1
    /\ ready' = [pc |-> "read", snap |-> row, passed |-> FALSE]
    /\ overlap' = (overlap \/ Busy)
    /\ UNCHANGED <<serverVars, reqs, tabVars, fetch, writes>>

Ready ==
    /\ ready # Nothing /\ ready' = Nothing
    /\ user' = ready.snap
    /\ apart' = ready.passed
    /\ UNCHANGED <<serverVars, reqs, card, cardApart, fetch, readies, overlap, writes>>

\* fetch: once, for as long as there is a profile.
Fetch ==
    /\ card = Nothing /\ fetch = Nothing
    /\ fetch' = [pc |-> "read", snap |-> row, passed |-> FALSE]
    /\ overlap' = (overlap \/ Busy)
    /\ UNCHANGED <<serverVars, reqs, tabVars, ready, readies, writes>>

Fetched ==
    /\ fetch # Nothing /\ fetch' = Nothing
    /\ card' = fetch.snap /\ cardApart' = fetch.passed
    /\ UNCHANGED <<serverVars, reqs, user, apart, ready, readies, overlap, writes>>

FetchFails ==
    /\ fetch # Nothing /\ fetch' = Nothing
    /\ UNCHANGED <<serverVars, reqs, tabVars, ready, readies, overlap, writes>>

Change ==
    \/ \E form \in Form : Ask(form[1], form[2])
    \/ \E r \in reqs : ReadRow(r) \/ WriteRow(r) \/ Finish(r) \/ Answer(r) \/ Fail(r)

Serve == Miss \/ LookUp \/ Keep \/ Tick

Show == Reconnect \/ Ready \/ Fetch \/ Fetched \/ FetchFails

Next == Change \/ Serve \/ Show

Spec == Init /\ [][Next]_vars

-----------------------------------------------------------------------------
(* Properties.                                                             *)

\* When no two requests overlapped, each field of the row is what was last
\* asked for, and once the answers are in the tab shows it: the user unless
\* another tab changed the row or an answer was lost since the last READY, the
\* card unless it is older than a change made outside the form.
ProfileShown ==
    ~overlap =>
        /\ \A r \in reqs : r.pc = "written" => row = wanted
        /\ ~Busy /\ ~apart => user = row
        /\ ~Busy /\ card # Nothing /\ ~cardApart => card = row

\* Authors and members are shown as they were at most one Ttl ago.  They are
\* out of date only through another instance's change, a change that met a
\* lookup, or one not yet invalidated.
ServedIsFresh ==
    cache # Nothing =>
        /\ cache.old < Ttl
        /\ cache.snap # row => cache.excused \/ \E r \in reqs : r.pc = "written"

=============================================================================
