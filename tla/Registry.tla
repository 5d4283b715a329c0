------------------------------- MODULE Registry -------------------------------
(***************************************************************************)
(* The rag_models rows, and what has to follow them: the history of system *)
(* prompts in the database, and the map of CORS origins in the memory of   *)
(* the API process.  An edit is a request that changes a model: it loads   *)
(* the row, decides from that copy, commits, and in some cases rebuilds    *)
(* the map.  Columns, their parts and bodies are functions, so that a      *)
(* partial update is always a Merge.                                       *)
(***************************************************************************)
EXTENDS Naturals, Sequences

CONSTANTS
    Slugs,      \* slugs of models
    Edits,      \* requests that change a model
    Of,         \* Of[e]: the slug in the path or body of e
    Verb,       \* Verb[e]: the endpoint
    Body,       \* Body[e]: the fields e sends
    AtFirst,    \* the slugs that have a row at first
    FirstRow,   \* FirstRow[s]: this row
    NoOrigins,
    Scenes      \* bound: the sets of edits that meet

Verbs   == {"create", "patch", "theme", "accept", "rollback", "delete"}
Columns == {"prompt", "origins", "active", "deleted", "theme"}

ASSUME RegistryAssumption ==
    /\ Of \in [Edits -> Slugs] /\ Verb \in [Edits -> Verbs]
    /\ AtFirst \subseteq Slugs
    /\ FirstRow = [s \in Slugs |-> FirstRow[s]]
    /\ \A s \in Slugs : DOMAIN FirstRow[s] = Columns
    /\ \A e \in Edits : DOMAIN Body[e] \subseteq IF Verb[e] = "create" THEN Columns
                                                                     ELSE Columns \ {"deleted"}
    /\ \A e \in Edits : Verb[e] = "create" =>
          DOMAIN Body[e] = Columns /\ Body[e].active /\ ~Body[e].deleted
    /\ Scenes \subseteq SUBSET Edits

\* The parts of a theme; one that is not sent or not set has a value that says so.
ThemeFields == UNION {DOMAIN FirstRow[s].theme : s \in Slugs}

ASSUME ThemeAssumption ==
    /\ \A s \in Slugs : DOMAIN FirstRow[s].theme = ThemeFields
    /\ \A e \in Edits : Verb[e] = "theme" => "theme" \in DOMAIN Body[e]
    /\ \A e \in Edits : "theme" \in DOMAIN Body[e] =>
          IF Verb[e] = "theme" THEN DOMAIN Body[e].theme \subseteq ThemeFields
                               ELSE DOMAIN Body[e].theme = ThemeFields

VARIABLES
    exists,    \* the slugs that have a row, deleted ones included
    row,       \* row[s]: the committed row of slug s, if it exists
    history,   \* the system_prompt_history rows in the order of their commits
    origins,   \* _origins_by_slug
    place,     \* place[e]: where edit e stands
    copy,      \* copy[e]: the row e loaded
    stamp,     \* stamp[e]: when the transaction e writes in began
    clock,
    fetched,   \* fetched[e]: the map e's sync has built
    saves,     \* history variable: who saved what, in the order of the commits
    base,      \* history variable: base[e]: how many had saved when e loaded its row
    reads,     \* history variable: how many syncs have read the table
    ticket,    \* history variable: ticket[e]: the number of e's read
    inForce,   \* history variable: the number of the read whose map is in force
    unread     \* history variable: models changed without a sync since the last read

tables == <<exists, row, history>>
memory == <<origins, place, copy, stamp, clock, fetched>>
ghosts == <<saves, base, reads, ticket, inForce, unread>>
gvars  == <<tables, memory, ghosts>>

Merge(f, g) == [x \in DOMAIN f \cup DOMAIN g |-> IF x \in DOMAIN g THEN g[x] ELSE f[x]]

Live(s) == s \in exists /\ ~row[s].deleted

\* The query of sync_origins.
Shown == [s \in {s \in Slugs : Live(s) /\ row[s].active} |-> row[s].origins]

RegistryInit ==
    /\ exists = AtFirst /\ row = FirstRow
    /\ origins = Shown
    /\ history = <<>> /\ saves = <<>>
    /\ \E scene \in Scenes : place = [e \in Edits |-> IF e \in scene THEN "new" ELSE "absent"]
    /\ copy = [e \in Edits |-> FirstRow[Of[e]]]
    /\ fetched = [e \in Edits |-> origins]
    /\ stamp = [e \in Edits |-> 0] /\ base = stamp /\ ticket = stamp
    /\ clock = 0 /\ reads = 0 /\ inForce = 0
    /\ unread = {}
-------------------------------------------------------------------------------
(* Before the commit *)

Move(e, from, to) == place[e] \in from /\ place' = [place EXCEPT ![e] = to]

\* Bound: time is kept for the edits that record it in the history.
Timed(e) == Verb[e] \in {"accept", "rollback"} \/ "prompt" \in DOMAIN Body[e]

\* The transaction of e begins.
Begin(e) == /\ clock' = IF Timed(e) THEN clock + 1 ELSE clock
            /\ stamp' = [stamp EXCEPT ![e] = clock']

\* 404 without a live model, and for create_model 409 with one.
Load(e) == LET s == Of[e] IN
    /\ Move(e, {"new"}, IF Live(s) = (Verb[e] # "create") THEN "loaded" ELSE "refused")
    /\ copy' = [copy EXCEPT ![e] = row[s]]
    /\ base' = [base EXCEPT ![e] = Len(saves)]
    /\ Begin(e)
    /\ UNCHANGED <<tables, origins, fetched, saves, reads, ticket, inForce, unread>>

\* Letting the caller in after that commits (a key's last_used_at, a changed profile): a
\* second transaction begins, the row is not loaded again.
LetInAgain(e) == /\ Verb[e] # "create" /\ Move(e, {"loaded"}, "let in")
                 /\ Begin(e)
                 /\ UNCHANGED <<tables, origins, copy, fetched, ghosts>>

\* 403 without keys or approval, 409 for a locked field, 404 for a history entry.
Refused(e) == /\ Move(e, {"loaded", "let in"}, "refused")
              /\ UNCHANGED <<tables, origins, copy, stamp, clock, fetched, ghosts>>
-------------------------------------------------------------------------------
(* The commit *)

\* The columns that e assigns; update_theme merges what is sent into its copy.
Sent(e, text) ==
    CASE Verb[e] \in {"create", "patch"}    -> Body[e]
      [] Verb[e] = "theme"                  -> [theme |-> Merge(copy[e].theme, Body[e].theme)]
      [] Verb[e] \in {"accept", "rollback"} -> [prompt |-> text]
      [] Verb[e] = "delete"                 -> [deleted |-> TRUE]

\* Mutant: the whole copy is written back.
Written_Whole(e, sent) == Merge(copy[e], sent)

\* The ORM writes the columns whose value differs from the one loaded.
Written(e, sent) == [f \in {f \in DOMAIN sent : sent[f] # copy[e][f]} |-> sent[f]]

\* The prompts e can ask for: its own, or that of an entry of the model's history.
Prompts(e) == IF Verb[e] = "rollback"
            THEN {history[k].text : k \in {k \in DOMAIN history : history[k].slug = Of[e]}}
            ELSE IF Verb[e] = "accept" THEN {Body[e].prompt} ELSE {""}

\* Mutant: a PATCH of the prompt is not recorded.
Recorded_NotPatch(e, sent) == Verb[e] \in {"accept", "rollback"}

\* A PATCH is recorded if it differs from the copy, the others always; the initial prompt is not.
Recorded(e, sent) == \/ Verb[e] \in {"accept", "rollback"}
                     \/ Verb[e] = "patch" /\ "prompt" \in DOMAIN sent /\ sent.prompt # copy[e].prompt

\* Mutant: only new models and deleted ones are published.
Syncs_NotPatch(e) == Verb[e] = "delete" \/ (Verb[e] = "create" /\ Body[e].origins # NoOrigins)

\* Who rebuilds the map afterwards.
Syncs(e) == CASE Verb[e] = "create" -> Body[e].origins # NoOrigins
              [] Verb[e] = "patch"  -> "origins" \in DOMAIN Body[e]
              [] OTHER              -> Verb[e] = "delete"

\* A PATCH that shows or hides the model, and does not rebuild the map.
Silent(e) == Verb[e] = "patch" /\ "active" \in DOMAIN Body[e] /\ ~Syncs(e)

\* The insert of an existing slug fails, even if its model is deleted.
Save(e) ==
    \E text \in Prompts(e) : LET s == Of[e]  sent == Sent(e, text) IN
        /\ Verb[e] = "create" => s \notin exists
        /\ Move(e, {"loaded", "let in"}, IF Syncs(e) THEN "saved" ELSE "done")
        /\ exists' = exists \cup {s}
        /\ row' = [row EXCEPT ![s] = IF Verb[e] = "create" THEN sent ELSE Merge(@, Written(e, sent))]
        /\ history' = IF Recorded(e, sent)
                      THEN Append(history, [slug |-> s, text |-> sent.prompt, stamp |-> stamp[e],
                                            save |-> Len(saves) + 1])
                      ELSE history
        /\ saves' = Append(saves, [edit |-> e, sent |-> sent])
        /\ unread' = IF Silent(e) THEN unread \cup {s} ELSE unread
        /\ UNCHANGED <<origins, copy, stamp, clock, fetched, base, reads, ticket, inForce>>

Collide(e) == /\ Verb[e] = "create" /\ Of[e] \in exists
              /\ Move(e, {"loaded", "let in"}, "refused")
              /\ UNCHANGED <<tables, origins, copy, stamp, clock, fetched, ghosts>>
-------------------------------------------------------------------------------
(* sync_origins *)

SyncRead(e) == /\ Move(e, {"saved"}, "read")
               /\ fetched' = [fetched EXCEPT ![e] = Shown]
               /\ reads' = reads + 1
               /\ ticket' = [ticket EXCEPT ![e] = reads']
               /\ unread' = {}
               /\ UNCHANGED <<tables, origins, copy, stamp, clock, saves, base, inForce>>

SyncAssign(e) == /\ Move(e, {"read"}, "done")
                 /\ origins' = fetched[e]
                 /\ inForce' = ticket[e]
                 /\ UNCHANGED <<tables, copy, stamp, clock, fetched, saves, base, reads, ticket, unread>>

\* The refresh or the query fails: 500, after the commit.
SyncFails(e) == /\ Move(e, {"saved"}, "failed")
                /\ unread' = unread \cup {Of[e]}
                /\ UNCHANGED <<tables, origins, copy, stamp, clock, fetched, saves, base, reads, ticket, inForce>>

InFlight == {e \in Edits : place[e] \in {"loaded", "let in", "saved", "read"}}

\* Bound: a restart only while an edit is under way, which is then lost.
Restart == /\ InFlight # {}
           /\ place' = [e \in Edits |-> IF e \in InFlight THEN "lost" ELSE place[e]]
           /\ origins' = Shown
           /\ reads' = reads + 1 /\ inForce' = reads'
           /\ unread' = {}
           /\ UNCHANGED <<tables, copy, stamp, clock, fetched, saves, base, ticket>>

Edit(e) == \/ Load(e) \/ LetInAgain(e) \/ Refused(e) \/ Save(e) \/ Collide(e)
           \/ SyncRead(e) \/ SyncAssign(e) \/ SyncFails(e)

RegistryNext == Restart \/ \E e \in Edits : Edit(e)

RegistrySpec == RegistryInit /\ [][RegistryNext]_gvars
-------------------------------------------------------------------------------
(* Properties *)

\* What DynamicCORSMiddleware finds.
Allowed(map, s) == IF s \in DOMAIN map THEN map[s] ELSE NoOrigins

Settled == \A e \in Edits : place[e] \notin {"saved", "read"}

\* Once nobody is syncing, the map is the table's, unless a PATCH of is_active alone or a
\* failed sync has changed the table since it was last read, or the last to read was not
\* the last to assign: nothing else can leave a browser with the wrong origins.
OriginsExplained ==
    Settled /\ unread = {} /\ inForce = reads =>
        \A s \in Slugs : Allowed(origins, s) = Allowed(Shown, s)

\* cors.py: the map is "updated at startup and on model CRUD".
OriginsCurrent ==
    Settled => \A s \in Slugs : Allowed(origins, s) = Allowed(Shown, s)

\* The parts of a row that edits set: its columns, and the fields of the theme one by one.
Fields == {<<f>> : f \in {"prompt", "origins", "active", "deleted"}}
            \cup {<<"theme", x>> : x \in ThemeFields}

Get(r, part) == IF Len(part) = 1 THEN r[part[1]] ELSE r.theme[part[2]]

\* The saves that touched a column of s, and those that asked for a part of it.
Touching(s, part) == {k \in DOMAIN saves : Of[saves[k].edit] = s /\ part[1] \in DOMAIN saves[k].sent}
Asking(s, part) == {k \in Touching(s, part) :
                      LET e == saves[k].edit IN
                      Verb[e] = "theme" => part[2] \in DOMAIN Body[e].theme}

\* Whoever was the last to ask for a column, or for a field of the theme, gets it, and
\* keeps it whatever other columns are changed by requests that loaded the row before;
\* unless this edit, or a later one of the column, overlapped another one of the column.
LastWordStands ==
    \A s \in Slugs : \A part \in Fields : \A k \in Asking(s, part) :
        \/ \E j \in Asking(s, part) : j > k
        \/ Get(row[s], part) = Get(saves[k].sent, part)
        \/ \E j, i \in Touching(s, part) : j >= k /\ base[saves[j].edit] < i /\ i < j

\* The newest entry of the history (list_system_prompt_history orders by created_at) is
\* the prompt in force, unless the edit behind it and that of another entry overlapped.
HistoryTells ==
    \A k \in DOMAIN history :
        LET h == history[k]
            Others == {i \in DOMAIN history : history[i].slug = h.slug} \ {k}
            Before(i, j) == history[i].save <= base[saves[history[j].save].edit]
        IN  \/ \E i \in Others : history[i].stamp > h.stamp
            \/ row[h.slug].prompt = h.text
            \/ \E i \in Others : ~Before(i, k) /\ ~Before(k, i)
===============================================================================
