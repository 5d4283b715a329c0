---------------------------- MODULE RegistryProofs ----------------------------
(***************************************************************************)
(* The map of CORS origins, for any edits, models and restarts; the API    *)
(* keys of the models, for any keys, callers and owners.                   *)
(***************************************************************************)
EXTENDS Registry, ModelKeys, TLAPS

\* What the map depends on is there, and who has loaded a row has found one.
Kept ==
    /\ row = [s \in Slugs |-> row[s]]
    /\ \A s \in Slugs : {"origins", "active", "deleted"} \subseteq DOMAIN row[s]
    /\ place = [e \in Edits |-> place[e]]
    /\ \A e \in Edits : place[e] \in {"loaded", "let in"} /\ Verb[e] # "create" => Of[e] \in exists

\* Reads are numbered in their order.
Numbered ==
    /\ reads \in Nat /\ inForce \in Nat /\ inForce <= reads
    /\ ticket \in [Edits -> Nat] /\ \A e \in Edits : ticket[e] <= reads
    /\ fetched = [e \in Edits |-> fetched[e]]

Same(map) == \A s \in Slugs : Allowed(map, s) = Allowed(Shown, s)

\* Nothing has changed the map's query since the last read.
Quiet == unread = {} /\ \A e \in Edits : place[e] # "saved"

\* The map of the last read, in force or on its way, is the table's.
LatestTrue ==
    Quiet => /\ inForce = reads => Same(origins)
             /\ \A e \in Edits : place[e] = "read" /\ ticket[e] = reads => Same(fetched[e])

RInv == Kept /\ Numbered /\ LatestTrue

USE RegistryAssumption DEF Verbs, Columns
-------------------------------------------------------------------------------
\* The invariant about the map of origins holds initially.
LEMMA InitR == RegistryInit => RInv
  <1> SUFFICES ASSUME RegistryInit PROVE RInv
    OBVIOUS
  <1> USE DEF RegistryInit
  <1>1. Kept
    <2>1. row = [s \in Slugs |-> row[s]]
      OBVIOUS
    <2>2. \A s \in Slugs : {"origins", "active", "deleted"} \subseteq DOMAIN row[s]
      <3>1. \A s \in Slugs : DOMAIN FirstRow[s] = Columns
        BY RegistryAssumption
      <3>2. row = FirstRow
        OBVIOUS
      <3> HIDE RegistryAssumption DEF RegistryInit
      <3> QED BY <3>1, <3>2
    <2>3. PICK scene \in Scenes : place = [e \in Edits |-> IF e \in scene THEN "new" ELSE "absent"]
      OBVIOUS
    <2>4. \A e \in Edits : place[e] \notin {"loaded", "let in"}
      BY <2>3
    <2>5. place = [e \in Edits |-> place[e]]
      BY <2>3
    <2> QED BY <2>1, <2>2, <2>4, <2>5 DEF Kept
  <1>2. Numbered
    <2>1. ticket = [e \in Edits |-> 0]
      OBVIOUS
    <2>2. fetched = [e \in Edits |-> fetched[e]]
      OBVIOUS
    <2>3. reads = 0 /\ inForce = 0
      OBVIOUS
    <2> HIDE DEF RegistryInit
    <2> QED BY <2>1, <2>2, <2>3 DEF Numbered
  <1>3. LatestTrue
    BY DEF LatestTrue, Same
  <1> QED BY <1>1, <1>2, <1>3 DEF RInv

\* A row that keeps what the query reads is shown as before.
LEMMA ShownKept ==
    ASSUME NEW s \in Slugs, s \in exists, Kept, exists' = exists, NEW r,
           row' = [row EXCEPT ![s] = r],
           r.origins = row[s].origins, r.active = row[s].active, r.deleted = row[s].deleted
    PROVE  Shown' = Shown
  <1>1. \A t \in Slugs : /\ row'[t].origins = row[t].origins
                         /\ row'[t].active = row[t].active
                         /\ row'[t].deleted = row[t].deleted
    BY DEF Kept
  <1>2. \A t \in Slugs : Live(t)' <=> Live(t)
    BY <1>1 DEF Live
  <1>3. {t \in Slugs : Live(t) /\ row[t].active}' = {t \in Slugs : Live(t) /\ row[t].active}
    BY <1>1, <1>2
  <1> QED BY <1>1, <1>3 DEF Shown

\* A model without origins may come into being without a sync.
LEMMA CreateKept ==
    ASSUME NEW s \in Slugs, s \notin exists, Kept, exists' = exists \cup {s}, NEW r,
           row' = [row EXCEPT ![s] = r], r.origins = NoOrigins,
           NEW map, Same(map)
    PROVE  Same(map)'
  <1> SUFFICES ASSUME NEW t \in Slugs PROVE Allowed(map, t) = Allowed(Shown, t)'
    BY DEF Same, Allowed
  <1>1. Allowed(map, t) = Allowed(Shown, t)
    BY DEF Same
  <1>2. CASE t = s
    <2>1. Allowed(Shown, t) = NoOrigins
      BY <1>2 DEF Allowed, Shown, Live
    <2>2. row'[t].origins = NoOrigins
      BY <1>2 DEF Kept
    <2> QED BY <1>1, <2>1, <2>2 DEF Allowed, Shown
  <1>3. CASE t # s
    <2>1. row'[t] = row[t] /\ (t \in exists' <=> t \in exists)
      BY <1>3 DEF Kept
    <2> QED BY <1>1, <2>1 DEF Allowed, Shown, Live
  <1> QED BY <1>2, <1>3

\* Of an edit without a sync that does not hide or show a model, the query reads nothing.
LEMMA WrittenApart ==
    ASSUME NEW e \in Edits, NEW text, Verb[e] # "create", ~Syncs(e), ~Silent(e),
           NEW f \in {"origins", "active", "deleted"}
    PROVE  f \notin DOMAIN Written(e, Sent(e, text))
  <1>1. DOMAIN Written(e, Sent(e, text)) \subseteq DOMAIN Sent(e, text)
    BY DEF Written
  <1>2. Verb[e] \in Verbs
    OBVIOUS
  <1>3. CASE Verb[e] = "patch"
    <2>1. Sent(e, text) = Body[e]
      BY <1>3 DEF Sent
    <2>2. "deleted" \notin DOMAIN Body[e]
      <3>1. DOMAIN Body[e] \subseteq Columns \ {"deleted"}
        BY <1>3
      <3> QED BY <3>1
    <2>3. "origins" \notin DOMAIN Body[e]
      BY <1>3 DEF Syncs
    <2>4. "active" \notin DOMAIN Body[e]
      BY <1>3 DEF Silent
    <2> QED BY <1>1, <2>1, <2>2, <2>3, <2>4
  <1>4. CASE Verb[e] = "theme"
    <2>1. DOMAIN Sent(e, text) = {"theme"}
      BY <1>4 DEF Sent
    <2> QED BY <1>1, <2>1
  <1>5. CASE Verb[e] \in {"accept", "rollback"}
    <2>1. DOMAIN Sent(e, text) = {"prompt"}
      BY <1>5 DEF Sent
    <2> QED BY <1>1, <2>1
  <1>6. CASE Verb[e] = "delete"
    BY <1>6 DEF Syncs
  <1> QED BY <1>2, <1>3, <1>4, <1>5, <1>6

\* A save keeps the invariant about the map.
LEMMA SaveKeeps ==
    ASSUME RInv, NEW e \in Edits, Save(e)
    PROVE  RInv'
  <1> DEFINE s == Of[e]
  <1>0. s \in Slugs
    OBVIOUS
  <1>1. PICK text \in Prompts(e) :
          /\ Verb[e] = "create" => s \notin exists
          /\ row' = [row EXCEPT ![s] = IF Verb[e] = "create" THEN Sent(e, text)
                                       ELSE Merge(@, Written(e, Sent(e, text)))]
    BY DEF Save
  <1>2. /\ place[e] \in {"loaded", "let in"}
        /\ place' = [place EXCEPT ![e] = IF Syncs(e) THEN "saved" ELSE "done"]
        /\ exists' = exists \cup {s}
        /\ unread' = IF Silent(e) THEN unread \cup {s} ELSE unread
        /\ UNCHANGED <<origins, copy, stamp, clock, fetched, base, reads, ticket, inForce>>
    BY DEF Save, Move
  <1> DEFINE r == IF Verb[e] = "create" THEN Sent(e, text)
                  ELSE Merge(row[s], Written(e, Sent(e, text)))
  <1>3. row' = [row EXCEPT ![s] = r]
    BY <1>1
  <1>4. Verb[e] = "create" => DOMAIN r = Columns /\ r = Body[e]
    BY DEF Sent
  <1>5. Verb[e] # "create" => /\ DOMAIN row[s] \subseteq DOMAIN r
                              /\ \A f \in DOMAIN row[s] \ DOMAIN Written(e, Sent(e, text)) : r[f] = row[s][f]
    BY DEF Merge
  <1> HIDE DEF s, r
  <1>6. Numbered'
    BY <1>2 DEF RInv, Numbered
  <1>7. Kept'
    <2>1. row' = [t \in Slugs |-> row'[t]]
      BY <1>3 DEF RInv, Kept
    <2>2. ASSUME NEW t \in Slugs PROVE {"origins", "active", "deleted"} \subseteq DOMAIN row'[t]
      <3>1. CASE t = s
        BY ZenonT(60), <3>1, <1>0, <1>3, <1>4, <1>5 DEF RInv, Kept
      <3>2. CASE t # s
        BY <3>2, <1>3 DEF RInv, Kept
      <3> QED BY <3>1, <3>2
    <2>3. place' = [d \in Edits |-> place'[d]]
      BY <1>2 DEF RInv, Kept
    <2>4. \A d \in Edits : place'[d] \in {"loaded", "let in"} /\ Verb[d] # "create" => Of[d] \in exists'
      BY <1>2 DEF RInv, Kept
    <2> QED BY <2>1, <2>2, <2>3, <2>4 DEF Kept
  <1>8. LatestTrue'
    <2> SUFFICES ASSUME Quiet'
                 PROVE  /\ inForce = reads => Same(origins)'
                        /\ \A d \in Edits : (place[d] = "read")' /\ ticket[d] = reads => Same(fetched[d])'
      BY <1>2 DEF LatestTrue
    <2>1. ~Syncs(e) /\ ~Silent(e)
      BY <1>2 DEF Quiet, RInv, Kept
    <2>2. Quiet
      BY <1>2, <2>1 DEF Quiet, RInv, Kept
    <2>3. /\ inForce = reads => Same(origins)
          /\ \A d \in Edits : (place[d] = "read")' /\ ticket[d] = reads => Same(fetched[d])
      BY <1>2, <2>2 DEF LatestTrue, RInv, Kept
    <2>4. ASSUME NEW map, Same(map) PROVE Same(map)'
      <3>1. CASE Verb[e] = "create"
        <4>1. r.origins = NoOrigins
          BY <3>1, <1>4, <2>1 DEF Syncs
        <4> QED BY <3>1, <4>1, <1>0, <1>1, <1>2, <1>3, <2>4, CreateKept DEF RInv
      <3>2. CASE Verb[e] # "create"
        <4>1. s \in exists
          BY <3>2, <1>2 DEF RInv, Kept, s
        <4>2. r.origins = row[s].origins /\ r.active = row[s].active /\ r.deleted = row[s].deleted
          <5>1. {"origins", "active", "deleted"} \subseteq DOMAIN row[s]
            BY <1>0 DEF RInv, Kept
          <5> QED BY <5>1, <3>2, <1>5, <2>1, WrittenApart
        <4>3. exists' = exists
          <5>1. exists' = exists \cup {s}
            BY <1>2
          <5> QED BY <4>1, <5>1, Zenon
        <4>4. Shown' = Shown
          BY <4>1, <4>2, <4>3, <1>0, <1>3, ShownKept DEF RInv
        <4> QED BY <4>4, <2>4 DEF Same, Allowed
      <3> QED BY <3>1, <3>2
    <2> QED BY <2>3, <2>4, <1>2 DEF Same, Allowed
  <1> QED BY <1>6, <1>7, <1>8 DEF RInv

\* The other steps of an edit leave the tables alone.
LEMMA StepKeeps ==
    ASSUME RInv, [RegistryNext]_gvars
    PROVE  RInv'
  <1> USE DEF RInv
  <1>1. ASSUME UNCHANGED tables, Numbered', LatestTrue', place' = [e \in Edits |-> place'[e]],
               \A e \in Edits : place'[e] \in {"loaded", "let in"} /\ Verb[e] # "create" => Of[e] \in exists
        PROVE  RInv'
    BY <1>1 DEF tables, Kept
  <1>2. ASSUME NEW e \in Edits, Load(e) PROVE RInv'
    <2>1. Numbered'
      BY <1>2 DEF Load, Begin, Move, Numbered
    <2>2. LatestTrue'
      BY <1>2 DEF Load, Begin, Move, LatestTrue, Quiet, Same, Allowed, Shown, Live, tables, Kept
    <2>3. place' = [d \in Edits |-> place'[d]]
      BY <1>2 DEF Load, Move, Kept
    <2>4. \A d \in Edits : place'[d] \in {"loaded", "let in"} /\ Verb[d] # "create" => Of[d] \in exists
      BY <1>2 DEF Load, Move, Kept, Live
    <2> QED BY <1>1, <1>2, <2>1, <2>2, <2>3, <2>4 DEF Load, tables
  <1>3. ASSUME NEW e \in Edits, LetInAgain(e) \/ Refused(e) \/ Collide(e) PROVE RInv'
    <2> USE DEF LetInAgain, Refused, Collide, Begin, Move, ghosts
    <2>0. UNCHANGED <<tables, origins, fetched, reads, ticket, inForce, unread>>
      BY <1>3
    <2>1. Numbered'
      <3> HIDE DEF LetInAgain, Refused, Collide, Begin, Move
      <3> QED BY <2>0 DEF Numbered
    <2>2. LatestTrue'
      <3>2. \A d \in Edits : (place'[d] = "read" <=> place[d] = "read") /\ (place'[d] = "saved" <=> place[d] = "saved")
        BY <1>3 DEF Kept
      <3>3. \A map : Same(map)' <=> Same(map)
        BY <2>0 DEF Same, Allowed, Shown, Live, tables
      <3> HIDE DEF LetInAgain, Refused, Collide, Begin, Move
      <3> QED BY <2>0, <3>2, <3>3 DEF LatestTrue, Quiet
    <2>3. place' = [d \in Edits |-> place'[d]]
      BY <1>3 DEF Kept
    <2>4. \A d \in Edits : place'[d] \in {"loaded", "let in"} /\ Verb[d] # "create" => Of[d] \in exists
      BY <1>3 DEF Kept
    <2> QED BY <1>1, <1>3, <2>1, <2>2, <2>3, <2>4 DEF tables
  <1>4. ASSUME NEW e \in Edits, SyncRead(e) PROVE RInv'
    <2> USE DEF SyncRead, Move
    <2>1. Numbered'
      <3>1. /\ reads' = reads + 1 /\ inForce' = inForce
            /\ ticket' = [ticket EXCEPT ![e] = reads + 1]
            /\ fetched' = [fetched EXCEPT ![e] = Shown]
        BY <1>4
      <3> HIDE DEF SyncRead, Move
      <3>2. fetched' = [d \in Edits |-> fetched'[d]]
        BY <3>1 DEF Numbered
      <3>3. ticket' \in [Edits -> Nat] /\ \A d \in Edits : ticket'[d] <= reads'
        BY <3>1 DEF Numbered
      <3>4. reads' \in Nat /\ inForce' \in Nat /\ inForce' <= reads'
        BY <3>1 DEF Numbered
      <3> QED BY <3>2, <3>3, <3>4 DEF Numbered
    <2>2. LatestTrue'
      <3>1. inForce' # reads' /\ Same(fetched[e])'
        BY <1>4 DEF Numbered, Same, Shown, Live, tables
      <3>2. \A d \in Edits \ {e} : ticket'[d] # reads'
        BY <1>4 DEF Numbered
      <3> QED BY <3>1, <3>2 DEF LatestTrue
    <2>3. place' = [d \in Edits |-> place'[d]]
      BY <1>4 DEF Kept
    <2>4. \A d \in Edits : place'[d] \in {"loaded", "let in"} /\ Verb[d] # "create" => Of[d] \in exists
      BY <1>4 DEF Kept
    <2> QED BY <1>1, <1>4, <2>1, <2>2, <2>3, <2>4 DEF tables
  <1>5. ASSUME NEW e \in Edits, SyncAssign(e) PROVE RInv'
    <2> USE DEF SyncAssign, Move
    <2>1. Numbered'
      BY <1>5 DEF Numbered
    <2>2. LatestTrue'
      BY <1>5 DEF LatestTrue, Quiet, Same, Allowed, Shown, Live, tables, Kept
    <2>3. place' = [d \in Edits |-> place'[d]]
      BY <1>5 DEF Kept
    <2>4. \A d \in Edits : place'[d] \in {"loaded", "let in"} /\ Verb[d] # "create" => Of[d] \in exists
      BY <1>5 DEF Kept
    <2> QED BY <1>1, <1>5, <2>1, <2>2, <2>3, <2>4 DEF tables
  <1>6. ASSUME NEW e \in Edits, SyncFails(e) PROVE RInv'
    <2> USE DEF SyncFails, Move
    <2>1. Numbered'
      BY <1>6 DEF Numbered
    <2>2. LatestTrue'
      BY <1>6 DEF LatestTrue, Quiet
    <2>3. place' = [d \in Edits |-> place'[d]]
      BY <1>6 DEF Kept
    <2>4. \A d \in Edits : place'[d] \in {"loaded", "let in"} /\ Verb[d] # "create" => Of[d] \in exists
      BY <1>6 DEF Kept
    <2> QED BY <1>1, <1>6, <2>1, <2>2, <2>3, <2>4 DEF tables
  <1>7. ASSUME Restart PROVE RInv'
    <2> USE DEF Restart
    <2>1. Numbered'
      BY <1>7 DEF Numbered
    <2>2. LatestTrue'
      <3>1. Same(origins)'
        BY <1>7 DEF Same, Shown, Live, tables
      <3>2. \A d \in Edits : place'[d] # "read"
        BY <1>7 DEF InFlight
      <3> QED BY <3>1, <3>2 DEF LatestTrue
    <2>3. place' = [d \in Edits |-> place'[d]]
      BY <1>7
    <2>4. \A d \in Edits : place'[d] \in {"loaded", "let in"} /\ Verb[d] # "create" => Of[d] \in exists
      BY <1>7 DEF Kept
    <2> QED BY <1>1, <1>7, <2>1, <2>2, <2>3, <2>4 DEF tables
  <1>8. ASSUME UNCHANGED gvars PROVE RInv'
    BY <1>8 DEF gvars, tables, memory, ghosts, Kept, Numbered, LatestTrue, Quiet, Same, Allowed, Shown, Live
  <1> QED BY <1>2, <1>3, <1>4, <1>5, <1>6, <1>7, <1>8, SaveKeeps DEF RegistryNext, Edit
-------------------------------------------------------------------------------
\* The map of CORS origins is the table's once nobody is syncing, for any edits, models and
\* restarts, unless the table was changed without a sync or the syncs were out of order.
THEOREM MapExplained == RegistrySpec => []OriginsExplained
  <1>1. RInv => OriginsExplained
    BY DEF RInv, LatestTrue, Quiet, OriginsExplained, Settled, Same
  <1> QED BY <1>1, InitR, StepKeeps, PTL DEF RegistrySpec
-------------------------------------------------------------------------------
(***************************************************************************)
(* What edits leave behind.  Rows and copies have all their columns; who   *)
(* has saved is past loading; and a copy that is out of date is explained  *)
(* by a save of that column after it was loaded.                           *)
(***************************************************************************)
HIDE RegistryAssumption DEF Verbs, Columns

Rowed(r) == DOMAIN r = Columns /\ DOMAIN r.theme = ThemeFields

SavesOf(s, f) == {k \in DOMAIN saves : Of[saves[k].edit] = s /\ f \in DOMAIN saves[k].sent}

Holds(e) == place[e] \in {"loaded", "let in"} /\ Verb[e] # "create"

CopyExplained(e) ==
    \A f \in Columns : copy[e][f] = row[Of[e]][f] \/ \E i \in SavesOf(Of[e], f) : base[e] < i

Booked ==
    /\ \A s \in Slugs : Rowed(row[s])
    /\ copy = [e \in Edits |-> copy[e]] /\ \A e \in Edits : Rowed(copy[e])
    /\ base \in [Edits -> Nat] /\ \A e \in Edits : base[e] <= Len(saves)
    /\ \E S : saves \in Seq(S)
    /\ \A k \in DOMAIN saves : LET e == saves[k].edit IN
          /\ e \in Edits /\ Of[e] \in exists /\ base[e] < k
          /\ place[e] \in {"saved", "read", "done", "failed", "lost"}
    /\ \A e \in Edits : Holds(e) => CopyExplained(e)

\* What the save of e does to its model: each column sent that differs from the copy is
\* written, and a prompt that is written is recorded.
SavedAs(e, sent, records) == LET s == Of[e] IN
    /\ place[e] \in {"loaded", "let in"}
    /\ saves' = Append(saves, [edit |-> e, sent |-> sent])
    /\ exists' = exists \cup {s}
    /\ DOMAIN sent \subseteq Columns
    /\ "theme" \in DOMAIN sent /\ Verb[e] # "theme" => DOMAIN sent.theme = ThemeFields
    /\ Verb[e] = "theme" =>
          /\ DOMAIN sent = {"theme"} /\ DOMAIN sent.theme = ThemeFields
          /\ \A x \in ThemeFields : sent.theme[x] = IF x \in DOMAIN Body[e].theme THEN Body[e].theme[x]
                                                                              ELSE copy[e].theme[x]
    /\ row' = [row EXCEPT ![s] = row'[s]]
    /\ DOMAIN row'[s] = Columns
    /\ Verb[e] = "create" => s \notin exists /\ row'[s] = sent
    /\ Verb[e] # "create" =>
          \A f \in Columns : row'[s][f] = IF f \in DOMAIN sent /\ sent[f] # copy[e][f]
                                         THEN sent[f] ELSE row[s][f]
    /\ records \in BOOLEAN
    /\ records => Timed(e) /\ "prompt" \in DOMAIN sent /\ Verb[e] # "create"
    /\ Verb[e] # "create" /\ "prompt" \in DOMAIN sent /\ sent.prompt # copy[e].prompt => records
    /\ history' = IF records
                  THEN Append(history, [slug |-> s, text |-> sent.prompt, stamp |-> stamp[e],
                                        save |-> Len(saves) + 1])
                  ELSE history

\* A save writes some columns of one row, books the save, and may append to the history.
LEMMA SaveShape ==
    ASSUME Kept, Booked, NEW e \in Edits, Save(e)
    PROVE  \E sent, records : SavedAs(e, sent, records)
  <1> DEFINE s == Of[e]
  <1>0. s \in Slugs /\ Verb[e] \in Verbs
    BY RegistryAssumption
  <1>1. PICK text \in Prompts(e) :
          /\ Verb[e] = "create" => s \notin exists
          /\ place[e] \in {"loaded", "let in"}
          /\ exists' = exists \cup {s}
          /\ row' = [row EXCEPT ![s] = IF Verb[e] = "create" THEN Sent(e, text)
                                       ELSE Merge(@, Written(e, Sent(e, text)))]
          /\ saves' = Append(saves, [edit |-> e, sent |-> Sent(e, text)])
          /\ history' = IF Recorded(e, Sent(e, text))
                        THEN Append(history, [slug |-> s, text |-> Sent(e, text).prompt,
                                              stamp |-> stamp[e], save |-> Len(saves) + 1])
                        ELSE history
    BY DEF Save, Move
  <1> DEFINE sent == Sent(e, text)
             records == Recorded(e, sent)
  <1>2. DOMAIN sent \subseteq Columns
    BY <1>0, RegistryAssumption DEF Sent, Verbs, Columns
  <1>3. Verb[e] = "theme" =>
          /\ DOMAIN sent = {"theme"} /\ DOMAIN sent.theme = ThemeFields
          /\ \A x \in ThemeFields : sent.theme[x] = IF x \in DOMAIN Body[e].theme THEN Body[e].theme[x]
                                                                              ELSE copy[e].theme[x]
    <2> SUFFICES ASSUME Verb[e] = "theme"
                 PROVE  /\ DOMAIN sent = {"theme"} /\ DOMAIN sent.theme = ThemeFields
                        /\ \A x \in ThemeFields : sent.theme[x] =
                              IF x \in DOMAIN Body[e].theme THEN Body[e].theme[x] ELSE copy[e].theme[x]
      OBVIOUS
    <2>1. sent = [theme |-> Merge(copy[e].theme, Body[e].theme)]
      BY DEF Sent
    <2>2. DOMAIN copy[e].theme = ThemeFields /\ DOMAIN Body[e].theme \subseteq ThemeFields
      BY ThemeAssumption DEF Booked, Rowed
    <2> QED
      BY <2>1, <2>2 DEF Merge
  <1>4. "theme" \in DOMAIN sent /\ Verb[e] # "theme" => DOMAIN sent.theme = ThemeFields
    BY <1>0, ThemeAssumption DEF Sent, Verbs
  <1>5. Verb[e] # "create" => row'[s] = Merge(row[s], Written(e, sent))
    BY <1>0, <1>1 DEF Kept
  <1>6. Verb[e] = "create" => row'[s] = sent /\ DOMAIN sent = Columns
    BY <1>0, <1>1, RegistryAssumption DEF Kept, Sent
  <1>7. Verb[e] # "create" =>
          /\ DOMAIN row'[s] = Columns
          /\ \A f \in Columns : row'[s][f] = IF f \in DOMAIN sent /\ sent[f] # copy[e][f]
                                            THEN sent[f] ELSE row[s][f]
    <2>1. DOMAIN row[s] = Columns
      BY <1>0 DEF Booked, Rowed
    <2> HIDE DEF sent
    <2> QED
      BY <1>2, <1>5, <2>1 DEF Merge, Written
  <1>8. row' = [row EXCEPT ![s] = row'[s]]
    BY <1>0, <1>1 DEF Kept
  <1>9. records \in BOOLEAN
    BY DEF Recorded
  <1>10. records => Timed(e) /\ "prompt" \in DOMAIN sent /\ Verb[e] # "create"
    BY DEF Recorded, Timed, Sent
  <1>11. Verb[e] # "create" /\ "prompt" \in DOMAIN sent /\ sent.prompt # copy[e].prompt => records
    BY <1>0 DEF Recorded, Sent, Verbs
  <1> HIDE DEF sent, records
  <1>12. SavedAs(e, sent, records)
    BY <1>1, <1>2, <1>3, <1>4, <1>6, <1>7, <1>8, <1>9, <1>10, <1>11 DEF SavedAs, sent, records
  <1> QED
    BY <1>12

\* One more at the end of a sequence, and nothing else.
LEMMA Appended ==
    ASSUME NEW S, NEW seq \in Seq(S), NEW x
    PROVE  /\ Append(seq, x) \in Seq(S \cup {x})
           /\ Len(seq) \in Nat /\ DOMAIN seq = 1 .. Len(seq)
           /\ Len(Append(seq, x)) = Len(seq) + 1
           /\ DOMAIN Append(seq, x) = 1 .. Len(seq) + 1
           /\ \A k \in DOMAIN seq : Append(seq, x)[k] = seq[k]
           /\ Append(seq, x)[Len(seq) + 1] = x
  <1> DEFINE T == S \cup {x}
  <1>1. seq \in Seq(T) /\ x \in T
    OBVIOUS
  <1> HIDE DEF T
  <1>2. Append(seq, x) \in Seq(T)
    BY <1>1
  <1>3. Append(seq, x) \in Seq(S \cup {x})
    BY <1>2 DEF T
  <1> QED
    BY <1>1, <1>2, <1>3

\* What the save of e does to saves, and to the saves of each column.
LEMMA SavesGrow ==
    ASSUME Booked, NEW e \in Edits, NEW sent, NEW records, SavedAs(e, sent, records)
    PROVE  /\ Len(saves) \in Nat /\ DOMAIN saves = 1 .. Len(saves)
           /\ Len(saves') = Len(saves) + 1 /\ DOMAIN saves' = 1 .. Len(saves) + 1
           /\ \E S : saves' \in Seq(S)
           /\ \A k \in DOMAIN saves : saves'[k] = saves[k]
           /\ saves'[Len(saves) + 1] = [edit |-> e, sent |-> sent]
           /\ \A s, f : SavesOf(s, f) \subseteq SavesOf(s, f)'
           /\ \A f \in DOMAIN sent : Len(saves) + 1 \in SavesOf(Of[e], f)'
  <1> DEFINE new == [edit |-> e, sent |-> sent]
  <1>1. PICK R : saves \in Seq(R)
    BY DEF Booked
  <1>2. saves' = Append(saves, new)
    BY DEF SavedAs
  <1>3. /\ Len(saves) \in Nat /\ DOMAIN saves = 1 .. Len(saves)
        /\ Len(saves') = Len(saves) + 1 /\ DOMAIN saves' = 1 .. Len(saves) + 1
        /\ \E S : saves' \in Seq(S)
        /\ \A k \in DOMAIN saves : saves'[k] = saves[k]
        /\ saves'[Len(saves) + 1] = new
    <2> HIDE DEF new
    <2>1. saves' \in Seq(R \cup {new})
      BY <1>1, <1>2, Appended
    <2> QED
      BY <1>1, <1>2, <2>1, Appended
  <1>4. \A s, f : SavesOf(s, f) \subseteq SavesOf(s, f)'
    BY <1>3 DEF SavesOf
  <1>5. \A f \in DOMAIN sent : Len(saves) + 1 \in SavesOf(Of[e], f)'
    BY <1>3 DEF SavesOf
  <1> QED
    BY <1>3, <1>4, <1>5

\* Every other step leaves the tables and the saves alone; an edit that does not load its
\* row anew keeps its copy, and who has saved stays past loading.
Elsewhere ==
    /\ UNCHANGED <<exists, row, history, saves>>
    /\ clock' \in Nat /\ clock <= clock'
    /\ \A e \in Edits :
          /\ place[e] \in {"saved", "read", "done", "failed", "lost"} =>
                /\ place'[e] \in {"saved", "read", "done", "failed", "lost"}
                /\ base'[e] = base[e]
          /\ \/ /\ place[e] = "new" /\ copy'[e] = row[Of[e]] /\ base'[e] = Len(saves)
                /\ Timed(e) => stamp'[e] = clock + 1
             \/ /\ copy'[e] = copy[e] /\ base'[e] = base[e]
                /\ Holds(e)' => Holds(e)
                /\ Timed(e) /\ Holds(e)' => stamp'[e] = stamp[e] \/ stamp'[e] = clock + 1
    /\ copy' = [e \in Edits |-> copy'[e]]
    /\ base' = [e \in Edits |-> base'[e]] /\ stamp' = [e \in Edits |-> stamp'[e]]
    /\ \A e \in Edits : stamp'[e] \in Nat /\ stamp'[e] <= clock'

Clocked == clock \in Nat /\ stamp \in [Edits -> Nat] /\ \A e \in Edits : stamp[e] <= clock

\* A step saves, or it leaves the rows, the saves and the history alone.
LEMMA StepShape ==
    ASSUME Kept, Booked, Clocked, [RegistryNext]_gvars
    PROVE  Elsewhere \/ \E e \in Edits : Save(e) /\ UNCHANGED <<copy, stamp, clock, base>>
  <1> DEFINE Past == {"saved", "read", "done", "failed", "lost"}
             Apart(e) == UNCHANGED <<place[e], copy[e], base[e], stamp[e]>>
  <1>a. /\ place = [e \in Edits |-> place[e]] /\ copy = [e \in Edits |-> copy[e]]
        /\ base \in [Edits -> Nat] /\ stamp \in [Edits -> Nat]
    BY DEF Kept, Booked, Clocked
  <1>b. clock \in Nat /\ \A d \in Edits : stamp[d] \in Nat /\ stamp[d] <= clock
    BY DEF Clocked
  <1>1. ASSUME NEW e \in Edits, Load(e) PROVE Elsewhere
    <2>1. /\ UNCHANGED <<exists, row, history, saves>>
          /\ place[e] = "new" /\ \E to \in {"loaded", "refused"} : place' = [place EXCEPT ![e] = to]
          /\ copy' = [copy EXCEPT ![e] = row[Of[e]]]
          /\ base' = [base EXCEPT ![e] = Len(saves)]
          /\ clock' = IF Timed(e) THEN clock + 1 ELSE clock
          /\ stamp' = [stamp EXCEPT ![e] = clock']
      BY <1>1 DEF Load, Begin, Move, tables
    <2>2. clock' \in Nat /\ clock <= clock' /\ (Timed(e) => clock' = clock + 1)
      <3>1. clock' = IF Timed(e) THEN clock + 1 ELSE clock
        BY <2>1
      <3> QED
        BY <1>b, <3>1
    <2>3. \A d \in Edits \ {e} : Apart(d)
      BY <1>a, <2>1
    <2>4. /\ copy'[e] = row[Of[e]] /\ base'[e] = Len(saves) /\ stamp'[e] = clock'
      BY <1>a, <2>1
    <2>5. /\ copy' = [d \in Edits |-> copy'[d]]
          /\ base' = [d \in Edits |-> base'[d]] /\ stamp' = [d \in Edits |-> stamp'[d]]
      BY <1>a, <2>1
    <2>6. \A d \in Edits : stamp'[d] \in Nat /\ stamp'[d] <= clock'
      BY <1>b, <2>2, <2>3, <2>4
    <2> QED
      BY <2>1, <2>2, <2>3, <2>4, <2>5, <2>6 DEF Elsewhere, Holds
  <1>2. ASSUME NEW e \in Edits, LetInAgain(e) PROVE Elsewhere
    <2>1. /\ UNCHANGED <<exists, row, history, saves, copy, base>>
          /\ place[e] = "loaded" /\ place' = [place EXCEPT ![e] = "let in"]
          /\ clock' = IF Timed(e) THEN clock + 1 ELSE clock
          /\ stamp' = [stamp EXCEPT ![e] = clock']
      BY <1>2 DEF LetInAgain, Begin, Move, tables, ghosts
    <2>2. clock' \in Nat /\ clock <= clock' /\ (Timed(e) => clock' = clock + 1)
      <3>1. clock' = IF Timed(e) THEN clock + 1 ELSE clock
        BY <2>1
      <3> QED
        BY <1>b, <3>1
    <2>3. \A d \in Edits \ {e} : Apart(d)
      BY <1>a, <2>1
    <2>4. stamp' = [d \in Edits |-> stamp'[d]] /\ stamp'[e] = clock'
      BY <1>a, <2>1
    <2>5. copy' = [d \in Edits |-> copy'[d]] /\ base' = [d \in Edits |-> base'[d]]
      BY <1>a, <2>1
    <2>6. \A d \in Edits : stamp'[d] \in Nat /\ stamp'[d] <= clock'
      BY <1>b, <2>2, <2>3, <2>4
    <2> QED
      BY <2>1, <2>2, <2>3, <2>4, <2>5, <2>6 DEF Elsewhere, Holds
  <1>3. ASSUME UNCHANGED <<exists, row, history, saves, copy, base, stamp, clock>>,
               \A e \in Edits :
                  /\ place[e] \in Past => place'[e] \in Past
                  /\ place'[e] \in {"loaded", "let in"} => place[e] \in {"loaded", "let in"}
        PROVE  Elsewhere
    <2>0. copy' = copy /\ base' = base /\ stamp' = stamp /\ clock' = clock
      BY <1>3
    <2>1. copy' = [d \in Edits |-> copy'[d]]
      BY <1>a, <2>0
    <2>3. base' = [d \in Edits |-> base'[d]] /\ stamp' = [d \in Edits |-> stamp'[d]]
      BY <1>a, <2>0
    <2>4. /\ clock' \in Nat /\ clock <= clock'
          /\ \A e \in Edits : stamp'[e] \in Nat /\ stamp'[e] <= clock'
      BY <1>a, <1>b, <2>0
    <2>2. \A e \in Edits : copy'[e] = copy[e] /\ base'[e] = base[e] /\ stamp'[e] = stamp[e]
      BY <1>3
    <2> QED
      BY <1>3, <2>1, <2>2, <2>3, <2>4 DEF Elsewhere, Holds
  <1>4. ASSUME NEW e \in Edits, Refused(e) \/ Collide(e) PROVE Elsewhere
    BY <1>a, <1>3, <1>4 DEF Refused, Collide, Move, tables, ghosts
  <1>5. ASSUME NEW e \in Edits, SyncRead(e) \/ SyncAssign(e) \/ SyncFails(e) PROVE Elsewhere
    BY <1>a, <1>3, <1>5 DEF SyncRead, SyncAssign, SyncFails, Move, tables
  <1>6. CASE Restart
    BY <1>a, <1>3, <1>6 DEF Restart, InFlight, tables
  <1>7. ASSUME NEW e \in Edits, Save(e) PROVE UNCHANGED <<copy, stamp, clock, base>>
    BY <1>7 DEF Save
  <1>8. CASE UNCHANGED gvars
    BY <1>3, <1>8 DEF gvars, tables, memory, ghosts
  <1> QED
    BY <1>1, <1>2, <1>4, <1>5, <1>6, <1>7, <1>8 DEF RegistryNext, Edit

\* A row that is saved over keeps all its columns, and the theme all its fields.
LEMMA SavedRowed ==
    ASSUME Kept, Booked, NEW e \in Edits, NEW sent, NEW records, SavedAs(e, sent, records)
    PROVE  \A s \in Slugs : Rowed(row'[s]) /\ (s # Of[e] => row'[s] = row[s])
  <1>0. Of[e] \in Slugs
    BY RegistryAssumption
  <1>1. \A s \in Slugs : Rowed(row[s])
    BY DEF Booked
  <1>2. \A s \in Slugs : s # Of[e] => row'[s] = row[s]
    <2>1. row' = [row EXCEPT ![Of[e]] = row'[Of[e]]] /\ row = [s \in Slugs |-> row[s]]
      BY DEF SavedAs, Kept
    <2> QED
      BY <2>1
  <1>3. Rowed(row'[Of[e]])
    <2>1. DOMAIN row'[Of[e]] = Columns
      BY DEF SavedAs
    <2>2. "theme" \in DOMAIN sent => DOMAIN sent.theme = ThemeFields
      BY DEF SavedAs
    <2>3. CASE Verb[e] = "create"
      BY <2>1, <2>2, <2>3 DEF SavedAs, Rowed, Columns
    <2>4. CASE Verb[e] # "create"
      <3>1. row'[Of[e]].theme = row[Of[e]].theme \/ ("theme" \in DOMAIN sent /\ row'[Of[e]].theme = sent.theme)
        BY <2>4 DEF SavedAs, Columns
      <3> QED
        BY <1>0, <1>1, <2>1, <2>2, <3>1 DEF Rowed
    <2> QED
      BY <2>3, <2>4
  <1> QED
    BY <1>1, <1>2, <1>3

\* A copy that a save leaves behind is explained by this save.
LEMMA CopiesStep ==
    ASSUME Kept, Kept', Booked, NEW e \in Edits, NEW sent, NEW records, SavedAs(e, sent, records),
           UNCHANGED <<copy, base>>,
           NEW d \in Edits, Holds(d), d # e
    PROVE  CopyExplained(d)'
  <1> SUFFICES ASSUME NEW f \in Columns
               PROVE  \/ copy[d][f] = row'[Of[d]][f]
                      \/ \E i \in SavesOf(Of[d], f)' : base[d] < i
    BY DEF CopyExplained
  <1>1. copy[d][f] = row[Of[d]][f] \/ \E i \in SavesOf(Of[d], f) : base[d] < i
    BY DEF Booked, CopyExplained
  <1>2. \A t, g : SavesOf(t, g) \subseteq SavesOf(t, g)'
    BY SavesGrow
  <1>3. CASE row'[Of[d]][f] # row[Of[d]][f]
    <2>1. Of[d] \in Slugs
      BY RegistryAssumption
    <2>2. Of[d] = Of[e]
      BY <1>3, <2>1, SavedRowed
    <2>3. Verb[e] # "create"
      BY <2>2 DEF Holds, Kept, SavedAs
    <2>4. f \in DOMAIN sent
      BY <1>3, <2>2, <2>3 DEF SavedAs
    <2>5. Len(saves) + 1 \in SavesOf(Of[d], f)'
      BY <2>2, <2>4, SavesGrow
    <2>6. base[d] < Len(saves) + 1
      BY SavesGrow DEF Booked
    <2> QED
      BY <2>5, <2>6
  <1> QED
    BY <1>1, <1>2, <1>3

\* A save keeps the books: rows stay rows, and each save was made by a request for its model.
LEMMA BookedSave ==
    ASSUME Kept, Kept', Booked, NEW e \in Edits, Save(e), UNCHANGED <<copy, base>>
    PROVE  Booked'
  <1>1. PICK sent, records : SavedAs(e, sent, records)
    BY SaveShape
  <1> DEFINE n == Len(saves) + 1
  <1>2. \A s \in Slugs : Rowed(row'[s])
    BY <1>1, SavedRowed
  <1>3. copy' = [d \in Edits |-> copy'[d]] /\ \A d \in Edits : Rowed(copy'[d])
    BY DEF Booked
  <1>4. base' \in [Edits -> Nat] /\ \A d \in Edits : base'[d] <= Len(saves')
    <2>1. Len(saves) \in Nat /\ Len(saves') = Len(saves) + 1
      BY <1>1, SavesGrow
    <2>2. base' \in [Edits -> Nat] /\ \A d \in Edits : base'[d] <= Len(saves)
      BY DEF Booked
    <2> QED
      BY <2>1, <2>2
  <1>5. \E S : saves' \in Seq(S)
    BY <1>1, SavesGrow
  <1>6. /\ place[e] \in {"loaded", "let in"}
        /\ place' = [place EXCEPT ![e] = IF Syncs(e) THEN "saved" ELSE "done"]
        /\ exists' = exists \cup {Of[e]}
    BY DEF Save, Move
  <1>7. ASSUME NEW k \in DOMAIN saves'
        PROVE  LET d == saves'[k].edit IN
               /\ d \in Edits /\ Of[d] \in exists' /\ base'[d] < k
               /\ place'[d] \in {"saved", "read", "done", "failed", "lost"}
    <2>1. CASE k \in DOMAIN saves
      <3>1. saves'[k] = saves[k]
        BY <1>1, <2>1, SavesGrow
      <3> QED
        BY <1>6, <2>1, <3>1 DEF Booked, Kept
    <2>2. CASE k \notin DOMAIN saves
      <3>0. Len(saves) \in Nat /\ k \in 1 .. n /\ k \notin 1 .. Len(saves)
        BY <1>1, <2>2, SavesGrow
      <3>1. k = n /\ n \in Nat
        BY <3>0
      <3>4. saves'[k].edit = e
        <4>1. saves'[k] = [edit |-> e, sent |-> sent]
          BY <1>1, <3>1, SavesGrow
        <4> QED
          BY <4>1
      <3>2. base'[e] < n
        BY <1>1, SavesGrow DEF Booked
      <3>3. place'[e] \in {"saved", "done"}
        BY <1>6 DEF Kept
      <3> QED
        BY <1>6, <3>1, <3>2, <3>3, <3>4
    <2> QED
      BY <2>1, <2>2
  <1>8. ASSUME NEW d \in Edits, Holds(d)' PROVE CopyExplained(d)'
    <2>1. d # e /\ Holds(d)
      BY <1>6, <1>8 DEF Holds, Kept
    <2> QED
      BY <1>1, <2>1, CopiesStep
  <1> QED
    BY <1>2, <1>3, <1>4, <1>5, <1>7, <1>8 DEF Booked

\* A step that does not save keeps the books.
LEMMA BookedElsewhere ==
    ASSUME Kept, Kept', Booked, Elsewhere
    PROVE  Booked'
  <1>1. \A s \in Slugs : Rowed(row'[s])
    BY DEF Booked, Elsewhere
  <1>2. copy' = [d \in Edits |-> copy'[d]] /\ \A d \in Edits : Rowed(copy'[d])
    <2>1. \A d \in Edits : Of[d] \in Slugs
      BY RegistryAssumption
    <2> QED
      BY <2>1 DEF Booked, Elsewhere
  <1>3. base' \in [Edits -> Nat] /\ \A d \in Edits : base'[d] <= Len(saves')
    <2>1. Len(saves) \in Nat
      <3>1. PICK S : saves \in Seq(S)
        BY DEF Booked
      <3> QED
        BY <3>1
    <2>2. \A d \in Edits : base'[d] \in Nat /\ base'[d] <= Len(saves)
      BY <2>1 DEF Booked, Elsewhere
    <2>3. base' = [d \in Edits |-> base'[d]] /\ saves' = saves
      BY DEF Elsewhere
    <2> QED
      BY <2>2, <2>3
  <1>4. saves' = saves /\ \E S : saves' \in Seq(S)
    BY DEF Booked, Elsewhere
  <1>5. \A k \in DOMAIN saves' : LET d == saves'[k].edit IN
          /\ d \in Edits /\ Of[d] \in exists' /\ base'[d] < k
          /\ place'[d] \in {"saved", "read", "done", "failed", "lost"}
    BY DEF Booked, Elsewhere
  <1>6. ASSUME NEW d \in Edits, Holds(d)' PROVE CopyExplained(d)'
    <2>1. row' = row /\ saves' = saves
      BY DEF Elsewhere
    <2>2. CASE copy'[d] = row[Of[d]]
      BY <2>1, <2>2 DEF CopyExplained
    <2>3. CASE copy'[d] # row[Of[d]]
      <3>1. copy'[d] = copy[d] /\ base'[d] = base[d] /\ Holds(d)
        BY <1>6, <2>3 DEF Elsewhere
      <3>2. CopyExplained(d)
        BY <3>1 DEF Booked
      <3> QED
        BY <2>1, <3>1, <3>2 DEF CopyExplained, SavesOf
    <2> QED
      BY <2>2, <2>3
  <1> QED
    BY <1>1, <1>2, <1>3, <1>4, <1>5, <1>6 DEF Booked

\* A part of a row is a column or a field of its theme.
LEMMA PartShape ==
    ASSUME NEW part \in Fields
    PROVE  /\ part[1] \in Columns
           /\ \/ part[1] # "theme" /\ \A r : Get(r, part) = r[part[1]]
              \/ part[1] = "theme" /\ part[2] \in ThemeFields /\ \A r : Get(r, part) = r.theme[part[2]]
  <1>1. CASE \E f \in {"prompt", "origins", "active", "deleted"} : part = <<f>>
    BY <1>1 DEF Get, Columns
  <1>2. CASE \E x \in ThemeFields : part = <<"theme", x>>
    BY <1>2 DEF Get, Columns
  <1> QED
    BY <1>1, <1>2 DEF Fields

\* The save of e gives a part it asks for its value, and leaves one it does not ask for
\* alone, unless its copy of the column was out of date.
LEMMA PartSaved ==
    ASSUME Kept, Booked, NEW e \in Edits, NEW sent, NEW records, SavedAs(e, sent, records),
           NEW part \in Fields, CopyExplained(e) \/ Verb[e] = "create",
           ~ \E i \in SavesOf(Of[e], part[1]) : base[e] < i
    PROVE  LET asks == /\ part[1] \in DOMAIN sent
                       /\ Verb[e] = "theme" => part[2] \in DOMAIN Body[e].theme
           IN  Get(row'[Of[e]], part) = IF asks \/ Verb[e] = "create" THEN Get(sent, part)
                                                                     ELSE Get(row[Of[e]], part)
  <1> DEFINE f == part[1]
             r == row[Of[e]]
             asks == /\ f \in DOMAIN sent
                     /\ Verb[e] = "theme" => part[2] \in DOMAIN Body[e].theme
  <1>0. f \in Columns /\ Rowed(copy[e]) /\ Of[e] \in Slugs
    BY PartShape, RegistryAssumption DEF Booked
  <1>1. CASE Verb[e] = "create"
    BY <1>1 DEF SavedAs
  <1>2. CASE Verb[e] # "create"
    <2>1. copy[e][f] = r[f]
      BY <1>0, <1>2 DEF CopyExplained
    <2>2. row'[Of[e]][f] = IF f \in DOMAIN sent THEN sent[f] ELSE r[f]
      BY <1>0, <1>2, <2>1 DEF SavedAs
    <2>3. CASE f # "theme" /\ \A q : Get(q, part) = q[f]
      <3>1. asks \/ f \notin DOMAIN sent
        BY ZenonT(60), <2>3 DEF SavedAs
      <3> QED
        BY <1>2, <2>2, <2>3, <3>1
    <2>4. CASE f = "theme" /\ part[2] \in ThemeFields /\ \A q : Get(q, part) = q.theme[part[2]]
      <3>1. CASE f \notin DOMAIN sent \/ asks
        BY <1>2, <2>2, <2>4, <3>1
      <3>2. CASE f \in DOMAIN sent /\ ~asks
        <4>1. sent.theme[part[2]] = copy[e].theme[part[2]]
          BY <2>4, <3>2 DEF SavedAs
        <4> QED
          BY <1>2, <2>1, <2>2, <2>4, <3>2, <4>1
      <3> QED
        BY <3>1, <3>2
    <2> QED
      BY <2>3, <2>4, PartShape
  <1> QED
    BY <1>1, <1>2

\* A save keeps the last words, and what it asks for is the newest of them.
LEMMA LastWordSave ==
    ASSUME Kept, Kept', Booked, LastWordStands, NEW e \in Edits, Save(e), UNCHANGED <<copy, base>>
    PROVE  LastWordStands'
  <1>1. PICK sent, records : SavedAs(e, sent, records)
    BY SaveShape
  <1> DEFINE n == Len(saves) + 1
  <1>2. /\ Len(saves) \in Nat /\ DOMAIN saves = 1 .. Len(saves) /\ DOMAIN saves' = 1 .. n
        /\ \A k \in DOMAIN saves : saves'[k] = saves[k]
        /\ saves'[n] = [edit |-> e, sent |-> sent]
    BY <1>1, SavesGrow
  <1>3. saves'[n].edit = e /\ saves'[n].sent = sent
    BY <1>2
  <1>4. CopyExplained(e) \/ Verb[e] = "create"
    BY <1>1 DEF SavedAs, Booked, Holds
  <1> SUFFICES ASSUME NEW s \in Slugs, NEW part \in Fields, NEW k \in Asking(s, part)',
                      \A j \in Asking(s, part)' : ~(j > k),
                      ~ \E j, i \in Touching(s, part)' : j >= k /\ base[saves'[j].edit] < i /\ i < j
               PROVE  Get(row'[s], part) = Get(saves'[k].sent, part)
    BY DEF LastWordStands
  <1>5. \A t, q : /\ Touching(t, q) \subseteq Touching(t, q)' /\ Asking(t, q) \subseteq Asking(t, q)'
                  /\ Touching(t, q) = SavesOf(t, q[1])
    BY <1>2 DEF Touching, Asking, SavesOf
  <1>6. k \in 1 .. n /\ (k = n \/ k \in Asking(s, part))
    BY <1>2 DEF Asking, Touching
  <1>7. k \in Asking(s, part) => Get(row[s], part) = Get(saves[k].sent, part)
    <2> SUFFICES ASSUME k \in Asking(s, part) PROVE Get(row[s], part) = Get(saves[k].sent, part)
      OBVIOUS
    <2>1. \A j \in Asking(s, part) : ~(j > k)
      BY <1>5
    <2>2. ~ \E j, i \in Touching(s, part) : j >= k /\ base[saves[j].edit] < i /\ i < j
      <3>1. \A j \in Touching(s, part) : saves'[j] = saves[j]
        BY <1>2 DEF Touching
      <3> QED
        BY <1>5, <3>1
    <2> QED
      BY <2>1, <2>2 DEF LastWordStands
  <1>8. CASE Of[e] # s
    <2>1. k # n
      BY <1>3, <1>8 DEF Asking, Touching
    <2>2. saves'[k] = saves[k] /\ row'[s] = row[s]
      BY <1>1, <1>2, <1>6, <1>8, <2>1, SavedRowed
    <2> QED
      BY <1>6, <1>7, <2>1, <2>2
  <1>9. CASE Of[e] = s
    <2> DEFINE asks == /\ part[1] \in DOMAIN sent
                       /\ Verb[e] = "theme" => part[2] \in DOMAIN Body[e].theme
    <2>1. n \in Touching(s, part)' <=> part[1] \in DOMAIN sent
      BY <1>2, <1>3, <1>9 DEF Touching
    <2>2. n \in Asking(s, part)' <=> asks
      BY <1>3, <2>1 DEF Asking
    <2>3. part[1] \in DOMAIN sent => ~ \E i \in SavesOf(Of[e], part[1]) : base[e] < i
      <3> SUFFICES ASSUME part[1] \in DOMAIN sent, NEW i \in SavesOf(Of[e], part[1]), base[e] < i
                   PROVE  FALSE
        OBVIOUS
      <3>1. i \in Touching(s, part)' /\ i < n
        BY <1>2, <1>5, <1>9 DEF SavesOf
      <3>2. n \in Touching(s, part)' /\ n >= k
        BY <1>2, <1>6, <2>1
      <3> QED
        BY <1>3, <3>1, <3>2
    <2>4. CASE k = n
      <3>1. asks
        BY <2>2, <2>4
      <3>2. Get(row'[Of[e]], part) = Get(sent, part)
        BY <1>1, <1>4, <2>3, <3>1, PartSaved
      <3> QED
        BY <1>3, <1>9, <2>4, <3>2
    <2>5. CASE k # n
      <3>1. k \in Asking(s, part) /\ saves'[k] = saves[k] /\ ~(n <= k)
        BY <1>2, <1>6, <2>5
      <3>2. ~asks
        <4>1. n > k
          BY <1>2, <1>6, <2>5
        <4> HIDE DEF n, asks
        <4> QED
          BY <2>2, <4>1
      <3>3. Verb[e] # "create"
        <4>1. Of[saves[k].edit] \in exists /\ Of[saves[k].edit] = s
          BY <3>1 DEF Booked, Asking, Touching
        <4> QED
          BY <1>1, <1>9, <4>1 DEF SavedAs
      <3>4. Get(row'[s], part) = Get(row[s], part)
        <4>1. CASE part[1] \in DOMAIN sent
          BY <1>1, <1>4, <1>9, <2>3, <3>2, <3>3, <4>1, PartSaved
        <4>2. CASE part[1] \notin DOMAIN sent
          <5>1. row'[s][part[1]] = row[s][part[1]]
            BY <1>1, <1>9, <3>3, <4>2, PartShape DEF SavedAs
          <5>2. CASE \A r : Get(r, part) = r[part[1]]
            BY <5>1, <5>2
          <5>3. CASE part[1] = "theme" /\ \A r : Get(r, part) = r.theme[part[2]]
            BY <5>1, <5>3
          <5> QED
            BY <5>2, <5>3, PartShape
        <4> QED
          BY <4>1, <4>2
      <3> QED
        BY <1>7, <3>1, <3>4
    <2> QED
      BY <2>4, <2>5
  <1> QED
    BY <1>8, <1>9

\* A step that does not save changes no word.
LEMMA LastWordElsewhere ==
    ASSUME Booked, LastWordStands, Elsewhere
    PROVE  LastWordStands'
  <1>1. row' = row /\ saves' = saves
    BY DEF Elsewhere
  <1>2. \A k \in DOMAIN saves : base'[saves[k].edit] = base[saves[k].edit]
    BY DEF Booked, Elsewhere
  <1>3. \A s, part : Touching(s, part)' = Touching(s, part) /\ Asking(s, part)' = Asking(s, part)
    BY <1>1 DEF Touching, Asking
  <1>4. \A s, part : Touching(s, part) \subseteq DOMAIN saves
    BY DEF Touching
  <1> QED
    BY <1>1, <1>2, <1>3, <1>4 DEF LastWordStands
-------------------------------------------------------------------------------
(***************************************************************************)
(* The history of prompts.  An entry is older than the transaction of any  *)
(* edit that loaded its row after the entry's save, and a prompt that      *)
(* differs from a copy of the row has an entry the copy does not know of.  *)
(***************************************************************************)
Unknown(i, e) == history[i].slug = Of[e] /\ base[e] < history[i].save

Chronicled ==
    /\ \E S : history \in Seq(S)
    /\ \A k \in DOMAIN history : LET h == history[k] IN
          /\ h.save \in DOMAIN saves /\ h.slug = Of[saves[h.save].edit]
          /\ h.stamp \in Nat /\ h.stamp <= clock
    /\ \A e \in Edits : Holds(e) =>
          /\ Timed(e) => \A k \in DOMAIN history :
                            history[k].save <= base[e] => history[k].stamp < stamp[e]
          /\ copy[e].prompt = row[Of[e]].prompt \/ \E i \in DOMAIN history : Unknown(i, e)

\* What the save of e adds to the history.
LEMMA HistoryGrows ==
    ASSUME Booked, Chronicled, Clocked,
           NEW e \in Edits, NEW sent, NEW records, SavedAs(e, sent, records)
    PROVE  LET m == Len(history) + 1 IN
           /\ Len(history) \in Nat /\ DOMAIN history = 1 .. Len(history)
           /\ \E S : history' \in Seq(S)
           /\ \A k \in DOMAIN history : k \in DOMAIN history' /\ history'[k] = history[k]
           /\ ~records => history' = history
           /\ records =>
                 /\ DOMAIN history' = 1 .. m
                 /\ history'[m].slug = Of[e] /\ history'[m].text = sent.prompt
                 /\ history'[m].stamp = stamp[e] /\ history'[m].save = Len(saves) + 1
  <1> DEFINE new == [slug |-> Of[e], text |-> sent.prompt, stamp |-> stamp[e], save |-> Len(saves) + 1]
  <1>1. PICK S : history \in Seq(S)
    BY DEF Chronicled
  <1>2. history' = IF records THEN Append(history, new) ELSE history
    BY DEF SavedAs
  <1>3. records \in BOOLEAN
    BY DEF SavedAs
  <1>4. /\ new.slug = Of[e] /\ new.text = sent.prompt
        /\ new.stamp = stamp[e] /\ new.save = Len(saves) + 1
    OBVIOUS
  <1> HIDE DEF new
  <1>5. Len(history) \in Nat /\ DOMAIN history = 1 .. Len(history)
    BY <1>1
  <1>6. CASE records
    <2>1. history' = Append(history, new)
      BY <1>2, <1>6
    <2>2. history' \in Seq(S \cup {new})
      BY <1>1, <2>1, Appended
    <2>3. /\ DOMAIN history' = 1 .. Len(history) + 1
          /\ \A k \in DOMAIN history : history'[k] = history[k]
          /\ history'[Len(history) + 1] = new
      BY <1>1, <2>1, Appended
    <2> QED
      BY <1>4, <1>5, <1>6, <2>2, <2>3
  <1>7. CASE ~records
    BY <1>1, <1>2, <1>5, <1>7
  <1> QED
    BY <1>3, <1>6, <1>7

\* The prompt of a row changes only with an entry; of a new row there is none yet.
LEMMA PromptKept ==
    ASSUME Kept, Booked, NEW e \in Edits, NEW sent, NEW records, SavedAs(e, sent, records),
           NEW s \in Slugs, s \in exists
    PROVE  /\ s # Of[e] \/ ~records => row'[s].prompt = row[s].prompt
           /\ s = Of[e] => \/ row'[s].prompt = sent.prompt /\ records
                           \/ row'[s].prompt = row[s].prompt /\ (records => sent.prompt = copy[e].prompt)
  <1>1. CASE s # Of[e]
    BY <1>1, SavedRowed
  <1>2. CASE s = Of[e]
    <2>1. Verb[e] # "create" /\ "prompt" \in Columns
      BY <1>2 DEF SavedAs, Columns
    <2>2. row'[s].prompt = IF "prompt" \in DOMAIN sent /\ sent.prompt # copy[e].prompt
                          THEN sent.prompt ELSE row[s].prompt
      BY <1>2, <2>1 DEF SavedAs
    <2>3. "prompt" \in DOMAIN sent /\ sent.prompt # copy[e].prompt => records
      BY <2>1 DEF SavedAs
    <2>4. records => "prompt" \in DOMAIN sent
      BY DEF SavedAs
    <2> QED
      BY <1>2, <2>2, <2>3, <2>4
  <1> QED
    BY <1>1, <1>2

\* An entry a save appends points back at the save, and is stamped by its clock.
LEMMA ChronicledSave ==
    ASSUME Kept, Kept', Booked, Chronicled, Clocked,
           NEW e \in Edits, Save(e), UNCHANGED <<copy, base, stamp, clock>>
    PROVE  Chronicled'
  <1>1. PICK sent, records : SavedAs(e, sent, records)
    BY SaveShape
  <1> DEFINE n == Len(saves) + 1
             m == Len(history) + 1
  <1>2. /\ Len(saves) \in Nat /\ DOMAIN saves = 1 .. Len(saves) /\ DOMAIN saves' = 1 .. n
        /\ \A k \in DOMAIN saves : saves'[k] = saves[k]
        /\ saves'[n].edit = e
    <2>1. saves'[n] = [edit |-> e, sent |-> sent]
      BY <1>1, SavesGrow
    <2>2. saves'[n].edit = e
      BY <2>1
    <2> HIDE DEF n
    <2>3. DOMAIN saves' = 1 .. n
      BY <1>1, SavesGrow DEF n
    <2> QED
      BY <1>1, <2>2, <2>3, SavesGrow
  <1>3. /\ Len(history) \in Nat /\ DOMAIN history = 1 .. Len(history)
        /\ \E S : history' \in Seq(S)
        /\ \A k \in DOMAIN history : k \in DOMAIN history' /\ history'[k] = history[k]
        /\ ~records => history' = history
        /\ records =>
              /\ DOMAIN history' = 1 .. m
              /\ history'[m].slug = Of[e] /\ history'[m].text = sent.prompt
              /\ history'[m].stamp = stamp[e] /\ history'[m].save = n
    BY <1>1, HistoryGrows
  <1>4. n \in Nat /\ n > Len(saves) /\ m \in Nat \ {0} /\ m \notin DOMAIN history
    BY <1>2, <1>3
  <1>5. stamp[e] \in Nat /\ clock \in Nat
    BY DEF Clocked
  <1> HIDE DEF n, m
  <1>6. \A k \in DOMAIN history' : k \in DOMAIN history \/ (records /\ k = m)
    <2>1. records \in BOOLEAN
      BY <1>1 DEF SavedAs
    <2>2. CASE records
      BY <1>3, <2>2 DEF m
    <2>3. CASE ~records
      BY <1>3, <2>3
    <2> QED
      BY <2>1, <2>2, <2>3
  <1>7. \A d \in Edits : base[d] < n
    BY <1>2, <1>4 DEF Booked
  <1>8. \A d \in Edits : Holds(d)' => Holds(d) /\ d # e
    <2>1. place' = [place EXCEPT ![e] = IF Syncs(e) THEN "saved" ELSE "done"]
      BY DEF Save, Move
    <2> QED
      BY <2>1 DEF Holds, Kept
  <1>9. ASSUME NEW d \in Edits, Holds(d)'
        PROVE  copy[d].prompt = row'[Of[d]].prompt \/ \E i \in DOMAIN history' : Unknown(i, d)'
    <2>1. Of[d] \in Slugs /\ Of[d] \in exists
      BY <1>8, <1>9, RegistryAssumption DEF Kept, Holds
    <2>2. CASE row'[Of[d]].prompt = row[Of[d]].prompt
      BY <1>3, <1>8, <1>9, <2>2 DEF Chronicled, Unknown
    <2>3. CASE row'[Of[d]].prompt # row[Of[d]].prompt
      <3>1. records /\ Of[d] = Of[e]
        BY <1>1, <2>1, <2>3, PromptKept
      <3>2. m \in DOMAIN history' /\ history'[m].slug = Of[d] /\ base'[d] < history'[m].save
        BY <1>3, <1>4, <1>7, <3>1
      <3> QED
        BY <3>2 DEF Unknown
    <2> QED
      BY <2>2, <2>3
  <1>10. ASSUME NEW d \in Edits, Holds(d)', Timed(d), NEW k \in DOMAIN history',
                history'[k].save <= base[d]
         PROVE  history'[k].stamp < stamp[d]
    <2>1. k # m \/ ~records
      <3>1. base[d] \in Nat /\ base[d] < n
        BY <1>7 DEF Booked
      <3> QED
        BY <1>3, <1>4, <1>10, <3>1
    <2>2. k \in DOMAIN history /\ history'[k] = history[k]
      BY <1>3, <1>6, <2>1
    <2> QED
      BY <1>8, <1>10, <2>2 DEF Chronicled
  <1>11. ASSUME NEW k \in DOMAIN history'
         PROVE  LET h == history'[k] IN
                /\ h.save \in DOMAIN saves' /\ h.slug = Of[saves'[h.save].edit]
                /\ h.stamp \in Nat /\ h.stamp <= clock'
    <2>1. CASE k \in DOMAIN history
      BY SMTT(30), <1>2, <1>3, <1>4, <2>1 DEF Chronicled, n
    <2>2. CASE records /\ k = m
      <3>1. stamp[e] <= clock
        BY DEF Clocked
      <3> QED
        BY <1>2, <1>3, <1>4, <1>5, <2>2, <3>1
    <2> QED
      BY <1>6, <2>1, <2>2
  <1> QED
    BY <1>3, <1>9, <1>10, <1>11 DEF Chronicled

\* A save that changes a prompt records it, so the history still tells.
LEMMA HistoryTellsSave ==
    ASSUME Kept, Kept', Booked, Chronicled, Clocked, HistoryTells,
           NEW e \in Edits, Save(e), UNCHANGED <<copy, base, stamp, clock>>
    PROVE  HistoryTells'
  <1>1. PICK sent, records : SavedAs(e, sent, records)
    BY SaveShape
  <1> DEFINE n == Len(saves) + 1
             m == Len(history) + 1
             E(k) == saves'[history'[k].save].edit
             Before(i, j) == history'[i].save <= base[E(j)]
             Others(k) == {i \in DOMAIN history' : history'[i].slug = history'[k].slug} \ {k}
  <1>2. \A k \in DOMAIN saves : saves'[k] = saves[k] /\ k < n
    <2>1. \A k \in DOMAIN saves : saves'[k] = saves[k]
      BY <1>1, SavesGrow
    <2>2. DOMAIN saves = 1 .. Len(saves) /\ Len(saves) \in Nat
      BY <1>1, SavesGrow
    <2> QED
      BY <2>1, <2>2
  <1>3. saves'[n].edit = e /\ n \in Nat /\ \A d \in Edits : base[d] \in Nat /\ base[d] < n
    <2>1. saves'[n] = [edit |-> e, sent |-> sent] /\ Len(saves) \in Nat
      BY <1>1, SavesGrow
    <2>2. \A d \in Edits : base[d] \in Nat /\ base[d] <= Len(saves)
      BY DEF Booked
    <2>3. saves'[n].edit = e
      BY <2>1
    <2> QED
      BY <2>1, <2>2, <2>3
  <1>4. /\ Len(history) \in Nat /\ DOMAIN history = 1 .. Len(history)
        /\ \A k \in DOMAIN history : k \in DOMAIN history' /\ history'[k] = history[k]
        /\ ~records => history' = history
        /\ records =>
              /\ DOMAIN history' = 1 .. m
              /\ history'[m].slug = Of[e] /\ history'[m].text = sent.prompt
              /\ history'[m].stamp = stamp[e] /\ history'[m].save = n
    BY <1>1, HistoryGrows
  <1>5. m \in Nat \ {0} /\ m \notin DOMAIN history /\ records \in BOOLEAN
    <2>1. records \in BOOLEAN
      BY <1>1 DEF SavedAs
    <2> QED
      BY <1>4, <2>1
  <1>6. \A k \in DOMAIN history' : k \in DOMAIN history \/ (records /\ k = m)
    <2>1. CASE records
      BY <1>4, <2>1
    <2>2. CASE ~records
      BY <1>4, <2>2
    <2> QED
      BY <1>5, <2>1, <2>2
  <1> HIDE DEF n, m
  <1>7. \A k \in DOMAIN history :
          /\ history[k].save \in DOMAIN saves /\ E(k) = saves[history[k].save].edit
          /\ history[k].slug = Of[E(k)] /\ E(k) \in Edits /\ history[k].slug \in exists
          /\ history[k].slug \in Slugs /\ history[k].save < n /\ history[k].save \in Nat
    <2>1. DOMAIN saves \subseteq Nat
      BY <1>1, SavesGrow
    <2> QED
      BY <1>2, <1>4, <2>1, RegistryAssumption DEF Chronicled, Booked
  <1> SUFFICES ASSUME NEW k \in DOMAIN history'
               PROVE  \/ \E i \in Others(k) : history'[i].stamp > history'[k].stamp
                      \/ row'[history'[k].slug].prompt = history'[k].text
                      \/ \E i \in Others(k) : ~Before(i, k) /\ ~Before(k, i)
    BY DEF HistoryTells
  <1>8. CASE records /\ k = m
    <2>1. E(m) = e /\ history'[m].slug = Of[e]
      BY <1>3, <1>4, <1>8
    <2>2. Verb[e] # "create" /\ Of[e] \in Slugs /\ Of[e] \in exists /\ Holds(e)
      BY <1>1, <1>8, RegistryAssumption DEF SavedAs, Holds, Kept
    <2>3. CASE row'[Of[e]].prompt = sent.prompt
      BY <1>4, <1>8, <2>1, <2>3
    <2>4. CASE row'[Of[e]].prompt # sent.prompt
      <3>1. row'[Of[e]].prompt = row[Of[e]].prompt /\ sent.prompt = copy[e].prompt
        <4>1. \/ row'[Of[e]].prompt = sent.prompt /\ records
              \/ row'[Of[e]].prompt = row[Of[e]].prompt /\ (records => sent.prompt = copy[e].prompt)
          BY <1>1, <2>2, PromptKept
        <4> QED
          BY <1>8, <2>4, <4>1
      <3>2. PICK i \in DOMAIN history : Unknown(i, e)
        BY <2>2, <2>4, <3>1 DEF Chronicled
      <3>3. i \in Others(k)
        BY <1>4, <1>5, <1>8, <2>1, <3>2 DEF Unknown
      <3>4. ~Before(i, m)
        BY <1>3, <1>4, <1>7, <2>1, <3>2 DEF Unknown
      <3>5. ~Before(m, i)
        BY <1>3, <1>4, <1>7, <1>8
      <3> QED
        BY <1>8, <3>3, <3>4, <3>5
    <2> QED
      BY <2>3, <2>4
  <1>9. CASE k \in DOMAIN history
    <2>1. history'[k] = history[k]
      BY <1>4, <1>9
    <2>2. CASE records /\ history[k].slug = Of[e]
      <3>1. m \in Others(k) /\ E(m) = e
        BY <1>3, <1>4, <1>5, <1>9, <2>1, <2>2
      <3>2. ~Before(m, k)
        BY <1>3, <1>4, <1>7, <1>9, <2>1, <2>2
      <3>3. CASE Before(k, m)
        <4>1. Verb[e] # "create" /\ Holds(e) /\ Timed(e)
          BY <1>1, <2>2 DEF SavedAs, Holds
        <4>2. history[k].stamp < stamp[e]
          BY <1>9, <2>1, <3>1, <3>3, <4>1 DEF Chronicled
        <4>3. history'[m].stamp > history'[k].stamp
          BY <1>4, <1>9, <2>1, <2>2, <4>2 DEF Chronicled, Clocked
        <4> QED
          BY <3>1, <4>3
      <3> QED
        BY <3>1, <3>2, <3>3
    <2>3. CASE ~records \/ history[k].slug # Of[e]
      <3>1. row'[history[k].slug].prompt = row[history[k].slug].prompt
        BY <1>1, <1>7, <1>9, <2>3, PromptKept
      <3> DEFINE Others0 == {i \in DOMAIN history : history[i].slug = history[k].slug} \ {k}
                 Before0(i, j) == history[i].save <= base[saves[history[j].save].edit]
      <3>2. \A i \in Others0 : i \in Others(k) /\ history'[i] = history[i]
        BY <1>4, <2>1
      <3>3. \A i, j \in DOMAIN history : Before(i, j) <=> Before0(i, j)
        BY <1>4, <1>7
      <3>4. \/ \E i \in Others0 : history[i].stamp > history[k].stamp
            \/ row[history[k].slug].prompt = history[k].text
            \/ \E i \in Others0 : ~Before0(i, k) /\ ~Before0(k, i)
        BY <1>9 DEF HistoryTells
      <3> QED
        BY <1>9, <2>1, <3>1, <3>2, <3>3, <3>4
    <2> QED
      BY <1>5, <2>2, <2>3
  <1> QED
    BY <1>6, <1>8, <1>9

\* A step that does not save leaves history and prompts as they were.
LEMMA HistoryElsewhere ==
    ASSUME Kept, Kept', Booked, Clocked, Chronicled, HistoryTells, Elsewhere
    PROVE  Clocked' /\ Chronicled' /\ HistoryTells'
  <1>1. /\ row' = row /\ saves' = saves /\ history' = history
        /\ clock \in Nat /\ clock' \in Nat /\ clock <= clock'
    BY DEF Elsewhere, Clocked
  <1>2. Clocked'
    <2>1. stamp' = [d \in Edits |-> stamp'[d]] /\ \A d \in Edits : stamp'[d] \in Nat /\ stamp'[d] <= clock'
      BY DEF Elsewhere
    <2> QED
      BY <1>1, <2>1 DEF Clocked
  <1>3. \A k \in DOMAIN history : LET h == history[k] IN
          /\ h.save \in DOMAIN saves /\ h.slug = Of[saves[h.save].edit]
          /\ h.stamp \in Nat /\ h.stamp <= clock /\ h.stamp <= clock'
    BY <1>1 DEF Chronicled
  <1>4. ASSUME NEW e \in Edits, Holds(e)'
        PROVE  /\ Timed(e) => \A k \in DOMAIN history :
                                history[k].save <= base'[e] => history[k].stamp < stamp'[e]
               /\ \/ copy'[e].prompt = row[Of[e]].prompt
                  \/ \E i \in DOMAIN history : history[i].slug = Of[e] /\ base'[e] < history[i].save
    <2>1. CASE copy'[e] = row[Of[e]] /\ (Timed(e) => stamp'[e] = clock + 1)
      BY <1>1, <1>3, <2>1
    <2>2. CASE ~(copy'[e] = row[Of[e]] /\ (Timed(e) => stamp'[e] = clock + 1))
      <3>1. /\ copy'[e] = copy[e] /\ base'[e] = base[e] /\ Holds(e)
            /\ Timed(e) => stamp'[e] = stamp[e] \/ stamp'[e] = clock + 1
        BY <1>4, <2>2 DEF Elsewhere
      <3>2. /\ Timed(e) => \A k \in DOMAIN history :
                             history[k].save <= base[e] => history[k].stamp < stamp[e]
            /\ copy[e].prompt = row[Of[e]].prompt \/ \E i \in DOMAIN history : Unknown(i, e)
        BY <3>1 DEF Chronicled
      <3> QED
        BY <1>1, <1>3, <3>1, <3>2 DEF Unknown
    <2> QED
      BY <2>1, <2>2
  <1>5. Chronicled'
    BY <1>1, <1>3, <1>4 DEF Chronicled, Unknown
  <1>6. \A k \in DOMAIN history : base'[saves[history[k].save].edit] = base[saves[history[k].save].edit]
    BY <1>3 DEF Booked, Elsewhere
  <1>7. HistoryTells'
    BY <1>1, <1>6 DEF HistoryTells
  <1> QED
    BY <1>2, <1>5, <1>7

\* Initially nothing was saved, and every model has the prompt it came with.
LEMMA BookInit == RegistryInit => Booked /\ Clocked /\ Chronicled /\ LastWordStands /\ HistoryTells
  <1> SUFFICES ASSUME RegistryInit PROVE Booked /\ Clocked /\ Chronicled /\ LastWordStands /\ HistoryTells
    OBVIOUS
  <1>1. /\ row = FirstRow /\ saves = <<>> /\ history = <<>> /\ clock = 0
        /\ copy = [e \in Edits |-> FirstRow[Of[e]]]
        /\ base = [e \in Edits |-> 0] /\ stamp = [e \in Edits |-> 0]
    BY DEF RegistryInit
  <1>2. \A s \in Slugs : Rowed(FirstRow[s])
    BY RegistryAssumption, ThemeAssumption DEF Rowed
  <1>3. \A e \in Edits : Of[e] \in Slugs
    BY RegistryAssumption
  <1>4. saves \in Seq({}) /\ history \in Seq({}) /\ DOMAIN saves = {} /\ DOMAIN history = {} /\ Len(saves) = 0
    BY <1>1
  <1>5. Clocked
    BY <1>1 DEF Clocked
  <1>6. \A e \in Edits : ~Holds(e)
    <2>1. PICK scene \in Scenes : place = [e \in Edits |-> IF e \in scene THEN "new" ELSE "absent"]
      BY DEF RegistryInit
    <2> QED
      BY <2>1 DEF Holds
  <1>7. Booked
    <2>1. base \in [Edits -> Nat] /\ \A e \in Edits : base[e] <= Len(saves)
      BY <1>1, <1>4
    <2> QED
      BY <1>1, <1>2, <1>3, <1>4, <1>6, <2>1 DEF Booked
  <1>8. Chronicled /\ HistoryTells
    BY <1>4, <1>6 DEF Chronicled, HistoryTells
  <1>9. LastWordStands
    BY <1>4 DEF LastWordStands, Asking, Touching
  <1> QED
    BY <1>5, <1>7, <1>8, <1>9

\* Every step keeps the books, the last words and the history.
LEMMA BookStep ==
    ASSUME Kept, Kept', Booked, Clocked, Chronicled, LastWordStands, HistoryTells,
           [RegistryNext]_gvars
    PROVE  Booked' /\ Clocked' /\ Chronicled' /\ LastWordStands' /\ HistoryTells'
  <1>1. CASE Elsewhere
    BY <1>1, BookedElsewhere, LastWordElsewhere, HistoryElsewhere
  <1>2. ASSUME NEW e \in Edits, Save(e), UNCHANGED <<copy, stamp, clock, base>>
        PROVE  Booked' /\ Clocked' /\ Chronicled' /\ LastWordStands' /\ HistoryTells'
    <2>1. Clocked'
      BY <1>2 DEF Clocked
    <2> QED
      BY <1>2, <2>1, BookedSave, ChronicledSave, LastWordSave, HistoryTellsSave
  <1> QED
    BY <1>1, <1>2, StepShape

\* Whoever was the last to ask for a column, or for a field of the theme, gets it and keeps
\* it, however the requests overlap, unless one of those on that column overlapped another.
THEOREM LastWordsStand == RegistrySpec => []LastWordStands
  <1>1. RInv => Kept
    BY DEF RInv
  <1> QED
    BY <1>1, InitR, StepKeeps, BookInit, BookStep, PTL DEF RegistrySpec

\* The newest entry of the history is the prompt in force, unless edits of it overlapped.
THEOREM HistoriesTell == RegistrySpec => []HistoryTells
  <1>1. RInv => Kept
    BY DEF RInv
  <1> QED
    BY <1>1, InitR, StepKeeps, BookInit, BookStep, PTL DEF RegistrySpec
-------------------------------------------------------------------------------
(* API keys *)

KeysTyped ==
    /\ keyRow \in [ApiKeys -> [active : BOOLEAN, used : BOOLEAN, known : BOOLEAN]]
    /\ keyStep \in [Callers \cup Owners -> {"new", "checked", "in", "refused", "found", "done"}]
    /\ loadedKey \in [Callers \cup Owners -> [active : BOOLEAN, used : BOOLEAN, known : BOOLEAN]]
    /\ revoked \subseteq ApiKeys /\ tooLate \in [Callers -> SUBSET ApiKeys]

\* A revoked key is a row with is_active false, and so is one that its owner found that way:
\* no row becomes active again.
Inactive(k) == keyRow[k].known /\ ~keyRow[k].active

KInv ==
    /\ KeysTyped
    /\ \A k \in revoked : Inactive(k)
    /\ \A o \in Owners : keyStep[o] = "found" =>
          /\ keyRow[Revokes[o]].known
          /\ ~loadedKey[o].active => Inactive(Revokes[o])
    /\ \A c \in Callers : keyStep[c] \in {"checked", "in"} => Token[c] \notin tooLate[c]

\* The invariant about keys holds initially.
LEMMA KeysStart == KeysInit => KInv
  BY DEF KeysInit, KInv, KeysTyped, Inactive, NoRowYet

\* Every step keeps the invariant about keys.
LEMMA KeysStep == KInv /\ [KeysNext]_kvars => KInv'
  <1> SUFFICES ASSUME KInv, [KeysNext]_kvars PROVE KInv'
    OBVIOUS
  <1> USE KeysAssumption DEF KInv, KeysTyped, Inactive
  <1>1. ASSUME NEW k \in DOMAIN ModelOf, CreateKey(k) PROVE KInv'
    BY <1>1 DEF CreateKey
  <1>2. ASSUME NEW c \in Callers, LookUp(c) PROVE KInv'
    <2>1. keyStep'[c] = "checked" => keyRow[Token[c]].active
      BY <1>2 DEF LookUp, StepTo, Matching
    <2> QED BY <1>2, <2>1 DEF LookUp, StepTo
  <1>3. ASSUME NEW c \in Callers, Touch(c) PROVE KInv'
    <2>1. /\ keyRow' \in [ApiKeys -> [active : BOOLEAN, used : BOOLEAN, known : BOOLEAN]]
          /\ \A k \in ApiKeys : /\ keyRow'[k].known = keyRow[k].known
                                /\ keyRow'[k].active = keyRow[k].active
      <3>1. Token[c] \in ApiKeys /\ keyRow' = [keyRow EXCEPT ![Token[c]] = Touched(c)]
        BY <1>3 DEF Touch
      <3>2. /\ Touched(c) \in [active : BOOLEAN, used : BOOLEAN, known : BOOLEAN]
            /\ Touched(c).known = keyRow[Token[c]].known
            /\ Touched(c).active = keyRow[Token[c]].active
        <4>1. keyRow[Token[c]] \in [active : BOOLEAN, used : BOOLEAN, known : BOOLEAN]
          BY <3>1
        <4>2. Touched(c) = [keyRow[Token[c]] EXCEPT !.used = TRUE]
          BY DEF Touched
        <4> HIDE DEF KInv, KeysTyped
        <4> QED BY <4>1, <4>2
      <3> QED BY <3>1, <3>2
    <2>2. /\ keyStep[c] = "checked" /\ keyStep' = [keyStep EXCEPT ![c] = "in"]
          /\ UNCHANGED <<loadedKey, revoked, tooLate>>
      BY <1>3 DEF Touch, StepTo
    <2> QED BY <2>1, <2>2
  <1>4. ASSUME NEW o \in Owners, FindKey(o) PROVE KInv'
    BY <1>4 DEF FindKey, StepTo
  <1>5. ASSUME NEW o \in Owners, Revoke(o) PROVE KInv'
    <2> DEFINE r == Revokes[o]
    <2>1. /\ keyStep[o] = "found" /\ keyStep' = [keyStep EXCEPT ![o] = "done"]
          /\ revoked' = revoked \cup {r}
          /\ UNCHANGED <<loadedKey, tooLate>>
      BY <1>5 DEF Revoke, StepTo
    <2>2. /\ keyRow' \in [ApiKeys -> [active : BOOLEAN, used : BOOLEAN, known : BOOLEAN]]
          /\ \A k \in ApiKeys : /\ keyRow'[k].known = keyRow[k].known
                                /\ keyRow'[k].active => keyRow[k].active
      <3>1. CASE loadedKey[o].active
        <4> DEFINE new == [keyRow[r] EXCEPT !.active = FALSE]
        <4>1. r \in ApiKeys
          OBVIOUS
        <4>2. keyRow' = [keyRow EXCEPT ![r] = new]
          BY <1>5, <3>1 DEF Revoke
        <4>3. /\ new \in [active : BOOLEAN, used : BOOLEAN, known : BOOLEAN]
              /\ new.known = keyRow[r].known /\ new.active = FALSE
          BY ZenonT(60), <4>1
        <4> HIDE DEF new
        <4> QED BY <4>1, <4>2, <4>3
      <3>2. CASE ~loadedKey[o].active
        BY <1>5, <3>2 DEF Revoke
      <3> QED BY <3>1, <3>2
    <2>3. r \in ApiKeys /\ keyRow'[r].known /\ ~keyRow'[r].active
      BY <1>5, <2>1 DEF Revoke
    <2> QED BY <2>1, <2>2, <2>3
  <1>6. ASSUME UNCHANGED kvars PROVE KInv'
    BY <1>6 DEF kvars
  <1> QED BY <1>1, <1>2, <1>3, <1>4, <1>5, <1>6 DEF KeysNext

\* No request with a key, however slow its comparison, revives a key whose revocation was
\* answered, and none that begins afterwards is let in with it.
THEOREM RevocationsStand == KeysSpec => []RevocationHolds
  <1>1. KInv => RevocationHolds
    BY DEF KInv, Inactive, RevocationHolds
  <1> QED BY <1>1, KeysStart, KeysStep, PTL DEF KeysSpec
===============================================================================
