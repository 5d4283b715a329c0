------------------------------- MODULE ModelKeys ------------------------------
(***************************************************************************)
(* The API keys of the models: created and revoked by their owners, while  *)
(* requests that carry a key are let in.  Letting one in is a SELECT, a    *)
(* bcrypt comparison in a thread, an UPDATE of last_used_at and a commit,  *)
(* and may overlap a revocation anywhere.                                  *)
(***************************************************************************)
EXTENDS Naturals, FiniteSets

CONSTANTS
    ApiKeys,    \* keys, and strings that look like keys
    ModelOf,    \* ModelOf[k]: the model k is created for
    Prefix,     \* Prefix[k]: the first characters of k, stored in clear
    Callers,    \* requests that carry a key
    Token,      \* Token[c]: the key c carries
    Wanted,     \* Wanted[c]: the model c is about
    Owners,     \* requests that revoke a key
    Revokes     \* Revokes[o]: this key

ASSUME KeysAssumption ==
    /\ Token \in [Callers -> ApiKeys] /\ Revokes \in [Owners -> ApiKeys]
    /\ Callers \cap Owners = {}

VARIABLES
    keyRow,    \* keyRow[k]: "none", or the committed is_active and last_used_at
    keyStep,   \* keyStep[p]: where request p stands
    loadedKey, \* loadedKey[p]: the row p has loaded
    revoked,   \* history variable: keys whose revocation was answered 204
    tooLate    \* history variable: tooLate[c]: `revoked' when c was looked up

kvars == <<keyRow, keyStep, loadedKey, revoked, tooLate>>

NoRowYet == [active |-> FALSE, used |-> FALSE, known |-> FALSE]

KeysInit ==
    /\ keyRow = [k \in ApiKeys |-> NoRowYet]
    /\ keyStep = [p \in Callers \cup Owners |-> "new"]
    /\ loadedKey = [p \in Callers \cup Owners |-> NoRowYet]
    /\ revoked = {}
    /\ tooLate = [c \in Callers |-> {}]

StepTo(p, from, to) == keyStep[p] = from /\ keyStep' = [keyStep EXCEPT ![p] = to]

\* create_api_key: the hash is made before the INSERT and its commit.
CreateKey(k) == /\ ~keyRow[k].known
                /\ keyRow' = [keyRow EXCEPT ![k] = [active |-> TRUE, used |-> FALSE, known |-> TRUE]]
                /\ UNCHANGED <<keyStep, loadedKey, revoked, tooLate>>

\* The model's active keys with the prefix of the token.
Matching(c) == {k \in ApiKeys : /\ keyRow[k].active /\ ModelOf[k] = Wanted[c]
                                  /\ Prefix[k] = Prefix[Token[c]]}

\* 401 without a candidate or with another key; scalar_one_or_none raises on two: 500.
LookUp(c) == /\ StepTo(c, "new", IF Matching(c) = {Token[c]} THEN "checked" ELSE "refused")
             /\ loadedKey' = [loadedKey EXCEPT ![c] = keyRow[Token[c]]]
             /\ tooLate' = [tooLate EXCEPT ![c] = revoked]
             /\ UNCHANGED <<keyRow, revoked>>

\* Mutant: the row is written back as it was loaded.
Touched_Whole(c) == [loadedKey[c] EXCEPT !.used = TRUE]

\* UPDATE ... SET last_used_at.
Touched(c) == [keyRow[Token[c]] EXCEPT !.used = TRUE]

Touch(c) == /\ StepTo(c, "checked", "in")
            /\ keyRow' = [keyRow EXCEPT ![Token[c]] = Touched(c)]
            /\ UNCHANGED <<loadedKey, revoked, tooLate>>

\* revoke_api_key: 404 for an unknown key.
FindKey(o) == /\ StepTo(o, "new", IF keyRow[Revokes[o]].known THEN "found" ELSE "refused")
              /\ loadedKey' = [loadedKey EXCEPT ![o] = keyRow[Revokes[o]]]
              /\ UNCHANGED <<keyRow, revoked, tooLate>>

\* The ORM writes is_active only if the row it has loaded was active.
Revoke(o) == LET k == Revokes[o] IN
    /\ StepTo(o, "found", "done")
    /\ keyRow' = IF loadedKey[o].active THEN [keyRow EXCEPT ![k].active = FALSE] ELSE keyRow
    /\ revoked' = revoked \cup {k}
    /\ UNCHANGED <<loadedKey, tooLate>>

KeysNext == \/ \E k \in DOMAIN ModelOf : CreateKey(k)
            \/ \E c \in Callers : LookUp(c) \/ Touch(c)
            \/ \E o \in Owners : FindKey(o) \/ Revoke(o)

KeysSpec == KeysInit /\ [][KeysNext]_kvars
-------------------------------------------------------------------------------
(* Properties *)

\* A revocation that was answered stands, whatever requests with the key were under way:
\* none of them revives it, and none that comes later is let in.
RevocationHolds ==
    /\ \A k \in revoked : ~keyRow[k].active
    /\ \A c \in Callers : keyStep[c] = "in" => Token[c] \notin tooLate[c]
===============================================================================
