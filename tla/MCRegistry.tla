------------------------------ MODULE MCRegistry ------------------------------
(* Small instances of Registry for TLC. *)
EXTENDS Registry, TLC

CONSTANTS shop, docs, fresh, p0, p1, p2, o1, o2

MCSlugs == {shop, docs, fresh}
MCAtFirst == {shop, docs}

Model(active) == [prompt |-> p0, origins |-> o1, active |-> active, deleted |-> FALSE,
                  theme |-> [font |-> 0, color |-> 0]]

FirstRows == shop :> Model(TRUE) @@ docs :> Model(FALSE) @@ fresh :> Model(TRUE)

\* name |-> <<slug, verb, body>>
All == [
    ask1    |-> <<shop, "patch", [prompt |-> p1]>>,
    ask0    |-> <<shop, "patch", [prompt |-> p0, active |-> FALSE]>>,
    take2   |-> <<shop, "accept", [prompt |-> p2]>>,
    back    |-> <<shop, "rollback", <<>>>>,
    open2   |-> <<shop, "patch", [origins |-> o2, theme |-> [font |-> 2, color |-> 2]]>>,
    closed  |-> <<shop, "patch", [origins |-> NoOrigins]>>,
    show    |-> <<docs, "patch", [active |-> TRUE]>>,
    move    |-> <<docs, "patch", [origins |-> o2]>>,
    drop    |-> <<shop, "delete", <<>>>>,
    again   |-> <<shop, "create", [Model(TRUE) EXCEPT !.origins = o2]>>,
    new1    |-> <<fresh, "create", Model(TRUE)>>,
    new2    |-> <<fresh, "create", [Model(TRUE) EXCEPT !.origins = NoOrigins]>>,
    font    |-> <<shop, "theme", [theme |-> [font |-> 1]]>>,
    color   |-> <<shop, "theme", [theme |-> [color |-> 1]]>>]

MCEdits == DOMAIN All
MCOf   == [e \in MCEdits |-> All[e][1]]
MCVerb == [e \in MCEdits |-> All[e][2]]
MCBody == [e \in MCEdits |-> All[e][3]]

\* Prompts, themes, origins, and models that come and go.
MCScenes == {{}, {"ask1", "take2", "back"}, {"ask0", "ask1", "back"}, {"font", "color", "open2"},
             {"ask1", "font", "closed"}, {"open2", "move", "show"}, {"open2", "closed", "drop"},
             {"new1", "new2", "move"}, {"drop", "again", "open2"}}

\* A model is shown.
ShowOnly == {{"show"}}
===============================================================================
