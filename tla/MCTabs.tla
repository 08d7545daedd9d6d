------------------------------- MODULE MCTabs -------------------------------
(* Model-checking instance of Tabs: the responses of the app. *)
EXTENDS Tabs

Document(enc, body, tag) == [bodiless |-> FALSE, skip |-> FALSE, events |-> FALSE,
                             enc |-> enc, body |-> body, tag |-> tag]

\* A packed document and the answers to a conditional request for it and to HEAD.
MCShapes == {Document("gzip", "html", "head"),
             [Document("gzip", "empty", "none") EXCEPT !.bodiless = TRUE],
             Document("gzip", "empty", "none")}

\* The answer to HEAD for a packed document.
HeadShapes == {Document("gzip", "empty", "none")}

\* Documents that close their heads, or have a body only.
TagShapes == {Document("", "html", "head"), Document("", "html", "body")}
=============================================================================
