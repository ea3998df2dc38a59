---------------------------- MODULE MCVideoCatalog ----------------------------
(* VideoCatalog for TLC: an empty table, and one with three videos that are *)
(* published already; a fourth may come, and a fifth has too many tags.     *)
EXTENDS VideoCatalog, TLC

MCVideos == 1 .. 5
MCDraft == <<[user |-> "ann", tags |-> <<"Go", " go", " ">>],
             [user |-> "bob", tags |-> <<>>],
             [user |-> "ann", tags |-> <<" ">>],
             [user |-> "ann", tags |-> <<"SQL", " go", " ", "Go">>],
             [user |-> "bob", tags |-> <<"Go", "SQL", "js">>]>>
MCKey == ("Go" :> "go") @@ ("go" :> "go") @@ (" go" :> " go") @@ ("SQL" :> "sql")
           @@ ("js" :> "js") @@ (" " :> " ") @@ ("" :> "")
MCTrim == [t \in DOMAIN MCKey |-> CASE t = " go" -> "go" [] t = " " -> "" [] OTHER -> t]

Published(v, d) ==
    [status |-> "Published", user |-> MCDraft[v].user, tags |-> sanitizeTags(MCDraft[v].tags),
     created |-> d, published |-> d]

MCTables == {[v \in MCVideos |-> NoRow],
             [v \in MCVideos |-> IF v <= 3 THEN Published(v, v) ELSE NoRow]}
=============================================================================
