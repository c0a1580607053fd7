--------------------------- MODULE MCIndexSupply ---------------------------
(* IndexSupply for TLC: documents of every shape, up to their chunks, and   *)
(* builds of a few of them, up to the agent's answers.  Lengths are a       *)
(* hundredth of the code's.                                                 *)
EXTENDS IndexSupply

CONSTANTS none, intro, setup

Lengths == {1, 6, 15}
Bodies == {<<>>} \cup {<<m>> : m \in Lengths} \cup (Lengths \X Lengths)

Section(level, title, body) == [level |-> level, title |-> title, body |-> body]

Headed(bodies) ==
    {Section(l, t, b) : l \in {1, 2}, t \in {intro, setup}, b \in bodies}
Few == Headed({<<>>, <<6>>, <<15, 1>>})

(* One section and what is before it; three sections. *)
Shapes ==
    {<<Section(0, none, b), s>> : b \in Bodies \ {<<>>}, s \in Headed(Bodies)}
    \cup (Few \X Few \X Few)

Guide == <<Section(1, intro, <<6>>), Section(2, setup, <<6, 1>>)>>
Readme == <<Section(0, none, <<15, 6>>)>>

Small == {<<Readme, Guide>>}
MCDocuments == Small \cup {<<doc>> : doc \in Shapes}

(* The other documents only in one build, of an agent that stays down.      *)
MCInit == Init /\ (docs \notin Small => ~ https /\ pin = NoPin)

Apart == boot' = "down" /\ release' = NoFile

MCNext ==
    /\ docs \notin Small => build = 0
    /\ Next
    /\ docs \notin Small => Apart

MCSpec == MCInit /\ [][MCNext]_vars /\ WF_vars(BootStep)
=============================================================================
