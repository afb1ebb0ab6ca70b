----------------------------- MODULE MCAgentWork -----------------------------
(* The swarm skill on a table, a filter of its rows, and a film as it      *)
(* plays, on small instances.  These share no variable: a behaviour is of  *)
(* one of them, picked with the initial state, and the others stand still. *)
EXTENDS Swarm, RowFilter, Playback
CONSTANTS t1, t2, t3, r1, r2, l1, l2, w1, w2, n1

VARIABLE part

-----------------------------------------------------------------------------
(* The swarm skill.                                                        *)

\* Batches of two, or the first and the last row and then the middle one alone.
SmallSizes == {NoSize, Uniform(2), PerRow([x \in Rows |-> IF x = 2 THEN 2 ELSE 1])}
\* One run asks for more than it gets, the other for fewer than one.
MCConcurrency == (r1 :> 5) @@ (r2 :> 0)
\* Two runs on a table that was made before, or one while two more are made.
MCSwarmInit ==
    /\ file = [t \in Tables |-> IF t = t1 THEN Holding(Fresh) ELSE NoFile]
    /\ seq = [t \in Tables |-> 0] /\ born = <<t1>> /\ counter = 1
    /\ cache = [t \in Tables |-> IF t = t1 THEN t1 ELSE Nobody]
    /\ array = [o \in Owners |-> Fresh]
    /\ entry = [o \in Owners |-> [rows |-> o, last |-> Fresh]]
    /\ session = 1 /\ overlapped = {}
    /\ \E c \in {[tables |-> {}, runs |-> Runs], [tables |-> {t2, t3}, runs |-> {r1}]} :
         /\ create = [t \in Tables |-> IF t \in c.tables THEN NoCreate ELSE [NoCreate EXCEPT !.at = "done"]]
         /\ run = [r \in Runs |-> IF r \in c.runs THEN NoRun ELSE [NoRun EXCEPT !.at = "done"]]

-----------------------------------------------------------------------------
(* Filters of rows: what a model may have left out, nulled or nested.      *)

One == <<"number", 1>>
MCCells ==
    {Undefined, Null, One, <<"string", "1">>, <<"list", <<One>>>>,
     Object(<<>>), Object(<<<<"score", One>>>>), Object(<<<<"score", Null>>>>)}
MCRecords ==
    {Object(SelectSeq(<< <<"result", result>>, <<"title", title>> >>, LAMBDA p : p[2] # Undefined)) :
        result \in MCCells, title \in MCCells}
MCValues == {Null, One}
MCColumns == {<<"result">>, <<"result", "score">>, <<"title">>}
MCLeaves ==
    {Leaf(op, c, v) : op \in {"equals", "notEquals"}, c \in MCColumns, v \in {Null, One}}
      \cup {Leaf("exists", c, b) : c \in MCColumns, b \in BOOLEAN}
      \cup {Leaf("in", c, v) : c \in MCColumns, v \in {<<>>, <<Null, One>>}}
Arms == UNION {[1..n -> MCLeaves] : n \in 0..2}
MCGiven ==
    MCLeaves \cup {Combined(op, of) : op \in {"and", "or"}, of \in Arms}
      \cup {Combined("and", <<Combined("or", of), Combined(op, of)>>) : op \in {"and", "or"}, of \in Arms}
FilterAtRest == row = Object(<<>>) /\ filter = Combined("and", <<>>)

-----------------------------------------------------------------------------
(* A film that plays: two layers that share a tween, one of them of text.  *)

MCTweensOf == (l1 :> {w1, w2}) @@ (l2 :> {w2})
MCOwnScale == (w1 :> 4) @@ (w2 :> 8)
MCSpans == (l1 :> 3) @@ (l2 :> 0)
MCTexts == {<<"a">>, <<"a", " ", "b", " ", "c">>}

-----------------------------------------------------------------------------
SwarmAtRest == Init
PlaybackAtRest == PlaybackInit /\ length = Duration

MCInit ==
    \/ part = "swarm" /\ MCSwarmInit /\ FilterAtRest /\ PlaybackAtRest
    \/ part = "filter" /\ SwarmAtRest /\ FilterInit /\ PlaybackAtRest
    \/ part = "playback" /\ SwarmAtRest /\ FilterAtRest /\ PlaybackInit

\* Filtering leaves the rows as they are.
MCNext ==
    /\ UNCHANGED <<part, filterVars>>
    /\ \/ part = "swarm" /\ Next /\ UNCHANGED playbackVars
       \/ part = "playback" /\ PlaybackNext /\ UNCHANGED vars

MCSpec == MCInit /\ [][MCNext]_<<part, vars, filterVars, playbackVars>>
=============================================================================
