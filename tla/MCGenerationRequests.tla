------------------------ MODULE MCGenerationRequests ------------------------
(* Requests for one project, and the film one request drafts, on small     *)
(* instances.  The two share no variable: a behaviour is of one of them,   *)
(* picked with the initial state, and the other stands still.              *)
EXTENDS GenerationRequests, FilmDraft, TLC

CONSTANTS p1, r1, r2, r3, a1, s1, cut1, noModule

VARIABLE part

\* One project: another one has its own lease and meets no request of this one.
MCProjectOf == [r \in Requests |-> p1]

\* Interchangeable names.  Only for runs without liveness properties.
Symmetry == Permutations(Requests)

-----------------------------------------------------------------------------
(* The film.  The first request meets any media that earlier ones attached.*)

Media(placed, named) == [accepted |-> TRUE, placed |-> placed, named |-> named]
MCHtmls ==
    {Media(media, media) : media \in SUBSET MediaTokens}
      \cup {Media({}, {t}) : t \in MediaTokens}
      \cup {[accepted |-> FALSE, placed |-> {}, named |-> {}]}
MCStarter == [html |-> Media({}, {}), js |-> cut1]
MCContents == {LeftOut, [LeftOut EXCEPT !.js = cut1], MCStarter}

LayersOf(statuses, texts) ==
    [status : statuses, text : texts, limited : BOOLEAN, overloaded : BOOLEAN]
Wrappers == LayersOf({0}, {0, 429})
Origins == LayersOf({0, 400, 401, 404, 503}, {0})
MCFaults ==
    {<<o>> : o \in Origins} \cup {<<w, o>> : w \in Wrappers, o \in Origins}
      \cup {<<w, v, o>> : w \in Wrappers, v \in Wrappers, o \in Origins}

MCFilmInit ==
    /\ project = [film |-> MCStarter, revision |-> 1]
    /\ imageRole \in [Pictures -> ImageRoles] /\ soundtrack \in SUBSET Tracks
    /\ brand \in SUBSET Pictures
    /\ agent = NoAgent /\ answer = "none" /\ runs = 0 /\ edits = 0

-----------------------------------------------------------------------------
MCInit ==
    \/ part = "requests" /\ Init /\ FilmInit /\ brand = {}
    \/ part = "film" /\ Init /\ MCFilmInit

MCNext ==
    /\ UNCHANGED part
    /\ \/ part = "requests" /\ Next /\ UNCHANGED filmVars
       \/ part = "film" /\ FilmNext /\ UNCHANGED vars

MCSpec == MCInit /\ [][MCNext]_<<part, vars, filmVars>>
=============================================================================
