------------------------------- MODULE MCPage -------------------------------
(***************************************************************************)
(* What a page does for itself: the editor of a note, and the release it   *)
(* runs with the texts it shows.  They share nothing, so one of them runs  *)
(* at a time: `part` tells which.                                          *)
(***************************************************************************)
EXTENDS TodoEditor, PageAssets

VARIABLE part

MCWide == {"e"}
MCChars == {NL, " ", "#", "-", "*", "x", "a", "e"}
Note(text, chars, pastes) ==
  [source |-> text, chars |-> chars, pastes |-> pastes, imports |-> {},
   composes |-> FALSE, cuts |-> FALSE, edits |-> 4]

MCTodoCases ==
  { \* lists: markers, Enter, merges, pastes over several blocks
    Note(<<"-", " ", "a">>, {"-", " "}, {<< >>, <<NL>>, <<"-", " ", NL>>}),
    \* tasks near the length limit, and another content from the holder
    [Note(<<"*", " ", NL, "a">>, {"x"}, {}) EXCEPT !.imports = {<<"*", "x", " ">>, <<"a">>}],
    \* characters of two bytes, and a content longer than the limit
    [Note(<<"e">>, {"e", "a"}, {<<"e", "e">>}) EXCEPT
       !.imports = {<<"e", "e", "e", "e">>, <<"a", NL, NL, NL, "e">>}],
    \* compositions, and cuts the editor does not see
    [Note(<<"a">>, {"a", " "}, {<<NL>>}) EXCEPT !.composes = TRUE],
    [Note(<<"a", NL, "a">>, {"a"}, {<<NL>>}) EXCEPT !.cuts = TRUE] }

\* The old release has no French book yet.
MCFiles == [r \in Releases |-> IF r = "old" THEN {"EN"} ELSE {"EN", "FR"}]

Monitored(releases, works) ==
  [texts |-> {}, hashed |-> releases, works |-> works, answers |-> 2, errors |-> 0]
MCAssetCases ==
  { Monitored(releases, works) : releases \in SUBSET Releases, works \in BOOLEAN }
  \cup { \* the answers that bring a text are looked at as well
         [Monitored(Releases, TRUE) EXCEPT !.texts = {1}, !.answers = 1],
         \* texts, without the monitor
         [Monitored({}, TRUE) EXCEPT !.texts = Texts, !.answers = 0, !.errors = 1] }

MCInit ==
  /\ part \in {"todo", "assets"} /\ TodoInit /\ AssetInit
  /\ part = "todo" => /\ assetCase = CHOOSE c \in AssetCases : c.texts = {}
                      /\ lang = "EN" /\ fleet = {"old"}
  /\ part = "assets" => todoBound = CHOOSE c \in TodoCases : TRUE

MCNext ==
  /\ UNCHANGED part
  /\ \/ part = "todo" /\ TodoNext /\ UNCHANGED assetVars
     \/ part = "assets" /\ AssetNext /\ UNCHANGED todoVars

\* TodoSpec and AssetSpec, each in its own part.
MCVars == <<part, todoVars, assetVars>>
MCFairness ==
  /\ WF_MCVars(part = "todo" /\ SaveNow /\ UNCHANGED <<part, assetVars>>)
  /\ WF_MCVars(part = "assets" /\ page.life = "reloading" /\ Load /\ UNCHANGED <<part, todoVars>>)
  /\ \A r \in Releases :
       /\ WF_MCVars(part = "assets" /\ CallServed(r) /\ UNCHANGED <<part, todoVars>>)
       /\ WF_MCVars(part = "assets" /\ CallAnswered(r) /\ UNCHANGED <<part, todoVars>>)

MCSpec == MCInit /\ [][MCNext]_MCVars /\ MCFairness
=============================================================================
