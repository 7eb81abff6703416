----------------------------- MODULE Page_proofs -----------------------------
(***************************************************************************)
(* Proofs about what a page does for itself: PageAssets, for any releases, *)
(* languages and texts, and TodoEditor, for any notes, characters, limits  *)
(* and edits.                                                              *)
(***************************************************************************)
EXTENDS TodoEditor, PageAssets, Integers, FiniteSetTheorems, SequenceTheorems,
        NaturalsInduction, WellFoundedInduction, TLAPS

-----------------------------------------------------------------------------
(* The inductive invariant. *)

Served == [by : Releases, book : Book \cup {Unknown}]
Task == [lang : Langs \cup {Unknown}, step : {"idle", "waiting", "asking", "answered"},
         answer : Served \cup {Unknown}]

\* A text that is translated has a language, and an answer once it is answered.
TasksFit ==
  \A t \in Texts : /\ task[t].step # "idle" => task[t].lang \in Langs
                   /\ task[t].step = "answered" => task[t].answer \in Served

\* What a text shows is what the page keeps for its language.
ShownIsKept ==
  \A t \in Texts : shown[t] # Unknown =>
    /\ shown[t].lang \in Langs /\ shown[t].book \in Book
    /\ books[shown[t].lang] = shown[t].book

Asking(t) == task[t].step \in {"asking", "answered"}

\* The book of a language is loaded by one text at a time, and only while the
\* page has none: the mutex of the language's slot.
OneLoads ==
  \A t \in Texts : Asking(t) =>
    /\ books[task[t].lang] = Unknown
    /\ \A u \in Texts : Asking(u) /\ task[u].lang = task[t].lang => u = t

AssetInv == AssetTypeOK /\ TasksFit /\ ShownIsKept /\ OneLoads

-----------------------------------------------------------------------------
(* The operators. *)

LEMMA Values ==
  /\ Unknown \notin Langs /\ Unknown \notin Book /\ Unknown \notin Releases
  /\ Allowed \subseteq Langs /\ "EN" \in Langs
  /\ \A r \in Releases : Files[r] \subseteq Langs
  /\ \A c \in AssetCases : /\ c.texts \subseteq Texts /\ c.hashed \subseteq Releases
                           /\ c.works \in BOOLEAN /\ c.answers \in Nat /\ c.errors \in Nat
BY PageAssumption

LEMMA LoadedType ==
  ASSUME NEW r \in Releases, NEW l \in Langs, NEW empty \in BOOLEAN
  PROVE  Loaded(r, l, empty) \in Book
BY Values DEF Loaded, FileOf, Book

LEMMA IdleType == Idle \in Task /\ Idle.step = "idle"
BY DEF Idle, Task

\* A text that starts over is not asking.
LEMMA TranslateType ==
  ASSUME lang' \in Langs, NEW t
  PROVE  /\ Translate(t) \in Task /\ Translate(t).step = "waiting"
         /\ Translate(t).lang \in Langs
BY DEF Translate, Task

LEMMA TaskParts ==
  ASSUME AssetInv, NEW t \in Texts
  PROVE  /\ task[t] \in Task /\ task \in [Texts -> Task]
         /\ task[t].step # "idle" => task[t].lang \in Langs
         /\ task[t].step = "answered" =>
              /\ task[t].answer \in Served /\ task[t].answer.by \in Releases
              /\ task[t].answer.book \in Book \cup {Unknown}
BY DEF AssetInv, AssetTypeOK, TasksFit, Task, Served

\* The monitor decides on the page and its storage alone.
LEMMA VersionType ==
  ASSUME AssetInv, NEW r \in Releases, VersionApply(r)
  PROVE  /\ page' \in [release : Releases, life : {"running", "reloading", "broken"}]
         /\ storage' \in [last : Releases \cup {Unknown}, target : Releases \cup {Unknown}]
<1> DEFINE hash == WasmHash(r)
<1>1. /\ page \in [release : Releases, life : {"running", "reloading", "broken"}]
      /\ storage \in [last : Releases \cup {Unknown}, target : Releases \cup {Unknown}]
  BY DEF AssetInv, AssetTypeOK
<1>2. hash \in Releases \cup {Unknown}
  BY DEF WasmHash
<1> HIDE DEF hash
<1>3. Noted(hash) \in [last : Releases \cup {Unknown}, target : Releases \cup {Unknown}]
  BY <1>1, <1>2 DEF Noted
<1>4. \/ UNCHANGED <<storage, page>>
      \/ storage' = [Noted(hash) EXCEPT !.target = IF ClientHash = hash THEN Unknown ELSE @]
         /\ page' = page
      \/ storage' = [Noted(hash) EXCEPT !.target = hash] /\ page' = [page EXCEPT !.life = "reloading"]
      \/ storage' = Noted(hash) /\ page' = page
  BY DEF VersionApply, hash
<1> HIDE DEF Noted
<1>5. page' \in [release : Releases, life : {"running", "reloading", "broken"}]
  BY <1>1, <1>4
<1>6. storage' \in [last : Releases \cup {Unknown}, target : Releases \cup {Unknown}]
  BY <1>1, <1>2, <1>3, <1>4
<1> QED BY <1>5, <1>6

-----------------------------------------------------------------------------
(* The steps. *)

LEMMA AtFirst ==
  ASSUME AssetInit
  PROVE  AssetInv
<1>1. slot \in [Releases -> [Langs -> Book \cup {Unknown}]] /\ books \in [Langs -> Book \cup {Unknown}]
  BY DEF AssetInit, NoBooks
<1>2. task \in [Texts -> Task] /\ \A t \in Texts : task[t].step = "idle"
  BY IdleType DEF AssetInit
<1>3. errors \in 0 .. assetCase.errors
  BY Values DEF AssetInit
<1>4. AssetTypeOK
  BY <1>1, <1>2, <1>3 DEF AssetInit, AssetTypeOK, Task, Served
<1> QED BY <1>2, <1>4 DEF AssetInit, AssetInv, TasksFit, ShownIsKept, OneLoads, Asking

\* The texts of the page are left alone.
LEMMA TextsStay ==
  ASSUME AssetInv, AssetTypeOK', UNCHANGED texts
  PROVE  AssetInv'
BY DEF AssetInv, TasksFit, ShownIsKept, OneLoads, Asking, texts

LEMMA StepRollout ==
  ASSUME AssetInv, NEW r \in Releases, Rollout(r)
  PROVE  AssetInv'
<1>1. fleet' \in (SUBSET Releases) \ {{}}
  BY DEF Rollout, AssetInv, AssetTypeOK
<1>2. slot' \in [Releases -> [Langs -> Book \cup {Unknown}]]
  BY DEF Rollout, AssetInv, AssetTypeOK, NoBooks
<1>3. UNCHANGED <<assetCase, page, storage, answers, lang, books, task, shown, errors>>
  BY DEF Rollout, texts
<1>4. AssetTypeOK'
  BY <1>1, <1>2, <1>3 DEF AssetInv, AssetTypeOK
<1> QED BY <1>3, <1>4, TextsStay DEF texts

LEMMA StepCalls ==
  ASSUME AssetInv, NEW r \in Releases, CallServed(r) \/ CallAnswered(r)
  PROVE  AssetInv'
<1>1. UNCHANGED <<assetCase, fleet, slot, lang, books, task, shown, errors>>
  BY DEF CallServed, CallAnswered, release, texts
<1>2. answers' \subseteq Releases
  BY DEF CallServed, CallAnswered, AssetInv, AssetTypeOK
<1>3. /\ page' \in [release : Releases, life : {"running", "reloading", "broken"}]
      /\ storage' \in [last : Releases \cup {Unknown}, target : Releases \cup {Unknown}]
  BY VersionType DEF CallServed, CallAnswered, AssetInv, AssetTypeOK
<1>4. AssetTypeOK'
  BY <1>1, <1>2, <1>3 DEF AssetInv, AssetTypeOK
<1> QED BY <1>1, <1>4, TextsStay DEF texts

\* A page that is loaded shows nothing and keeps nothing.
LEMMA StepLoad ==
  ASSUME AssetInv, Load
  PROVE  AssetInv'
<1>1. page' \in [release : Releases, life : {"running", "reloading", "broken"}]
  BY DEF Load, AssetInv, AssetTypeOK
<1>2. books' \in [Langs -> Book \cup {Unknown}]
  BY DEF Load, NoBooks
<1>3. task' \in [Texts -> Task] /\ \A t \in Texts : task'[t].step = "idle"
  BY IdleType DEF Load
<1>4. shown' \in [Texts -> {Unknown}] /\ answers' = {}
      /\ UNCHANGED <<assetCase, fleet, slot, storage, lang, errors>>
  BY DEF Load, release
<1>5. AssetTypeOK'
  BY <1>1, <1>2, <1>3, <1>4 DEF AssetInv, AssetTypeOK, Task, Served
<1> QED BY <1>3, <1>4, <1>5 DEF AssetInv, TasksFit, ShownIsKept, OneLoads, Asking

\* Texts start over or stay as they are.
LEMMA StartsOver ==
  ASSUME AssetInv, UNCHANGED <<release, page, storage, answers, books, shown, errors>>,
         lang' \in Langs, task' \in [Texts -> Task],
         \A t \in Texts : \/ task'[t] = task[t] \/ task'[t] = Idle
                          \/ task'[t].step = "waiting" /\ task'[t].lang \in Langs
  PROVE  AssetInv'
<1>1. UNCHANGED <<assetCase, fleet, slot, page, storage, answers, books, shown, errors>>
  BY DEF release
<1>2. AssetTypeOK'
  BY <1>1 DEF AssetInv, AssetTypeOK, Task, Served
<1>3. \A t \in Texts : Asking(t)' => task'[t] = task[t]
  BY IdleType DEF Asking
<1>4. TasksFit'
  BY IdleType DEF AssetInv, TasksFit
<1>5. OneLoads'
  BY <1>1, <1>3 DEF AssetInv, OneLoads, Asking
<1> QED BY <1>1, <1>2, <1>4, <1>5 DEF AssetInv, ShownIsKept

LEMMA StepDraw ==
  ASSUME AssetInv, NEW t \in Texts, Draw(t)
  PROVE  AssetInv'
<1>1. lang' \in Langs
  BY DEF Draw, AssetInv, AssetTypeOK
<1>2. Translate(t) \in Task /\ Translate(t).step = "waiting" /\ Translate(t).lang \in Langs
  BY <1>1, TranslateType
<1>3. task' = [task EXCEPT ![t] = Translate(t)] /\ task \in [Texts -> Task]
  BY TaskParts DEF Draw
<1> HIDE DEF Translate
<1>4. UNCHANGED <<release, page, storage, answers, books, shown, errors>>
  BY DEF Draw
<1> QED BY <1>1, <1>2, <1>3, <1>4, StartsOver

LEMMA StepChooseLang ==
  ASSUME AssetInv, NEW l \in Langs, ChooseLang(l)
  PROVE  AssetInv'
<1>1. lang' \in Langs
  BY DEF ChooseLang
<1>2. \A t \in Texts : Translate(t) \in Task /\ Translate(t).step = "waiting"
                       /\ Translate(t).lang \in Langs
  BY <1>1, TranslateType
<1> HIDE DEF Translate
<1>3. /\ task' \in [Texts -> Task]
      /\ \A t \in Texts : task'[t] = Idle \/ task'[t] = Translate(t)
  BY <1>2, IdleType DEF ChooseLang
<1>4. UNCHANGED <<release, page, storage, answers, books, shown, errors>>
  BY DEF ChooseLang
<1> QED BY <1>1, <1>2, <1>3, <1>4, StartsOver

LEMMA StepBookServed ==
  ASSUME AssetInv, NEW t \in Texts, NEW r \in Releases, BookServed(t, r)
  PROVE  AssetInv'
<1> DEFINE l == filterLang(task[t].lang)
           answer == [by |-> r, book |-> slot'[r][l]]
<1>1. /\ task[t].step = "asking" /\ task \in [Texts -> Task] /\ task[t] \in Task
      /\ task[t].lang \in Langs
  BY TaskParts DEF BookServed
<1>2. l \in Langs
  BY Values DEF filterLang
<1>3. slot' \in [Releases -> [Langs -> Book \cup {Unknown}]]
  <2>1. slot \in [Releases -> [Langs -> Book \cup {Unknown}]]
    BY DEF AssetInv, AssetTypeOK
  <2>2. PICK empty \in BOOLEAN :
          slot' = IF slot[r][l] = Unknown /\ Loads(r, l)
                  THEN [slot EXCEPT ![r][l] = Loaded(r, l, empty)] ELSE slot
    BY DEF BookServed
  <2>3. Loaded(r, l, empty) \in Book
    BY <1>2, LoadedType
  <2> HIDE DEF l
  <2> QED BY <1>2, <2>1, <2>2, <2>3
<1>4. errors' \in 0 .. assetCase.errors
  <2>1. errors \in 0 .. assetCase.errors /\ assetCase.errors \in Nat
    BY Values DEF AssetInv, AssetTypeOK
  <2> QED BY <2>1 DEF BookServed
<1>5. answer \in Served
  <2>1. slot'[r][l] \in Book \cup {Unknown}
    BY <1>2, <1>3
  <2> HIDE DEF l
  <2> QED BY <2>1 DEF Served
<1> HIDE DEF l
<1>6. task' = [task EXCEPT ![t] = [task[t] EXCEPT !.step = "answered", !.answer = answer]]
  BY DEF BookServed, l
<1> HIDE DEF answer
<1>7. /\ task' \in [Texts -> Task] /\ task'[t].step = "answered" /\ task'[t].lang = task[t].lang
      /\ task'[t].answer = answer /\ \A u \in Texts \ {t} : task'[u] = task[u]
  BY <1>1, <1>5, <1>6 DEF Task
<1>8. UNCHANGED <<assetCase, fleet, page, storage, answers, lang, books, shown>>
  BY DEF BookServed
<1>9. AssetTypeOK'
  BY <1>3, <1>4, <1>7, <1>8 DEF AssetInv, AssetTypeOK, Task, Served
<1>10. TasksFit'
  BY <1>1, <1>5, <1>7 DEF AssetInv, TasksFit
<1>11. OneLoads'
  <2>1. \A u \in Texts : Asking(u)' => Asking(u) /\ task'[u].lang = task[u].lang
    BY <1>1, <1>7 DEF Asking
  <2> QED BY <1>8, <2>1 DEF AssetInv, OneLoads
<1> QED BY <1>8, <1>9, <1>10, <1>11 DEF AssetInv, ShownIsKept

\* A text shows what it found, or its key.
LEMMA SaysType ==
  ASSUME AssetInv, NEW t \in Texts, task[t].step # "idle", NEW book \in Book \cup {Unknown},
         Says(t, book)
  PROVE  /\ task' \in [Texts -> Task] /\ task'[t] = Idle
         /\ \A u \in Texts \ {t} : task'[u] = task[u] /\ shown'[u] = shown[u]
         /\ shown' \in [Texts -> [lang : Langs, book : Book \cup {Unknown}] \cup {Unknown}]
         /\ shown'[t] # Unknown => /\ book # Unknown
                                   /\ shown'[t].lang = task[t].lang /\ shown'[t].book = book
<1>1. task \in [Texts -> Task] /\ task[t].lang \in Langs
  BY TaskParts
<1>2. shown \in [Texts -> [lang : Langs, book : Book \cup {Unknown}] \cup {Unknown}]
  BY DEF AssetInv, AssetTypeOK
<1>3. task' = [task EXCEPT ![t] = Idle]
  BY DEF Says
<1>4. /\ task' \in [Texts -> Task] /\ task'[t] = Idle
      /\ \A u \in Texts \ {t} : task'[u] = task[u]
  BY <1>1, <1>3, IdleType
<1>5. \/ shown' = [shown EXCEPT ![t] = Unknown]
      \/ book # Unknown /\ shown' = [shown EXCEPT ![t] = [lang |-> task[t].lang, book |-> book]]
  BY DEF Says
<1> QED BY <1>1, <1>2, <1>4, <1>5

LEMMA SaysFits ==
  ASSUME AssetInv, NEW t \in Texts, task' \in [Texts -> Task], task'[t] = Idle,
         \A u \in Texts \ {t} : task'[u] = task[u]
  PROVE  TasksFit' /\ \A u \in Texts : Asking(u)' => u # t /\ Asking(u) /\ task'[u] = task[u]
<1>1. TasksFit'
  BY IdleType DEF AssetInv, TasksFit
<1>2. \A u \in Texts : Asking(u)' => u # t /\ Asking(u) /\ task'[u] = task[u]
  BY IdleType DEF Asking
<1> QED BY <1>1, <1>2

LEMMA StepBookGet ==
  ASSUME AssetInv, NEW t \in Texts, BookGet(t)
  PROVE  AssetInv'
<1> DEFINE l == task[t].lang
<1>1. /\ task[t].step = "waiting" /\ l \in Langs /\ ~Loading(l)
      /\ task \in [Texts -> Task] /\ task[t] \in Task
  BY TaskParts DEF BookGet
<1>2. UNCHANGED <<assetCase, fleet, slot, page, storage, answers, lang, books, errors>>
  BY DEF BookGet, release
<1>3. books \in [Langs -> Book \cup {Unknown}]
  BY DEF AssetInv, AssetTypeOK
<1>4. CASE books[l] # Unknown /\ Says(t, books[l])
  <2>1. books[l] \in Book
    BY <1>1, <1>3, <1>4
  <2>2. /\ task' \in [Texts -> Task] /\ task'[t] = Idle
        /\ \A u \in Texts \ {t} : task'[u] = task[u] /\ shown'[u] = shown[u]
        /\ shown' \in [Texts -> [lang : Langs, book : Book \cup {Unknown}] \cup {Unknown}]
        /\ shown'[t] # Unknown => /\ books[l] # Unknown
                                  /\ shown'[t].lang = task[t].lang /\ shown'[t].book = books[l]
    BY <1>1, <1>4, <2>1, SaysType
  <2>3. AssetTypeOK'
    BY <1>2, <2>2 DEF AssetInv, AssetTypeOK, Task, Served
  <2>4. TasksFit' /\ \A u \in Texts : Asking(u)' => u # t /\ Asking(u) /\ task'[u] = task[u]
    BY <2>2, SaysFits
  <2>5. OneLoads'
    BY <1>2, <2>4 DEF AssetInv, OneLoads
  <2>6. ShownIsKept'
    BY <1>1, <1>2, <2>1, <2>2 DEF AssetInv, ShownIsKept
  <2> QED BY <2>3, <2>4, <2>5, <2>6 DEF AssetInv
<1>5. CASE books[l] = Unknown /\ Asks(t)
  <2>1. task' = [task EXCEPT ![t].step = "asking"] /\ shown' = shown
    BY <1>5 DEF Asks
  <2>2. /\ task' \in [Texts -> Task] /\ task'[t].step = "asking" /\ task'[t].lang = l
        /\ \A u \in Texts \ {t} : task'[u] = task[u]
    BY <1>1, <2>1 DEF Task
  <2>3. AssetTypeOK'
    BY <1>2, <2>1, <2>2 DEF AssetInv, AssetTypeOK, Task, Served
  <2>4. TasksFit'
    BY <1>1, <2>2 DEF AssetInv, TasksFit
  <2>5. \A u \in Texts : ~(Asking(u) /\ task[u].lang = l)
    BY <1>1 DEF Loading, Asking
  <2>6. \A u \in Texts \ {t} : Asking(u)' <=> Asking(u)
    BY <2>2 DEF Asking
  <2>7. OneLoads'
    BY <1>2, <1>5, <2>2, <2>5, <2>6 DEF AssetInv, OneLoads
  <2> QED BY <1>2, <2>1, <2>3, <2>4, <2>7 DEF AssetInv, ShownIsKept
<1> QED BY <1>4, <1>5 DEF BookGet

LEMMA StepBookAnswered ==
  ASSUME AssetInv, NEW t \in Texts, BookAnswered(t)
  PROVE  AssetInv'
<1> DEFINE l == task[t].lang
           book == task[t].answer.book
<1>1. /\ task[t].step = "answered" /\ l \in Langs /\ task \in [Texts -> Task]
      /\ task[t].answer.by \in Releases /\ book \in Book \cup {Unknown}
  BY TaskParts DEF BookAnswered
<1>2. /\ VersionApply(task[t].answer.by) /\ Says(t, book)
      /\ books' = [books EXCEPT ![l] = IF book # Unknown THEN book ELSE @]
      /\ UNCHANGED <<assetCase, fleet, slot, answers, lang, errors>>
  BY DEF BookAnswered, release
<1> HIDE DEF l, book
<1>3. books \in [Langs -> Book \cup {Unknown}]
  BY DEF AssetInv, AssetTypeOK
<1>4. /\ books' \in [Langs -> Book \cup {Unknown}] /\ (book # Unknown => books'[l] = book)
      /\ \A k \in Langs \ {l} : books'[k] = books[k]
      /\ book = Unknown => books' = books
  BY <1>1, <1>2, <1>3
<1>5. /\ page' \in [release : Releases, life : {"running", "reloading", "broken"}]
      /\ storage' \in [last : Releases \cup {Unknown}, target : Releases \cup {Unknown}]
  BY <1>1, <1>2, VersionType
<1>6. /\ task' \in [Texts -> Task] /\ task'[t] = Idle
      /\ \A u \in Texts \ {t} : task'[u] = task[u] /\ shown'[u] = shown[u]
      /\ shown' \in [Texts -> [lang : Langs, book : Book \cup {Unknown}] \cup {Unknown}]
      /\ shown'[t] # Unknown => /\ book # Unknown
                                /\ shown'[t].lang = task[t].lang /\ shown'[t].book = book
  BY <1>1, <1>2, SaysType
<1>7. AssetTypeOK'
  BY <1>2, <1>4, <1>5, <1>6 DEF AssetInv, AssetTypeOK, Task, Served
<1>8. TasksFit' /\ \A u \in Texts : Asking(u)' => u # t /\ Asking(u) /\ task'[u] = task[u]
  BY <1>6, SaysFits
<1>9. Asking(t) /\ books[l] = Unknown /\ task[t].lang = l
  BY <1>1 DEF AssetInv, OneLoads, Asking, l
<1>10. OneLoads'
  <2>1. \A u \in Texts : Asking(u)' => task[u].lang \in Langs \ {l}
    BY <1>8, <1>9, TaskParts DEF AssetInv, OneLoads, Asking
  <2> QED BY <1>4, <1>8, <2>1 DEF AssetInv, OneLoads
<1>11. ShownIsKept'
  <2>1. ASSUME NEW u \in Texts \ {t}, shown'[u] # Unknown
        PROVE  /\ shown'[u].lang \in Langs /\ shown'[u].book \in Book
               /\ books'[shown'[u].lang] = shown'[u].book
    <3>1. /\ shown[u].lang \in Langs /\ shown[u].book \in Book
          /\ books[shown[u].lang] = shown[u].book
      BY <1>6, <2>1 DEF AssetInv, ShownIsKept
    <3>2. shown[u].lang # l
      BY <1>9, <3>1, Values
    <3> QED BY <1>4, <1>6, <3>1, <3>2
  <2>2. shown'[t] # Unknown => /\ shown'[t].lang \in Langs /\ shown'[t].book \in Book
                               /\ books'[shown'[t].lang] = shown'[t].book
    BY <1>1, <1>4, <1>6, <1>9
  <2> QED BY <2>1, <2>2 DEF ShownIsKept
<1> QED BY <1>7, <1>8, <1>10, <1>11 DEF AssetInv

LEMMA StepBookLost ==
  ASSUME AssetInv, NEW t \in Texts, BookLost(t)
  PROVE  AssetInv'
<1>1. /\ task[t].step # "idle" /\ Says(t, Unknown)
      /\ UNCHANGED <<assetCase, fleet, slot, page, storage, answers, lang, books>>
  BY DEF BookLost, release
<1>2. errors' \in 0 .. assetCase.errors
  <2>1. errors \in 0 .. assetCase.errors /\ assetCase.errors \in Nat
    BY Values DEF AssetInv, AssetTypeOK
  <2> QED BY <2>1 DEF BookLost
<1>3. /\ task' \in [Texts -> Task] /\ task'[t] = Idle
      /\ \A u \in Texts \ {t} : task'[u] = task[u] /\ shown'[u] = shown[u]
      /\ shown' \in [Texts -> [lang : Langs, book : Book \cup {Unknown}] \cup {Unknown}]
      /\ shown'[t] = Unknown
  BY <1>1, SaysType
<1>4. AssetTypeOK'
  BY <1>1, <1>2, <1>3 DEF AssetInv, AssetTypeOK, Task, Served
<1>5. TasksFit' /\ \A u \in Texts : Asking(u)' => u # t /\ Asking(u) /\ task'[u] = task[u]
  BY <1>3, SaysFits
<1>6. OneLoads'
  BY <1>1, <1>5 DEF AssetInv, OneLoads
<1>7. ShownIsKept'
  BY <1>1, <1>3 DEF AssetInv, ShownIsKept
<1> QED BY <1>4, <1>5, <1>6, <1>7 DEF AssetInv

LEMMA EachStep ==
  ASSUME AssetInv, [AssetNext]_assetVars
  PROVE  AssetInv'
<1>1. CASE UNCHANGED assetVars
  <2>1. UNCHANGED <<assetCase, fleet, slot, page, storage, answers, lang, books, task, shown, errors>>
    BY <1>1 DEF assetVars, release, texts
  <2>2. AssetTypeOK'
    BY <2>1 DEF AssetInv, AssetTypeOK
  <2> QED BY <2>1, <2>2, TextsStay DEF texts
<1>2. CASE AssetNext
  BY <1>2, StepRollout, StepCalls, StepLoad, StepBookServed, StepDraw, StepBookGet,
     StepBookAnswered, StepBookLost, StepChooseLang DEF AssetNext
<1> QED BY <1>1, <1>2

-----------------------------------------------------------------------------
(* Theorems. *)

\* One text at a time loads the book of a language, and every text shows the
\* book its page keeps (FluentManager::book_getWith).
THEOREM AssetInvariant == AssetSpec => []AssetInv
<1>1. AssetInit => AssetInv
  BY AtFirst
<1>2. AssetInv /\ [AssetNext]_assetVars => AssetInv'
  BY EachStep
<1> QED BY <1>1, <1>2, PTL DEF AssetSpec

\* Every variable has its type.
THEOREM AssetTypes == AssetSpec => []AssetTypeOK
<1>1. AssetInv => AssetTypeOK
  BY DEF AssetInv
<1> QED BY <1>1, AssetInvariant, PTL

\* The texts of a page in one language come from one book, whichever servers of
\* whichever release answer.
THEOREM TextsShare == AssetSpec => []TextsShareTheirBook
<1>1. AssetInv => TextsShareTheirBook
  BY DEF AssetInv, ShownIsKept, TextsShareTheirBook
<1> QED BY <1>1, AssetInvariant, PTL

-----------------------------------------------------------------------------
(* Numbers. *)

\* A set of numbers has a least: what stands for induction below.
LEMMA NatHasLeast ==
  ASSUME NEW T, T \subseteq Nat, T # {}
  PROVE  \E x \in T : \A y \in T : x <= y
<1>1. IsWellFoundedOn(OpToRel(<, Nat), Nat)
  BY NatLessThanWellFounded
<1>2. PICK x \in T : \A y \in T : ~(<<y, x>> \in OpToRel(<, Nat))
  BY <1>1, WFMin, Zenon
<1>3. \A y \in T : ~(y < x)
  BY <1>2 DEF OpToRel
<1> QED BY <1>3

\* A set of numbers below a bound has a greatest.
LEMMA BoundedHasGreatest ==
  ASSUME NEW T, T \subseteq Nat, T # {}, NEW b \in Nat, \A y \in T : y <= b
  PROVE  \E x \in T : \A y \in T : y <= x
<1> DEFINE U == {c \in Nat : \A y \in T : y <= c}
<1>1. PICK c \in U : \A d \in U : c <= d
  <2>1. b \in U /\ U \subseteq Nat
    OBVIOUS
  <2> HIDE DEF U
  <2> QED BY <2>1, NatHasLeast
<1>2. c \in T
  <2> SUFFICES ASSUME c \notin T PROVE FALSE
    OBVIOUS
  <2>1. PICK y \in T : TRUE
    OBVIOUS
  <2>2. c \in Nat /\ c > 0
    BY <1>1, <2>1
  <2>3. c - 1 \in U
    BY <1>1, <2>2
  <2> QED BY <1>1, <2>2, <2>3
<1> QED BY <1>1, <1>2

-----------------------------------------------------------------------------
(* Sequences. *)

\* A recursive function of sequences exists: FlattenSeq is its last value.
LEMMA FlattenIs ==
  ASSUME NEW S, NEW seqs \in Seq(Seq(S)), seqs # << >>
  PROVE  \E f \in [1 .. Len(seqs) -> Seq(S)] :
           /\ FlattenSeq(seqs) = f[Len(seqs)]
           /\ \A i \in 1 .. Len(seqs) : f[i] = IF i = 1 THEN seqs[i] ELSE f[i - 1] \o seqs[i]
<1> DEFINE n == Len(seqs)
           Is(f, m) == \A i \in 1 .. m : f[i] = IF i = 1 THEN seqs[i] ELSE f[i - 1] \o seqs[i]
           Exists(m) == \E f : f = [i \in 1 .. m |-> f[i]] /\ Is(f, m)
           flatten[i \in 1 .. n] == IF i = 1 THEN seqs[i] ELSE flatten[i - 1] \o seqs[i]
<1>1. n \in Nat \ {0} /\ \A i \in 1 .. n : seqs[i] \in Seq(S)
  BY EmptySeq, ElementOfSeq
<1>2. FlattenSeq(seqs) = flatten[n]
  BY <1>1 DEF FlattenSeq, flatten
<1>3. \A m \in 1 .. n : Exists(m)
  <2> DEFINE Bad == {m \in 1 .. n : ~Exists(m)}
  <2> SUFFICES ASSUME Bad # {} PROVE FALSE
    OBVIOUS
  <2>1. PICK m \in Bad : \A k \in Bad : m <= k
    <3>1. Bad \subseteq Nat
      BY <1>1
    <3> HIDE DEF Bad
    <3> QED BY <3>1, NatHasLeast
  <2>2. m \in 1 .. n /\ ~Exists(m)
    OBVIOUS
  <2>3. m = 1 \/ (m - 1 \in 1 .. n /\ Exists(m - 1))
    <3> HIDE DEF n, Exists
    <3> QED BY <1>1, <2>1, <2>2
  <2>4. CASE m = 1
    <3> DEFINE f == [i \in 1 .. m |-> seqs[1]]
    <3>1. f = [i \in 1 .. m |-> f[i]] /\ Is(f, m)
      BY <1>1, <2>4
    <3> HIDE DEF f
    <3> QED BY <2>2, <3>1
  <2>5. CASE m - 1 \in 1 .. n /\ Exists(m - 1)
    <3>1. PICK f : f = [i \in 1 .. m - 1 |-> f[i]] /\ Is(f, m - 1)
      BY <2>5
    <3> DEFINE g == [i \in 1 .. m |-> IF i = m THEN f[m - 1] \o seqs[m] ELSE f[i]]
    <3> HIDE DEF n
    <3>2. m \in Nat /\ m # 1
      BY <1>1, <2>2, <2>5
    <3>3. g = [i \in 1 .. m |-> g[i]]
      OBVIOUS
    <3>4. ASSUME NEW i \in 1 .. m PROVE g[i] = IF i = 1 THEN seqs[i] ELSE g[i - 1] \o seqs[i]
      <4>1. CASE i = m
        <5>1. m \in 1 .. m /\ m - 1 \in 1 .. m /\ m - 1 # m
          BY <3>2, <4>1
        <5>2. g[m] = f[m - 1] \o seqs[m] /\ g[m - 1] = f[m - 1]
          BY <5>1
        <5> HIDE DEF g
        <5> QED BY <3>2, <4>1, <5>2
      <4>2. CASE i # m
        <5>1. i \in 1 .. m - 1 /\ (i = 1 \/ i - 1 \in 1 .. m - 1)
          BY <3>2, <4>2
        <5>2. f[i] = IF i = 1 THEN seqs[i] ELSE f[i - 1] \o seqs[i]
          BY <3>1, <5>1
        <5>3. g[i] = f[i] /\ (i # 1 => g[i - 1] = f[i - 1])
          BY <3>2, <4>2, <5>1
        <5> HIDE DEF g
        <5> QED BY <5>2, <5>3
      <4> QED BY <4>1, <4>2
    <3>5. Is(g, m)
      BY <3>4
    <3> HIDE DEF g
    <3> QED BY <2>2, <3>3, <3>5
  <2> QED BY <2>3, <2>4, <2>5
<1>4. PICK f : f = [i \in 1 .. n |-> f[i]] /\ Is(f, n)
  <2>1. n \in 1 .. n
    BY <1>1
  <2>2. Exists(n)
    <3> HIDE DEF n, Exists
    <3> QED BY <1>3, <2>1
  <2> QED BY <2>2
<1>5. f = [i \in 1 .. n |-> IF i = 1 THEN seqs[i] ELSE f[i - 1] \o seqs[i]]
  BY <1>4
<1>6. flatten = [i \in 1 .. n |-> IF i = 1 THEN seqs[i] ELSE flatten[i - 1] \o seqs[i]]
  BY <1>5 DEF flatten
<1> HIDE DEF flatten
<1>7. \A i \in 1 .. n : flatten[i] \in Seq(S)
  <2> DEFINE Bad == {i \in 1 .. n : flatten[i] \notin Seq(S)}
  <2> SUFFICES ASSUME Bad # {} PROVE FALSE
    OBVIOUS
  <2>1. PICK m \in Bad : \A k \in Bad : m <= k
    <3>1. Bad \subseteq Nat
      BY <1>1
    <3> HIDE DEF Bad
    <3> QED BY <3>1, NatHasLeast
  <2>2. m \in 1 .. n /\ flatten[m] = IF m = 1 THEN seqs[m] ELSE flatten[m - 1] \o seqs[m]
    BY <1>6
  <2>3. CASE m = 1
    BY <1>1, <2>2, <2>3
  <2>4. CASE m # 1
    <3>1. m - 1 \in 1 .. n /\ m - 1 < m
      BY <1>1, <2>2, <2>4
    <3>2. flatten[m - 1] \in Seq(S)
      BY <1>1, <2>1, <3>1
    <3>3. seqs[m] \in Seq(S)
      BY <1>1, <2>2
    <3>4. flatten[m - 1] \o seqs[m] \in Seq(S)
      BY <3>2, <3>3, ConcatProperties
    <3> QED BY <2>2, <2>4, <3>4
  <2> QED BY <2>3, <2>4
<1> QED BY <1>1, <1>2, <1>6, <1>7

LEMMA BreakIsText == NL \in Chars /\ <<NL>> \in Text /\ Len(<<NL>>) = 1 /\ <<NL>>[1] = NL
<1>1. NL \in Chars
  BY TodoAssumption
<1> QED BY <1>1 DEF Text

\* The text of lines, line by line.
LEMMA JoinedIs ==
  ASSUME NEW lines \in Seq(Text), lines # << >>
  PROVE  \E f \in [1 .. Len(lines) -> Text] :
           /\ Joined(lines) = f[Len(lines)]
           /\ f[1] = lines[1]
           /\ \A i \in 2 .. Len(lines) : f[i] = f[i - 1] \o (<<NL>> \o lines[i])
<1> DEFINE seqs == [k \in DOMAIN lines |-> IF k = 1 THEN lines[k] ELSE <<NL>> \o lines[k]]
           n == Len(lines)
<1>1. n \in Nat \ {0} /\ DOMAIN lines = 1 .. n /\ \A i \in 1 .. n : lines[i] \in Text
  BY EmptySeq, LenProperties, ElementOfSeq
<1>2. seqs \in Seq(Text) /\ Len(seqs) = n /\ seqs # << >>
  <2>1. \A k \in 1 .. n : seqs[k] \in Text
    <3> SUFFICES ASSUME NEW k \in 1 .. n PROVE (IF k = 1 THEN lines[k] ELSE <<NL>> \o lines[k]) \in Text
      BY <1>1
    <3>1. lines[k] \in Text
      BY <1>1
    <3>2. <<NL>> \o lines[k] \in Text
      BY <3>1, BreakIsText, ConcatProperties DEF Text
    <3> QED BY <3>1, <3>2
  <2>2. seqs = [k \in 1 .. n |-> seqs[k]]
    BY <1>1
  <2> HIDE DEF seqs, n
  <2>3. seqs \in [1 .. n -> Text]
    BY <2>1, <2>2
  <2> QED BY <1>1, <2>3
<1>3. \A i \in 1 .. n : seqs[i] = IF i = 1 THEN lines[i] ELSE <<NL>> \o lines[i]
  BY <1>1
<1>4. Joined(lines) = FlattenSeq(seqs)
  BY DEF Joined
<1> HIDE DEF seqs, n
<1>5. PICK f \in [1 .. n -> Text] :
         /\ FlattenSeq(seqs) = f[n]
         /\ \A i \in 1 .. n : f[i] = IF i = 1 THEN seqs[i] ELSE f[i - 1] \o seqs[i]
  BY <1>2, FlattenIs DEF Text
<1>6. f[1] = lines[1]
  <2>1. 1 \in 1 .. n /\ seqs[1] = lines[1]
    BY <1>1, <1>3
  <2> QED BY <1>5, <2>1
<1>7. ASSUME NEW i \in 2 .. n PROVE f[i] = f[i - 1] \o (<<NL>> \o lines[i])
  <2>1. i \in 1 .. n /\ i # 1
    BY <1>1
  <2>2. seqs[i] = <<NL>> \o lines[i]
    BY <1>3, <2>1
  <2> QED BY <1>5, <2>1, <2>2
<1> QED BY <1>4, <1>5, <1>6, <1>7 DEF n

LEMMA GluedAtBreak ==
  ASSUME NEW text \in Text, NEW b \in 1 .. Len(text), text[b] = NL, NEW a \in 1 .. b,
         NEW c \in b .. Len(text)
  PROVE  SubSeq(text, a, b - 1) \o (<<NL>> \o SubSeq(text, b + 1, c)) = SubSeq(text, a, c)
<1>1. Len(text) \in Nat
  BY LenProperties DEF Text
<1>2. SubSeq(text, b, c) = <<NL>> \o SubSeq(text, b + 1, c)
  BY SubSeqRecursiveFirst DEF Text
<1>3. a \in 1 .. Len(text) + 1 /\ b - 1 \in a - 1 .. Len(text) /\ c \in b - 1 .. Len(text)
  BY <1>1
<1>4. SubSeq(text, a, b - 1) \o SubSeq(text, (b - 1) + 1, c) = SubSeq(text, a, c)
  BY <1>3, ConcatAdjacentSubSeq DEF Text
<1>5. (b - 1) + 1 = b
  BY <1>1
<1> QED BY <1>2, <1>4, <1>5

\* Lines cut out of a text at its breaks are joined to what was between the cuts.
LEMMA JoinedOfCuts ==
  ASSUME NEW text \in Text, NEW lines \in Seq(Text), lines # << >>,
         NEW e \in [0 .. Len(lines) -> 0 .. Len(text) + 1],
         \A k \in 1 .. Len(lines) : /\ e[k - 1] < e[k]
                                    /\ lines[k] = SubSeq(text, e[k - 1] + 1, e[k] - 1),
         \A k \in 1 .. Len(lines) - 1 : e[k] <= Len(text) /\ text[e[k]] = NL
  PROVE  Joined(lines) = SubSeq(text, e[0] + 1, e[Len(lines)] - 1)
<1> DEFINE n == Len(lines)
           Upto(f, k) == e[0] < e[k] /\ f[k] = SubSeq(text, e[0] + 1, e[k] - 1)
<1>1. n \in Nat \ {0} /\ Len(text) \in Nat
  BY EmptySeq, LenProperties DEF Text
<1>2. PICK f \in [1 .. n -> Text] :
         /\ Joined(lines) = f[n] /\ f[1] = lines[1]
         /\ \A i \in 2 .. n : f[i] = f[i - 1] \o (<<NL>> \o lines[i])
  BY JoinedIs
<1> DEFINE Bad == {k \in 1 .. n : ~Upto(f, k)}
<1>3. Bad = {}
  <2> SUFFICES ASSUME Bad # {} PROVE FALSE
    OBVIOUS
  <2>1. PICK m \in Bad : \A k \in Bad : m <= k
    <3>1. Bad \subseteq Nat
      BY <1>1
    <3> HIDE DEF Bad
    <3> QED BY <3>1, NatHasLeast
  <2>2. m \in 1 .. n /\ ~Upto(f, m)
    OBVIOUS
  <2> HIDE DEF n
  <2>3. /\ e[0] \in Nat /\ e[m] \in 0 .. Len(text) + 1 /\ e[m - 1] \in 0 .. Len(text) + 1
        /\ e[m - 1] < e[m] /\ lines[m] = SubSeq(text, e[m - 1] + 1, e[m] - 1)
    <3>1. 0 \in 0 .. n /\ m \in 0 .. n /\ m - 1 \in 0 .. n
      BY <1>1, <2>2
    <3>2. \A k \in 0 .. n : e[k] \in 0 .. Len(text) + 1
      BY DEF n
    <3>3. e[m - 1] < e[m] /\ lines[m] = SubSeq(text, e[m - 1] + 1, e[m] - 1)
      BY <2>2 DEF n
    <3>4. e[0] \in 0 .. Len(text) + 1 /\ e[m] \in 0 .. Len(text) + 1 /\ e[m - 1] \in 0 .. Len(text) + 1
      BY <3>1, <3>2
    <3> QED BY <1>1, <3>3, <3>4
  <2>4. CASE m = 1
    <3>1. f[m] = lines[m] /\ m - 1 = 0
      BY <1>2, <2>4
    <3> QED BY <2>2, <2>3, <3>1
  <2>5. CASE m # 1
    <3>1. m - 1 \in 1 .. n /\ m - 1 < m /\ m \in 2 .. n /\ m - 1 \in 1 .. n - 1
      BY <1>1, <2>2, <2>5
    <3>2. m - 1 \notin Bad
      <4>1. m \in Nat /\ m - 1 \in Nat /\ ~(m <= m - 1)
        BY <1>1, <2>2, <3>1
      <4> HIDE DEF Bad
      <4> QED BY <2>1, <4>1
    <3>3. Upto(f, m - 1)
      BY <3>1, <3>2
    <3>4. e[m - 1] <= Len(text) /\ text[e[m - 1]] = NL
      BY <3>1 DEF n
    <3>5. /\ e[m - 1] \in 1 .. Len(text) /\ e[0] + 1 \in 1 .. e[m - 1] /\ e[m] - 1 \in e[m - 1] .. Len(text)
          /\ e[0] < e[m]
      <4>1. e[0] < e[m - 1]
        BY <3>3
      <4> DEFINE x == e[0]  y == e[m - 1]  z == e[m]
      <4>2. x \in Nat /\ y \in Nat /\ z \in 0 .. Len(text) + 1 /\ x < y /\ y < z /\ y <= Len(text)
        BY <1>1, <2>3, <3>4, <4>1
      <4> HIDE DEF x, y, z
      <4>3. y \in 1 .. Len(text) /\ x + 1 \in 1 .. y /\ z - 1 \in y .. Len(text) /\ x < z
        BY <1>1, <4>2
      <4> QED BY <4>3 DEF x, y, z
    <3>6. f[m] = SubSeq(text, e[0] + 1, e[m - 1] - 1) \o (<<NL>> \o SubSeq(text, e[m - 1] + 1, e[m] - 1))
      BY <1>2, <2>3, <3>1, <3>3
    <3>7. f[m] = SubSeq(text, e[0] + 1, e[m] - 1)
      BY <3>4, <3>5, <3>6, GluedAtBreak
    <3> QED BY <2>2, <3>5, <3>7
  <2> QED BY <2>4, <2>5
<1>4. Upto(f, n)
  <2>1. n \in 1 .. n
    BY <1>1
  <2> QED BY <1>3, <2>1
<1> QED BY <1>2, <1>4

-----------------------------------------------------------------------------
(* The lines of a text. *)

\* The numbers of a finite set, in order: one for each rank.
LEMMA RankedIs ==
  ASSUME NEW E \in SUBSET Nat, IsFiniteSet(E), NEW last \in E, \A i \in E : i <= last,
         NEW k \in 1 .. Cardinality(E)
  PROVE  \E e \in E : Cardinality({i \in E : i < e}) = k - 1
<1> DEFINE before(e) == {i \in E : i < e}
           rank(e) == Cardinality(before(e))
           Late == {e \in E : rank(e) >= k - 1}
<1>1. Cardinality(E) \in Nat /\ k \in Nat \ {0} /\ k <= Cardinality(E)
  BY FS_CardinalityType
<1>2. \A e : IsFiniteSet(before(e)) /\ rank(e) \in Nat
  BY FS_Subset, FS_CardinalityType
<1>3. rank(last) = Cardinality(E) - 1
  <2>1. before(last) = E \ {last}
    <3>1. \A i \in E : i < last <=> i # last
      OBVIOUS
    <3> QED BY <3>1
  <2> HIDE DEF before
  <2> QED BY <2>1, FS_RemoveElement
<1>4. last \in Late
  <2> HIDE DEF rank
  <2> QED BY <1>1, <1>3
<1>5. PICK e \in Late : \A d \in Late : e <= d
  <2>1. Late \subseteq Nat
    OBVIOUS
  <2> HIDE DEF Late
  <2> QED BY <1>4, <2>1, NatHasLeast
<1>6. CASE before(e) = {}
  <2>1. rank(e) = 0
    <3> HIDE DEF before
    <3> QED BY <1>6, FS_EmptySet
  <2>2. e \in E /\ rank(e) >= k - 1
    OBVIOUS
  <2> HIDE DEF rank
  <2>3. rank(e) = k - 1
    BY <1>1, <2>1, <2>2
  <2> QED BY <2>2, <2>3 DEF rank
<1>7. CASE before(e) # {}
  <2>1. PICK p \in before(e) : \A i \in before(e) : i <= p
    <3>1. e \in Nat /\ E \subseteq Nat
      OBVIOUS
    <3>2. before(e) \subseteq Nat /\ \A i \in before(e) : i <= e
      <4> SUFFICES ASSUME NEW i \in before(e) PROVE i \in Nat /\ i <= e
        OBVIOUS
      <4>1. i \in E /\ i < e
        OBVIOUS
      <4> HIDE DEF before, Late
      <4> QED BY <3>1, <4>1
    <3> HIDE DEF before
    <3> QED BY <1>7, <3>1, <3>2, BoundedHasGreatest
  <2>2. before(e) = before(p) \cup {p} /\ p \notin before(p)
    <3>1. e \in Nat /\ E \subseteq Nat /\ p \in E /\ p < e
      OBVIOUS
    <3>2. \A i \in E : i < e => i <= p
      BY <2>1
    <3>3. \A i \in E : i < e <=> (i < p \/ i = p)
      BY <3>1, <3>2
    <3>4. ~(p < p)
      BY <3>1
    <3> QED BY <3>1, <3>3, <3>4
  <2>3. rank(e) = rank(p) + 1
    <3> HIDE DEF before
    <3> QED BY <1>2, <2>2, FS_AddElement
  <2>4. p \in E /\ p < e /\ e \in Nat /\ p \in Nat
    OBVIOUS
  <2>5. ~(rank(p) >= k - 1) /\ rank(e) >= k - 1
    <3> HIDE DEF rank
    <3> QED BY <1>5, <2>4
  <2> HIDE DEF rank
  <2>6. rank(e) = k - 1
    <3>1. rank(e) \in Nat /\ rank(p) \in Nat
      BY <1>2
    <3> QED BY <1>1, <2>3, <2>5, <3>1
  <2> QED BY <1>5, <2>6 DEF rank
<1> QED BY <1>6, <1>7

LEMMA EndsAre ==
  ASSUME NEW text \in Text
  PROVE  /\ Ends(text) \subseteq 1 .. Len(text) + 1 /\ IsFiniteSet(Ends(text))
         /\ Cardinality(Ends(text)) \in Nat \ {0}
         /\ \A k \in 0 .. Cardinality(Ends(text)) : EndOf(text, k) \in 0 .. Len(text) + 1
         /\ \A k \in 1 .. Cardinality(Ends(text)) : EndOf(text, k - 1) < EndOf(text, k)
         /\ EndOf(text, 0) = 0 /\ EndOf(text, Cardinality(Ends(text))) = Len(text) + 1
         /\ \A k \in 1 .. Cardinality(Ends(text)) - 1 :
              EndOf(text, k) <= Len(text) /\ text[EndOf(text, k)] = NL
<1> DEFINE E == Ends(text)
           n == Cardinality(E)
           last == Len(text) + 1
           before(e) == {i \in E : i < e}
           rank(e) == Cardinality(before(e))
           at(k) == EndOf(text, k)
<1>1. Len(text) \in Nat /\ DOMAIN text = 1 .. Len(text)
  BY LenProperties DEF Text
<1>2. E \subseteq 1 .. last /\ last \in E
  BY <1>1 DEF Ends
<1>3. IsFiniteSet(E)
  <2>1. last \in Int /\ IsFiniteSet(1 .. last)
    BY <1>1, FS_Interval
  <2> HIDE DEF E
  <2> QED BY <1>2, <2>1, FS_Subset
<1>4. n \in Nat \ {0}
  BY <1>2, <1>3, FS_CardinalityType, FS_EmptySet
<1>5. ASSUME NEW k \in 1 .. n PROVE at(k) \in E /\ rank(at(k)) = k - 1
  <2>1. E \in SUBSET Nat /\ \A i \in E : i <= last
    BY <1>1, <1>2
  <2>2. \E e \in E : rank(e) = k - 1
    <3> HIDE DEF E, last
    <3> QED BY <1>2, <1>3, <2>1, RankedIs
  <2>3. at(k) = CHOOSE e \in E : rank(e) = k - 1
    <3>1. k # 0
      BY <1>4
    <3> QED BY <3>1 DEF EndOf
  <2> HIDE DEF at, rank, E
  <2> QED BY <2>2, <2>3
<1>6. \A e : before(e) \subseteq E /\ IsFiniteSet(before(e)) /\ rank(e) \in Nat
  BY <1>3, FS_Subset, FS_CardinalityType
<1>7. at(0) = 0
  BY DEF EndOf
<1>8. \A k \in 0 .. n : at(k) \in 0 .. last
  <2> SUFFICES ASSUME NEW k \in 0 .. n PROVE at(k) \in 0 .. last
    OBVIOUS
  <2> HIDE DEF at, rank, n
  <2>1. k = 0 \/ k \in 1 .. n
    BY <1>4
  <2>2. CASE k = 0
    BY <1>1, <1>7, <2>2
  <2>3. CASE k \in 1 .. n
    <3>1. at(k) \in E
      BY <1>5, <2>3
    <3>2. at(k) \in 1 .. last
      <4> HIDE DEF E, last
      <4> QED BY <1>2, <3>1
    <3> QED BY <1>1, <3>2
  <2> QED BY <2>1, <2>2, <2>3
<1> HIDE DEF at
<1>9. ASSUME NEW k \in 1 .. n PROVE at(k - 1) < at(k)
  <2>1. at(k) \in E /\ at(k) \in Nat /\ at(k) >= 1 /\ k \in Nat
    <3>1. at(k) \in E
      BY <1>5
    <3>2. at(k) \in 1 .. last
      <4> HIDE DEF E, last
      <4> QED BY <1>2, <3>1
    <3> HIDE DEF n
    <3> QED BY <1>1, <1>4, <3>1, <3>2
  <2>2. k = 1 \/ k - 1 \in 1 .. n
    <3> HIDE DEF n
    <3> QED BY <1>4
  <2>3. CASE k = 1
    BY <1>7, <2>1, <2>3
  <2>4. CASE k - 1 \in 1 .. n
    <3> DEFINE d == at(k - 1)  e == at(k)
    <3>1. d \in E /\ rank(d) = (k - 1) - 1 /\ rank(e) = k - 1
      BY <1>5, <2>4
    <3>2. d \in Nat /\ e \in Nat
      <4>1. d \in 1 .. last
        <5> HIDE DEF E, last, rank, d
        <5> QED BY <1>2, <3>1
      <4> QED BY <1>1, <2>1, <4>1
    <3> HIDE DEF d, e
    <3> SUFFICES ASSUME ~(d < e) PROVE FALSE
      BY DEF d, e
    <3>3. e <= d
      BY <3>2
    <3>4. before(e) \subseteq before(d)
      <4>1. \A i \in E : i < e => i < d
        <5> HIDE DEF E
        <5> QED BY <1>1, <1>2, <3>2, <3>3
      <4> QED BY <4>1
    <3>5. rank(e) <= rank(d)
      <4> HIDE DEF before
      <4> QED BY <1>6, <3>4, FS_Subset
    <3> HIDE DEF rank
    <3> QED BY <2>1, <3>1, <3>5
  <2> QED BY <2>2, <2>3, <2>4
<1>10. at(n) = last
  <2>1. n \in 1 .. n
    BY <1>4
  <2> DEFINE e == at(n)
  <2>2. e \in E /\ rank(e) = n - 1
    BY <1>5, <2>1
  <2> HIDE DEF e
  <2> SUFFICES ASSUME e # last PROVE FALSE
    BY DEF e
  <2>3. before(e) \subseteq (E \ {last}) \ {e}
    <3>1. \A i \in E : i < e => i # last /\ i # e
      <4>1. e \in 1 .. last /\ last \in Nat
        <5> HIDE DEF E, rank
        <5> QED BY <1>1, <1>2, <2>2
      <4> HIDE DEF E
      <4> QED BY <1>1, <1>2, <4>1
    <3> QED BY <3>1
  <2>4. /\ IsFiniteSet(E \ {last}) /\ Cardinality(E \ {last}) = n - 1
        /\ IsFiniteSet((E \ {last}) \ {e}) /\ Cardinality((E \ {last}) \ {e}) = (n - 1) - 1
    <3> HIDE DEF E, rank, last
    <3>1. IsFiniteSet(E \ {last}) /\ Cardinality(E \ {last}) = n - 1
      BY <1>2, <1>3, FS_RemoveElement
    <3>2. e \in E \ {last}
      BY <2>2
    <3> QED BY <3>1, <3>2, FS_RemoveElement
  <2>5. rank(e) <= (n - 1) - 1
    <3> HIDE DEF E, before
    <3> QED BY <2>3, <2>4, FS_Subset
  <2> HIDE DEF rank, n
  <2> QED BY <1>4, <2>2, <2>5
<1>11. ASSUME NEW k \in 1 .. n - 1 PROVE at(k) <= Len(text) /\ text[at(k)] = NL
  <2>1. k \in 1 .. n /\ k + 1 \in 1 .. n /\ (k + 1) - 1 = k
    <3> HIDE DEF n
    <3> QED BY <1>4
  <2>2. at(k) < at(k + 1)
    BY <1>9, <2>1
  <2>3. at(k + 1) \in 0 .. last /\ at(k) \in 0 .. last
    <3>1. k \in 0 .. n /\ k + 1 \in 0 .. n
      <4> HIDE DEF n
      <4> QED BY <1>4, <2>1
    <3> QED BY <1>8, <3>1
  <2>4. at(k) \in E
    BY <1>5, <2>1
  <2>5. at(k) # last /\ at(k) <= Len(text)
    BY <1>1, <2>2, <2>3
  <2> QED BY <2>4, <2>5 DEF Ends
<1> QED BY <1>2, <1>3, <1>4, <1>7, <1>8, <1>9, <1>10, <1>11 DEF at

LEMMA LinesAre ==
  ASSUME NEW text \in Text
  PROVE  /\ Lines(text) \in Seq(Text) /\ Lines(text) # << >>
         /\ Len(Lines(text)) = Cardinality(Ends(text))
         /\ \A k \in 1 .. Cardinality(Ends(text)) :
              Lines(text)[k] = SubSeq(text, EndOf(text, k - 1) + 1, EndOf(text, k) - 1)
<1> DEFINE n == Cardinality(Ends(text))
           cut(k) == SubSeq(text, EndOf(text, k - 1) + 1, EndOf(text, k) - 1)
<1>1. n \in Nat \ {0} /\ Len(text) \in Nat /\ \A i \in 1 .. Len(text) : text[i] \in Chars
  BY EndsAre, LenProperties, ElementOfSeq DEF Text
<1>2. Lines(text) = [k \in 1 .. n |-> cut(k)]
  BY DEF Lines
<1>3. ASSUME NEW k \in 1 .. n PROVE cut(k) \in Text
  <2> DEFINE a == EndOf(text, k - 1)  b == EndOf(text, k)
  <2>1. k \in 0 .. n /\ k - 1 \in 0 .. n
    <3> HIDE DEF n
    <3> QED BY <1>1
  <2>2. a \in 0 .. Len(text) + 1 /\ b \in 0 .. Len(text) + 1
    BY <2>1, EndsAre
  <2> HIDE DEF a, b
  <2>3. a + 1 \in Int /\ b - 1 \in Int /\ \A i \in a + 1 .. b - 1 : text[i] \in Chars
    BY <1>1, <2>2
  <2>4. SubSeq(text, a + 1, b - 1) \in Seq(Chars)
    BY <2>3, SubSeqProperties
  <2> QED BY <2>4 DEF a, b, Text
<1> HIDE DEF cut, n
<1>4. Lines(text) \in [1 .. n -> Text] /\ \A k \in 1 .. n : Lines(text)[k] = cut(k)
  BY <1>2, <1>3
<1>5. Lines(text) \in Seq(Text) /\ Len(Lines(text)) = n
  BY <1>1, <1>4
<1> QED BY <1>1, <1>4, <1>5, EmptySeq DEF n, cut

-----------------------------------------------------------------------------
(* Reading and writing back. *)

LEMMA PrefixIsText == \A kind \in Kinds : Prefix(kind) \in Text
<1>1. {" ", "#", "-", "*", "x"} \subseteq Chars
  BY TodoAssumption
<1>2. "paragraph" \in Kinds
  BY DEF Kinds
<1> SUFFICES ASSUME NEW kind \in Kinds PROVE Prefix(kind) \in Seq(Chars)
  BY DEF Text
<1>3. \A a, b, c \in Chars : << >> \in Seq(Chars) /\ <<a, b>> \in Seq(Chars) /\ <<a, b, c>> \in Seq(Chars)
  OBVIOUS
<1>4. " " \in Chars /\ "#" \in Chars /\ "-" \in Chars /\ "*" \in Chars /\ "x" \in Chars
  BY <1>1
<1>5. /\ << >> \in Seq(Chars) /\ <<"#", " ">> \in Seq(Chars) /\ <<"-", " ">> \in Seq(Chars)
      /\ <<"*", " ">> \in Seq(Chars) /\ <<"*", "x", " ">> \in Seq(Chars)
  BY <1>3, <1>4
<1> QED BY <1>5 DEF Prefix, Kinds

LEMMA BeforeAfter ==
  ASSUME NEW S, NEW seq \in Seq(S), NEW i \in 0 .. Len(seq)
  PROVE  /\ Before(seq, i) \in Seq(S) /\ Len(Before(seq, i)) = i
         /\ \A k \in 1 .. i : Before(seq, i)[k] = seq[k]
         /\ After(seq, i) \in Seq(S) /\ Len(After(seq, i)) = Len(seq) - i
         /\ \A k \in 1 .. Len(seq) - i : After(seq, i)[k] = seq[i + k]
         /\ Before(seq, i) \o After(seq, i) = seq
<1>1. Len(seq) \in Nat /\ i \in Nat /\ i <= Len(seq) /\ \A k \in 1 .. Len(seq) : seq[k] \in S
  BY LenProperties, ElementOfSeq
<1>2. 1 \in Int /\ i \in Int /\ \A k \in 1 .. i : seq[k] \in S
  BY <1>1
<1>3. /\ SubSeq(seq, 1, i) \in Seq(S) /\ Len(SubSeq(seq, 1, i)) = IF 1 <= i THEN i - 1 + 1 ELSE 0
      /\ \A k \in 1 .. i - 1 + 1 : SubSeq(seq, 1, i)[k] = seq[1 + k - 1]
  BY <1>2, SubSeqProperties
<1>4. i + 1 \in Int /\ Len(seq) \in Int /\ \A k \in i + 1 .. Len(seq) : seq[k] \in S
  BY <1>1
<1>5. /\ SubSeq(seq, i + 1, Len(seq)) \in Seq(S)
      /\ Len(SubSeq(seq, i + 1, Len(seq))) = IF i + 1 <= Len(seq) THEN Len(seq) - (i + 1) + 1 ELSE 0
      /\ \A k \in 1 .. Len(seq) - (i + 1) + 1 : SubSeq(seq, i + 1, Len(seq))[k] = seq[(i + 1) + k - 1]
  BY <1>4, SubSeqProperties
<1>6. 1 \in 1 .. Len(seq) + 1 /\ i \in 1 - 1 .. Len(seq) /\ Len(seq) \in i .. Len(seq)
  BY <1>1
<1>7. SubSeq(seq, 1, i) \o SubSeq(seq, i + 1, Len(seq)) = SubSeq(seq, 1, Len(seq))
  BY <1>6, ConcatAdjacentSubSeq
<1>8. SubSeq(seq, 1, Len(seq)) = seq
  BY SubSeqFull
<1>9. Len(Before(seq, i)) = i /\ \A k \in 1 .. i : Before(seq, i)[k] = seq[k]
  BY <1>1, <1>3 DEF Before
<1>10. Len(After(seq, i)) = Len(seq) - i /\ \A k \in 1 .. Len(seq) - i : After(seq, i)[k] = seq[i + k]
  BY <1>1, <1>5 DEF After
<1> QED BY <1>3, <1>5, <1>7, <1>8, <1>9, <1>10 DEF Before, After

Parsed == [kind : Kinds, text : Text]

\* A line is read into a block that is written as this line.
LEMMA LineIsRead ==
  ASSUME NEW line \in Text
  PROVE  LET parsed == sourceLine_parse(line)
         IN  parsed \in Parsed /\ Prefix(parsed.kind) \o parsed.text = line
<1> DEFINE marked == {kind \in Kinds \ {"paragraph"} : IsPrefix(Prefix(kind), line)}
           kind == CHOOSE kind \in marked : TRUE
<1>1. CASE marked = {}
  <2>1. sourceLine_parse(line) = [kind |-> "paragraph", text |-> line]
    BY <1>1 DEF sourceLine_parse
  <2>2. "paragraph" \in Kinds /\ Prefix("paragraph") = << >>
    BY DEF Kinds, Prefix
  <2>3. << >> \o line = line
    BY ConcatEmptySeq DEF Text
  <2> DEFINE parsed == sourceLine_parse(line)
  <2>4. parsed.kind = "paragraph" /\ parsed.text = line /\ parsed \in Parsed
    BY <2>1, <2>2 DEF Parsed
  <2> HIDE DEF parsed
  <2>5. Prefix(parsed.kind) \o parsed.text = line
    BY <2>2, <2>3, <2>4
  <2> QED BY <2>4, <2>5 DEF parsed
<1>2. CASE marked # {}
  <2>1. kind \in Kinds /\ IsPrefix(Prefix(kind), line)
    BY <1>2
  <2>2. sourceLine_parse(line) = [kind |-> kind, text |-> After(line, Len(Prefix(kind)))]
    BY <1>2 DEF sourceLine_parse
  <2> HIDE DEF kind
  <2> DEFINE p == Prefix(kind)
  <2>3. p \in Text
    BY <2>1, PrefixIsText
  <2> HIDE DEF p
  <2>4. Len(p) \in Nat /\ Len(line) \in Nat /\ Len(p) <= Len(line) /\ SubSeq(p, 1, Len(p)) = SubSeq(line, 1, Len(p))
    BY <2>1, <2>3, LenProperties DEF IsPrefix, Text, p
  <2>5. SubSeq(p, 1, Len(p)) = p
    BY <2>3, SubSeqFull DEF Text
  <2>6. Len(p) \in 0 .. Len(line)
    BY <2>4
  <2>7. After(line, Len(p)) \in Text /\ Before(line, Len(p)) \o After(line, Len(p)) = line
    BY <2>6, BeforeAfter DEF Text
  <2>8. Before(line, Len(p)) = p
    BY <2>4, <2>5 DEF Before
  <2> QED BY <2>1, <2>2, <2>7, <2>8 DEF p, Parsed
<1> QED BY <1>1, <1>2

\* The lines of a text from the m-th on are what is left of the text.
LEMMA RestIsRead ==
  ASSUME NEW text \in Text, NEW m \in 1 .. Len(Lines(text))
  PROVE  /\ SubSeq(Lines(text), m, Len(Lines(text))) \in Seq(Text)
         /\ Joined(SubSeq(Lines(text), m, Len(Lines(text)))) = SubSeq(text, EndOf(text, m - 1) + 1, Len(text))
<1> DEFINE lines == Lines(text)
           n == Len(lines)
           rest == SubSeq(lines, m, n)
           e == [k \in 0 .. Len(rest) |-> EndOf(text, m - 1 + k)]
<1>1. /\ lines \in Seq(Text) /\ n \in Nat \ {0} /\ m \in Nat /\ m >= 1 /\ m <= n /\ Len(text) \in Nat
      /\ n = Cardinality(Ends(text))
  BY LinesAre, EndsAre, LenProperties DEF Text
<1>2. /\ \A k \in 0 .. n : EndOf(text, k) \in 0 .. Len(text) + 1
      /\ \A k \in 1 .. n : /\ EndOf(text, k - 1) < EndOf(text, k)
                           /\ lines[k] = SubSeq(text, EndOf(text, k - 1) + 1, EndOf(text, k) - 1)
      /\ \A k \in 1 .. n - 1 : EndOf(text, k) <= Len(text) /\ text[EndOf(text, k)] = NL
      /\ EndOf(text, n) = Len(text) + 1
  BY <1>1, EndsAre, LinesAre
<1> HIDE DEF n, lines
<1>3. \A k \in m .. n : lines[k] \in Text
  BY <1>1, ElementOfSeq DEF n
<1>4. /\ rest \in Seq(Text) /\ Len(rest) = n - m + 1
      /\ \A i \in 1 .. n - m + 1 : rest[i] = lines[m + i - 1]
  BY <1>1, <1>3, SubSeqProperties
<1> HIDE DEF rest
<1>5. rest # << >>
  BY <1>1, <1>4, EmptySeq
<1>6. \A k \in 0 .. Len(rest) : e[k] = EndOf(text, m - 1 + k) /\ e[k] \in 0 .. Len(text) + 1
  <2> SUFFICES ASSUME NEW k \in 0 .. Len(rest) PROVE EndOf(text, m - 1 + k) \in 0 .. Len(text) + 1
    OBVIOUS
  <2>1. m - 1 + k \in 0 .. n
    BY <1>1, <1>4
  <2> QED BY <1>2, <2>1
<1>7. e \in [0 .. Len(rest) -> 0 .. Len(text) + 1]
  BY <1>6
<1> HIDE DEF e
<1>8. ASSUME NEW k \in 1 .. Len(rest)
      PROVE  e[k - 1] < e[k] /\ rest[k] = SubSeq(text, e[k - 1] + 1, e[k] - 1)
  <2>1. /\ k \in 0 .. Len(rest) /\ k - 1 \in 0 .. Len(rest) /\ m - 1 + k \in 1 .. n
        /\ m - 1 + (k - 1) = (m - 1 + k) - 1 /\ m + k - 1 = m - 1 + k
    BY <1>1, <1>4
  <2>2. e[k] = EndOf(text, m - 1 + k) /\ e[k - 1] = EndOf(text, (m - 1 + k) - 1)
    BY <1>6, <2>1
  <2>3. rest[k] = lines[m - 1 + k]
    BY <1>4, <2>1
  <2> QED BY <1>2, <2>1, <2>2, <2>3
<1>9. ASSUME NEW k \in 1 .. Len(rest) - 1
      PROVE  e[k] <= Len(text) /\ text[e[k]] = NL
  <2>1. k \in 0 .. Len(rest) /\ m - 1 + k \in 1 .. n - 1
    BY <1>1, <1>4
  <2> QED BY <1>2, <1>6, <2>1
<1>10. Joined(rest) = SubSeq(text, e[0] + 1, e[Len(rest)] - 1)
  BY <1>4, <1>5, <1>7, <1>8, <1>9, JoinedOfCuts
<1>11. e[0] = EndOf(text, m - 1)
  <2>1. 0 \in 0 .. Len(rest) /\ m - 1 + 0 = m - 1
    BY <1>1, <1>4
  <2> QED BY <1>6, <2>1
<1>12. e[Len(rest)] - 1 = Len(text)
  <2>1. Len(rest) \in 0 .. Len(rest) /\ m - 1 + Len(rest) = n
    BY <1>1, <1>4
  <2>2. e[Len(rest)] = Len(text) + 1
    BY <1>2, <1>6, <2>1
  <2> QED BY <1>1, <2>2
<1> QED BY <1>4, <1>10, <1>11, <1>12 DEF rest, n, lines

-----------------------------------------------------------------------------
(* Documents. *)

TodoBlock == [id : Nat, kind : Kinds, text : Text]

\* The part of TodoTypeOK that is about the document.
WellFormed(d) ==
  /\ d \in [blocks : Seq(TodoBlock), nextId : Nat]
  /\ Len(d.blocks) \in 1 .. MaxBlocks
  /\ \A k \in DOMAIN d.blocks :
       /\ d.blocks[k].id < d.nextId
       /\ \A j \in 1 .. (k - 1) : d.blocks[j].id # d.blocks[k].id

LEMMA BlockIs ==
  ASSUME NEW id \in Nat, NEW parsed \in Parsed
  PROVE  /\ Block(id, parsed) \in TodoBlock /\ Block(id, parsed).id = id
         /\ sourceLine_get(Block(id, parsed)) = Prefix(parsed.kind) \o parsed.text
BY DEF Block, Parsed, TodoBlock, sourceLine_get

\* A text is read into a document that is written as this text: nothing is lost,
\* also of a text of more lines than blocks.
LEMMA ReadIsWritten ==
  ASSUME NEW text \in Text
  PROVE  WellFormed(source_parse(text)) /\ source_get(source_parse(text)) = text
<1> DEFINE lines == Lines(text)
           n == Len(lines)
           many == n > MaxBlocks
           rest == [kind |-> "paragraph", text |-> Joined(SubSeq(lines, MaxBlocks, n))]
           count == IF many THEN MaxBlocks ELSE n
           parsed(k) == IF many /\ k = MaxBlocks THEN rest ELSE sourceLine_parse(lines[k])
           d == source_parse(text)
           out == [k \in DOMAIN d.blocks |-> sourceLine_get(d.blocks[k])]
           e == [k \in 0 .. count |-> IF k = count THEN Len(text) + 1 ELSE EndOf(text, k)]
<1>1. d = [blocks |-> [k \in 1 .. count |-> Block(k - 1, parsed(k))], nextId |-> count]
  BY DEF source_parse
<1> HIDE DEF d
<1>2. /\ lines \in Seq(Text) /\ n \in Nat \ {0} /\ Len(text) \in Nat /\ MaxBlocks \in Nat \ {0}
      /\ n = Cardinality(Ends(text))
  BY LinesAre, EndsAre, LenProperties, TodoAssumption DEF Text
<1>3. count \in Nat \ {0} /\ count <= n /\ count <= MaxBlocks /\ (many => count = MaxBlocks)
      /\ (~many => count = n)
  <2> HIDE DEF n
  <2> QED BY <1>2
<1>4. /\ \A k \in 0 .. n : EndOf(text, k) \in 0 .. Len(text) + 1
      /\ \A k \in 1 .. n : /\ EndOf(text, k - 1) < EndOf(text, k)
                           /\ lines[k] = SubSeq(text, EndOf(text, k - 1) + 1, EndOf(text, k) - 1)
      /\ \A k \in 1 .. n - 1 : EndOf(text, k) <= Len(text) /\ text[EndOf(text, k)] = NL
      /\ EndOf(text, n) = Len(text) + 1
  BY <1>2, EndsAre, LinesAre
<1>5. \A k \in 1 .. n : lines[k] \in Text
  BY <1>2, ElementOfSeq
<1>6. many => /\ rest \in Parsed
              /\ Prefix(rest.kind) \o rest.text = SubSeq(text, EndOf(text, MaxBlocks - 1) + 1, Len(text))
  <2> SUFFICES ASSUME many PROVE /\ rest \in Parsed
              /\ Prefix(rest.kind) \o rest.text = SubSeq(text, EndOf(text, MaxBlocks - 1) + 1, Len(text))
    OBVIOUS
  <2> DEFINE left == SubSeq(lines, MaxBlocks, n)
  <2>1. MaxBlocks \in 1 .. n
    BY <1>2, <1>3
  <2>2. left \in Seq(Text) /\ Joined(left) = SubSeq(text, EndOf(text, MaxBlocks - 1) + 1, Len(text))
    BY <2>1, RestIsRead
  <2>3. EndOf(text, MaxBlocks - 1) \in Int /\ Len(text) \in Int
    <3>1. MaxBlocks - 1 \in 0 .. n
      BY <1>2, <2>1
    <3> QED BY <1>2, <1>4, <3>1
  <2>4. \A i \in EndOf(text, MaxBlocks - 1) + 1 .. Len(text) : text[i] \in Chars
    <3>1. MaxBlocks - 1 \in 0 .. n
      BY <1>2, <2>1
    <3>2. EndOf(text, MaxBlocks - 1) \in Nat
      BY <1>2, <1>4, <3>1
    <3>3. \A i \in 1 .. Len(text) : text[i] \in Chars
      BY ElementOfSeq DEF Text
    <3> QED BY <1>2, <3>2, <3>3
  <2>5. Joined(left) \in Text
    <3> DEFINE a == EndOf(text, MaxBlocks - 1)
    <3>1. a + 1 \in Int
      BY <2>3
    <3>2. SubSeq(text, a + 1, Len(text)) \in Seq(Chars)
      BY <2>3, <2>4, <3>1, SubSeqProperties
    <3> QED BY <2>2, <3>2 DEF Text
  <2>6. "paragraph" \in Kinds /\ Prefix("paragraph") = << >>
    BY DEF Kinds, Prefix
  <2>7. << >> \o Joined(left) = Joined(left)
    BY <2>5, ConcatEmptySeq DEF Text
  <2> HIDE DEF left
  <2>8. rest.kind = "paragraph" /\ rest.text = Joined(left) /\ rest \in Parsed
    BY <2>5, <2>6 DEF Parsed, left
  <2> HIDE DEF rest
  <2> QED BY <2>2, <2>6, <2>7, <2>8
<1>7. ASSUME NEW k \in 1 .. count
      PROVE  /\ parsed(k) \in Parsed
             /\ ~(many /\ k = MaxBlocks) => Prefix(parsed(k).kind) \o parsed(k).text = lines[k]
  <2>1. CASE many /\ k = MaxBlocks
    <3> HIDE DEF rest, many
    <3> QED BY <1>6, <2>1
  <2>2. CASE ~(many /\ k = MaxBlocks)
    <3>1. k \in 1 .. n
      <4> HIDE DEF n
      <4> QED BY <1>2, <1>3
    <3>2. parsed(k) = sourceLine_parse(lines[k])
      BY <2>2
    <3> HIDE DEF parsed
    <3> QED BY <1>5, <3>1, <3>2, LineIsRead
  <2> QED BY <2>1, <2>2
<1>8. DOMAIN d.blocks = 1 .. count /\ d.nextId = count /\ d = [blocks |-> d.blocks, nextId |-> d.nextId]
  BY <1>1
<1>9. ASSUME NEW k \in 1 .. count
      PROVE  /\ d.blocks[k] \in TodoBlock /\ d.blocks[k].id = k - 1
             /\ out[k] = Prefix(parsed(k).kind) \o parsed(k).text
  <2>1. d.blocks[k] = Block(k - 1, parsed(k)) /\ k - 1 \in Nat
    BY <1>1, <1>3
  <2>2. out[k] = sourceLine_get(d.blocks[k])
    BY <1>8
  <2>3. parsed(k) \in Parsed
    BY <1>7
  <2> HIDE DEF parsed, out
  <2>4. /\ Block(k - 1, parsed(k)) \in TodoBlock /\ Block(k - 1, parsed(k)).id = k - 1
        /\ sourceLine_get(Block(k - 1, parsed(k))) = Prefix(parsed(k).kind) \o parsed(k).text
    BY <2>1, <2>3, BlockIs
  <2> QED BY <2>1, <2>2, <2>4
<1> HIDE DEF parsed, rest
<1>10. d.blocks \in [1 .. count -> TodoBlock]
  <2>1. d.blocks = [k \in 1 .. count |-> d.blocks[k]]
    BY <1>1
  <2> QED BY <1>9, <2>1
<1>11. d.blocks \in Seq(TodoBlock) /\ Len(d.blocks) = count
  <2> HIDE DEF count
  <2> QED BY <1>3, <1>10
<1>12. WellFormed(d)
  <2>1. d \in [blocks : Seq(TodoBlock), nextId : Nat] /\ count \in 1 .. MaxBlocks
    <3> HIDE DEF count
    <3> QED BY <1>2, <1>3, <1>8, <1>11
  <2>2. ASSUME NEW k \in 1 .. count
        PROVE  d.blocks[k].id < count /\ \A j \in 1 .. (k - 1) : d.blocks[j].id # d.blocks[k].id
    <3> HIDE DEF count, out
    <3>1. k \in Nat /\ k <= count /\ count \in Nat
      BY <1>3
    <3>2. \A j \in 1 .. count : d.blocks[j].id = j - 1
      BY <1>9
    <3>3. \A j \in 1 .. (k - 1) : j \in 1 .. count
      BY <3>1
    <3> QED BY <3>1, <3>2, <3>3
  <2> HIDE DEF count
  <2> QED BY <1>8, <1>11, <2>1, <2>2 DEF WellFormed
<1>13. \A k \in 0 .. count : e[k] = (IF k = count THEN Len(text) + 1 ELSE EndOf(text, k)) /\ e[k] \in 0 .. Len(text) + 1
  <2> SUFFICES ASSUME NEW k \in 0 .. count
               PROVE  (IF k = count THEN Len(text) + 1 ELSE EndOf(text, k)) \in 0 .. Len(text) + 1
    OBVIOUS
  <2>1. k \in 0 .. n /\ Len(text) + 1 \in 0 .. Len(text) + 1
    <3> HIDE DEF count, n
    <3> QED BY <1>2, <1>3
  <2> QED BY <1>4, <2>1
<1>14. e \in [0 .. count -> 0 .. Len(text) + 1] /\ e = [k \in 0 .. count |-> e[k]]
  BY <1>13
<1> HIDE DEF e
<1>15. ASSUME NEW k \in 1 .. count
       PROVE  e[k - 1] < e[k] /\ out[k] = SubSeq(text, e[k - 1] + 1, e[k] - 1)
  <2> HIDE DEF count, n, many, out
  <2>1. k \in 0 .. count /\ k - 1 \in 0 .. count /\ k - 1 # count /\ k \in 1 .. n
    BY <1>2, <1>3
  <2>2. e[k - 1] = EndOf(text, k - 1) /\ e[k] = IF k = count THEN Len(text) + 1 ELSE EndOf(text, k)
    BY <1>13, <2>1
  <2>3. CASE many /\ k = MaxBlocks
    <3>1. k = count /\ e[k] = Len(text) + 1 /\ e[k] - 1 = Len(text)
      BY <1>2, <1>3, <2>2, <2>3
    <3>2. EndOf(text, k - 1) < EndOf(text, k) /\ EndOf(text, k) \in 0 .. Len(text) + 1
          /\ EndOf(text, k - 1) \in 0 .. Len(text) + 1
      <4>1. k \in 0 .. n /\ k - 1 \in 0 .. n
        BY <1>2, <2>1
      <4> QED BY <1>4, <2>1, <4>1
    <3>3. EndOf(text, k - 1) < Len(text) + 1
      BY <1>2, <3>2
    <3>4. parsed(k) = rest
      BY <2>3 DEF parsed
    <3>5. out[k] = SubSeq(text, EndOf(text, k - 1) + 1, Len(text))
      BY <1>6, <1>9, <2>3, <3>4
    <3> QED BY <2>2, <3>1, <3>3, <3>5
  <2>4. CASE ~(many /\ k = MaxBlocks)
    <3>1. out[k] = lines[k]
      BY <1>7, <1>9, <2>4
    <3>2. e[k] = EndOf(text, k)
      <4>1. k # count \/ k = n
        BY <1>3, <2>4
      <4> QED BY <1>4, <2>2, <4>1
    <3> QED BY <1>4, <2>1, <2>2, <3>1, <3>2
  <2> QED BY <2>3, <2>4
<1>16. ASSUME NEW k \in 1 .. count - 1
       PROVE  e[k] <= Len(text) /\ text[e[k]] = NL
  <2> HIDE DEF count, n
  <2>1. k \in 0 .. count /\ k # count /\ k \in 1 .. n - 1
    BY <1>2, <1>3
  <2>2. e[k] = EndOf(text, k)
    BY <1>13, <2>1
  <2> QED BY <1>4, <2>1, <2>2
<1>17. out \in Seq(Text) /\ Len(out) = count /\ out # << >>
  <2>1. \A k \in 1 .. count : out[k] \in Text
    <3> SUFFICES ASSUME NEW k \in 1 .. count PROVE out[k] \in Text
      OBVIOUS
    <3>1. parsed(k).kind \in Kinds /\ parsed(k).text \in Text
      BY <1>7 DEF Parsed
    <3>2. Prefix(parsed(k).kind) \o parsed(k).text \in Text
      BY <3>1, PrefixIsText, ConcatProperties DEF Text
    <3> QED BY <1>9, <3>2
  <2>2. out = [k \in 1 .. count |-> out[k]]
    BY <1>8
  <2> HIDE DEF out, count
  <2>3. out \in [1 .. count -> Text]
    BY <2>1, <2>2
  <2>4. out \in Seq(Text) /\ Len(out) = count
    BY <1>3, <2>3
  <2> QED BY <1>3, <2>4, EmptySeq
<1>18. Joined(out) = SubSeq(text, e[0] + 1, e[count] - 1)
  <2> HIDE DEF out, count
  <2> QED BY <1>14, <1>15, <1>16, <1>17, JoinedOfCuts
<1>19. e[0] + 1 = 1 /\ e[count] - 1 = Len(text)
  <2> HIDE DEF count
  <2>1. 0 \in 0 .. count /\ 0 # count /\ count \in 0 .. count
    BY <1>3
  <2> QED BY <1>2, <1>13, <2>1, EndsAre
<1>20. SubSeq(text, 1, Len(text)) = text
  BY SubSeqFull DEF Text
<1>21. source_get(d) = Joined(out)
  BY DEF source_get
<1> QED BY <1>12, <1>18, <1>19, <1>20, <1>21 DEF d

Ids(d) == {d.blocks[k].id : k \in DOMAIN d.blocks}

LEMMA PartsOf ==
  ASSUME NEW d, WellFormed(d)
  PROVE  /\ d.blocks \in Seq(TodoBlock) /\ Len(d.blocks) \in Nat \ {0} /\ Len(d.blocks) <= MaxBlocks
         /\ DOMAIN d.blocks = 1 .. Len(d.blocks) /\ d.nextId \in Nat /\ MaxBlocks \in Nat
         /\ d = [blocks |-> d.blocks, nextId |-> d.nextId]
         /\ \A k \in 1 .. Len(d.blocks) : /\ d.blocks[k] \in TodoBlock
                                          /\ d.blocks[k].id \in Nat /\ d.blocks[k].id < d.nextId
                                          /\ d.blocks[k].kind \in Kinds /\ d.blocks[k].text \in Text
         /\ \A j, k \in 1 .. Len(d.blocks) : d.blocks[j].id = d.blocks[k].id => j = k
<1>1. /\ d.blocks \in Seq(TodoBlock) /\ d.nextId \in Nat /\ d = [blocks |-> d.blocks, nextId |-> d.nextId]
      /\ Len(d.blocks) \in 1 .. MaxBlocks /\ MaxBlocks \in Nat
  BY TodoAssumption DEF WellFormed
<1>2. Len(d.blocks) \in Nat \ {0} /\ Len(d.blocks) <= MaxBlocks
  BY <1>1
<1>3. DOMAIN d.blocks = 1 .. Len(d.blocks)
  BY <1>1, LenProperties
<1>4. \A k \in 1 .. Len(d.blocks) : d.blocks[k] \in TodoBlock
  BY <1>1, ElementOfSeq
<1>5. \A k \in 1 .. Len(d.blocks) : /\ d.blocks[k].id \in Nat /\ d.blocks[k].kind \in Kinds
                                    /\ d.blocks[k].text \in Text
  BY <1>4 DEF TodoBlock
<1>6. \A k \in 1 .. Len(d.blocks) :
        /\ d.blocks[k].id < d.nextId
        /\ \A j \in 1 .. (k - 1) : d.blocks[j].id # d.blocks[k].id
  BY <1>3 DEF WellFormed
<1>7. ASSUME NEW j \in 1 .. Len(d.blocks), NEW k \in 1 .. Len(d.blocks), d.blocks[j].id = d.blocks[k].id
      PROVE  j = k
  <2>1. j \in 1 .. (k - 1) \/ k \in 1 .. (j - 1) \/ j = k
    BY <1>2
  <2> QED BY <1>6, <1>7, <2>1
<1> QED BY <1>1, <1>2, <1>3, <1>4, <1>5, <1>6, <1>7

LEMMA Placed ==
  ASSUME NEW d, WellFormed(d), NEW id \in Ids(d)
  PROVE  /\ PositionOf(d, id) \in 1 .. Len(d.blocks) /\ d.blocks[PositionOf(d, id)].id = id
         /\ BlockOf(d, id) = d.blocks[PositionOf(d, id)]
         /\ BlockOf(d, id).kind \in Kinds /\ BlockOf(d, id).text \in Text
         /\ \A k \in 1 .. Len(d.blocks) : d.blocks[k].id = id => k = PositionOf(d, id)
<1>1. \E k \in DOMAIN d.blocks : d.blocks[k].id = id
  BY DEF Ids
<1>2. PositionOf(d, id) \in DOMAIN d.blocks /\ d.blocks[PositionOf(d, id)].id = id
  BY <1>1 DEF PositionOf
<1> QED BY <1>2, PartsOf DEF BlockOf

\* A document whose i-th block is another one of the same identifier.
With(d, i, block) == [blocks |-> [d.blocks EXCEPT ![i] = block], nextId |-> d.nextId]

LEMMA WithIs ==
  ASSUME NEW d, WellFormed(d), NEW i \in 1 .. Len(d.blocks),
         NEW block \in TodoBlock, block.id = d.blocks[i].id
  PROVE  /\ WellFormed(With(d, i, block)) /\ Ids(With(d, i, block)) = Ids(d)
         /\ Len(With(d, i, block).blocks) = Len(d.blocks)
         /\ \A k \in 1 .. Len(d.blocks) : With(d, i, block).blocks[k] = IF k = i THEN block ELSE d.blocks[k]
<1> DEFINE w == With(d, i, block)
           n == Len(d.blocks)
<1>1. w.blocks = [d.blocks EXCEPT ![i] = block] /\ w.nextId = d.nextId
      /\ w = [blocks |-> w.blocks, nextId |-> w.nextId]
  BY DEF With
<1> HIDE DEF w
<1>2. /\ w.blocks \in Seq(TodoBlock) /\ Len(w.blocks) = n
      /\ \A k \in 1 .. n : w.blocks[k] = IF k = i THEN block ELSE d.blocks[k]
  BY <1>1, PartsOf, ExceptSeq
<1>3. DOMAIN w.blocks = 1 .. n /\ DOMAIN d.blocks = 1 .. n
  BY <1>2, PartsOf, LenProperties
<1>4. \A k \in 1 .. n : w.blocks[k].id = d.blocks[k].id
  BY <1>2
<1>5. Ids(w) = Ids(d)
  BY <1>3, <1>4 DEF Ids
<1>6. WellFormed(w)
  <2>1. w \in [blocks : Seq(TodoBlock), nextId : Nat]
    BY <1>1, <1>2, PartsOf
  <2>2. \A k \in 1 .. n : /\ d.blocks[k].id < d.nextId
                          /\ \A j \in 1 .. (k - 1) : j \in 1 .. n /\ d.blocks[j].id # d.blocks[k].id
    <3>1. n \in Nat
      BY PartsOf
    <3> HIDE DEF n
    <3>2. \A k \in 1 .. n : \A j \in 1 .. (k - 1) : j \in 1 .. n /\ j # k
      BY <3>1
    <3> QED BY <3>2, PartsOf DEF n
  <2>3. Len(w.blocks) \in 1 .. MaxBlocks
    BY <1>2 DEF WellFormed
  <2> HIDE DEF n
  <2>4. ASSUME NEW k \in 1 .. n
        PROVE  w.blocks[k].id < w.nextId /\ \A j \in 1 .. (k - 1) : w.blocks[j].id # w.blocks[k].id
    <3>1. w.blocks[k].id < w.nextId
      BY <1>1, <1>4, <2>2
    <3>2. ASSUME NEW j \in 1 .. (k - 1) PROVE w.blocks[j].id # w.blocks[k].id
      BY <1>4, <2>2, <3>2
    <3> QED BY <3>1, <3>2
  <2> QED BY <1>3, <2>1, <2>3, <2>4 DEF WellFormed
<1> QED BY <1>2, <1>5, <1>6 DEF w

LEMMA RetextIs ==
  ASSUME NEW d, WellFormed(d), NEW id \in Ids(d), NEW text \in Text
  PROVE  LET i == PositionOf(d, id)
             block == [d.blocks[i] EXCEPT !.text = text]
         IN  /\ Retext(d, id, text) = With(d, i, block)
             /\ block \in TodoBlock /\ block.id = d.blocks[i].id
             /\ block.kind = d.blocks[i].kind /\ block.text = text
<1> DEFINE i == PositionOf(d, id)
           block == [d.blocks[i] EXCEPT !.text = text]
<1>1. i \in 1 .. Len(d.blocks) /\ d.blocks[i] \in TodoBlock
  BY Placed, PartsOf
<1>2. /\ block \in TodoBlock /\ block.id = d.blocks[i].id
      /\ block.kind = d.blocks[i].kind /\ block.text = text
  BY <1>1 DEF TodoBlock
<1>3. Retext(d, id, text) = [d EXCEPT !.blocks = [d.blocks EXCEPT ![i] = block]]
  BY DEF Retext
<1>4. [d EXCEPT !.blocks = [d.blocks EXCEPT ![i] = block]] = With(d, i, block)
  <2> DEFINE new == [d.blocks EXCEPT ![i] = block]
  <2>1. d = [blocks |-> d.blocks, nextId |-> d.nextId]
    BY PartsOf
  <2> HIDE DEF new
  <2>2. [d EXCEPT !.blocks = new] = [blocks |-> new, nextId |-> d.nextId]
    BY <2>1
  <2> QED BY <2>2 DEF With, new
<1> QED BY <1>2, <1>3, <1>4

LEMMA RekindIs ==
  ASSUME NEW d, WellFormed(d), NEW id \in Ids(d), NEW kind \in Kinds
  PROVE  LET i == PositionOf(d, id)
             block == [d.blocks[i] EXCEPT !.kind = kind]
         IN  /\ Rekind(d, id, kind) = With(d, i, block)
             /\ block \in TodoBlock /\ block.id = d.blocks[i].id
             /\ block.kind = kind /\ block.text = d.blocks[i].text
<1> DEFINE i == PositionOf(d, id)
           block == [d.blocks[i] EXCEPT !.kind = kind]
<1>1. i \in 1 .. Len(d.blocks) /\ d.blocks[i] \in TodoBlock
  BY Placed, PartsOf
<1>2. /\ block \in TodoBlock /\ block.id = d.blocks[i].id
      /\ block.kind = kind /\ block.text = d.blocks[i].text
  BY <1>1 DEF TodoBlock
<1>3. Rekind(d, id, kind) = [d EXCEPT !.blocks = [d.blocks EXCEPT ![i] = block]]
  BY DEF Rekind
<1>4. [d EXCEPT !.blocks = [d.blocks EXCEPT ![i] = block]] = With(d, i, block)
  <2> DEFINE new == [d.blocks EXCEPT ![i] = block]
  <2>1. d = [blocks |-> d.blocks, nextId |-> d.nextId]
    BY PartsOf
  <2> HIDE DEF new
  <2>2. [d EXCEPT !.blocks = new] = [blocks |-> new, nextId |-> d.nextId]
    BY <2>1
  <2> QED BY <2>2 DEF With, new
<1> QED BY <1>2, <1>3, <1>4

Splice(s, a, mid, b) == Before(s, a) \o mid \o After(s, b)

\* A sequence with what is after a up to b replaced.
IsSplice(t, s, a, mid, b) ==
  /\ Len(t) = a + Len(mid) + (Len(s) - b)
  /\ \A k \in 1 .. a : t[k] = s[k]
  /\ \A k \in 1 .. Len(mid) : t[a + k] = mid[k]
  /\ \A k \in b + 1 .. Len(s) : t[a + Len(mid) + (k - b)] = s[k]

LEMMA ThreeParts ==
  ASSUME NEW S, NEW s \in Seq(S), NEW a \in 0 .. Len(s), NEW b \in a .. Len(s), NEW mid \in Seq(S)
  PROVE  Splice(s, a, mid, b) \in Seq(S) /\ IsSplice(Splice(s, a, mid, b), s, a, mid, b)
<1> DEFINE x == Before(s, a)  y == After(s, b)  u == x \o mid  t == Splice(s, a, mid, b)
           m == Len(mid)  n == Len(s)
<1>1. n \in Nat /\ m \in Nat /\ a \in Nat /\ b \in Nat /\ a <= n /\ b <= n /\ a <= b
  BY LenProperties
<1>2. x \in Seq(S) /\ Len(x) = a /\ \A k \in 1 .. a : x[k] = s[k]
  BY BeforeAfter
<1>3. y \in Seq(S) /\ Len(y) = n - b /\ \A k \in 1 .. n - b : y[k] = s[b + k]
  <2>1. b \in 0 .. n
    BY <1>1
  <2> QED BY <2>1, BeforeAfter
<1> HIDE DEF x, y, n, t
<1>4. u \in Seq(S) /\ Len(u) = a + m /\ \A k \in 1 .. a + m : u[k] = IF k <= a THEN x[k] ELSE mid[k - a]
  BY <1>2, ConcatProperties
<1> HIDE DEF u
<1>5. /\ t \in Seq(S) /\ Len(t) = (a + m) + (n - b)
      /\ \A k \in 1 .. (a + m) + (n - b) : t[k] = IF k <= a + m THEN u[k] ELSE y[k - (a + m)]
  <2>1. u \in Seq(S) /\ Len(u) = a + m /\ y \in Seq(S) /\ Len(y) = n - b
    BY <1>3, <1>4
  <2>2. /\ u \o y \in Seq(S) /\ Len(u \o y) = Len(u) + Len(y)
        /\ \A k \in 1 .. Len(u) + Len(y) : (u \o y)[k] = IF k <= Len(u) THEN u[k] ELSE y[k - Len(u)]
    <3>1. u \in Seq(S) /\ y \in Seq(S)
      BY <2>1
    <3> QED BY <3>1, ConcatProperties, Zenon
  <2>3. t = u \o y
    BY DEF t, u, x, y, Splice
  <2> HIDE DEF m
  <2> QED BY <2>1, <2>2, <2>3
<1> HIDE DEF m
<1>6. ASSUME NEW k \in 1 .. a PROVE t[k] = s[k]
  <2>1. k \in 1 .. (a + m) + (n - b) /\ k \in 1 .. a + m /\ k <= a /\ k <= a + m
    BY <1>1
  <2> QED BY <1>2, <1>4, <1>5, <2>1
<1>7. ASSUME NEW k \in 1 .. m PROVE t[a + k] = mid[k]
  <2>1. a + k \in 1 .. (a + m) + (n - b) /\ a + k \in 1 .. a + m /\ ~(a + k <= a) /\ a + k <= a + m
        /\ (a + k) - a = k
    BY <1>1
  <2>2. t[a + k] = u[a + k]
    BY <1>5, <2>1
  <2>3. u[a + k] = mid[(a + k) - a]
    BY <1>4, <2>1
  <2> QED BY <2>1, <2>2, <2>3
<1>8. ASSUME NEW k \in b + 1 .. n PROVE t[a + m + (k - b)] = s[k]
  <2>1. /\ a + m + (k - b) \in 1 .. (a + m) + (n - b) /\ ~(a + m + (k - b) <= a + m)
        /\ (a + m + (k - b)) - (a + m) = k - b /\ k - b \in 1 .. n - b /\ b + (k - b) = k
    BY <1>1
  <2>2. t[a + m + (k - b)] = y[(a + m + (k - b)) - (a + m)]
    BY <1>5, <2>1
  <2>3. y[k - b] = s[b + (k - b)]
    BY <1>3, <2>1
  <2> QED BY <2>1, <2>2, <2>3
<1> QED BY <1>5, <1>6, <1>7, <1>8 DEF t, m, n, IsSplice

\* Blocks are put between others: the identifiers stay distinct, if those put in are
\* new or of blocks that went.
LEMMA SplicedIs ==
  ASSUME NEW d, WellFormed(d), NEW a \in 0 .. Len(d.blocks), NEW b \in a .. Len(d.blocks),
         NEW mid \in Seq(TodoBlock), NEW next \in Nat, d.nextId <= next,
         a + Len(mid) + (Len(d.blocks) - b) \in 1 .. MaxBlocks,
         \A k \in 1 .. Len(mid) :
           /\ mid[k].id < next
           /\ mid[k].id >= d.nextId \/ \E r \in a + 1 .. b : mid[k].id = d.blocks[r].id,
         \A j, k \in 1 .. Len(mid) : mid[j].id = mid[k].id => j = k
  PROVE  WellFormed([blocks |-> Before(d.blocks, a) \o mid \o After(d.blocks, b), nextId |-> next])
<1> DEFINE s == d.blocks
           n == Len(s)
           m == Len(mid)
           t == Before(s, a) \o mid \o After(s, b)
           w == [blocks |-> t, nextId |-> next]
           total == a + m + (n - b)
<1>1. /\ s \in Seq(TodoBlock) /\ n \in Nat /\ m \in Nat /\ a \in Nat /\ b \in Nat
      /\ a <= n /\ b <= n /\ a <= b
  BY PartsOf, LenProperties
<1>2. \A k \in 1 .. n : s[k].id \in Nat /\ s[k].id < d.nextId
  BY PartsOf
<1>3. \A j, k \in 1 .. n : s[j].id = s[k].id => j = k
  BY PartsOf
<1>4. d.nextId \in Nat
  BY PartsOf
<1>5. /\ t \in Seq(TodoBlock) /\ Len(t) = total
      /\ \A k \in 1 .. a : t[k] = s[k]
      /\ \A k \in 1 .. m : t[a + k] = mid[k]
      /\ \A k \in b + 1 .. n : t[a + m + (k - b)] = s[k]
  <2>1. s \in Seq(TodoBlock) /\ a \in 0 .. Len(s) /\ b \in a .. Len(s) /\ mid \in Seq(TodoBlock)
    BY <1>1
  <2> HIDE DEF s
  <2>2. t = Splice(s, a, mid, b)
    BY DEF Splice
  <2> HIDE DEF t
  <2>3. t \in Seq(TodoBlock) /\ IsSplice(t, s, a, mid, b)
    BY <2>1, <2>2, ThreeParts
  <2> QED BY <2>3 DEF IsSplice
<1>6. \A k \in 1 .. m : mid[k].id \in Nat
  <2>1. \A k \in 1 .. m : mid[k] \in TodoBlock
    BY ElementOfSeq
  <2> QED BY <2>1 DEF TodoBlock
<1>7. total \in 1 .. MaxBlocks
  OBVIOUS
<1> HIDE DEF t
<1>8. w \in [blocks : Seq(TodoBlock), nextId : Nat] /\ w.blocks = t /\ w.nextId = next
  BY <1>5
<1>9. DOMAIN t = 1 .. total
  BY <1>5, LenProperties
<1> HIDE DEF w, s, n
\* Where a block comes from.
<1>10. ASSUME NEW k \in 1 .. total
       PROVE  \/ k <= a /\ t[k] = s[k]
              \/ k > a /\ k <= a + m /\ k - a \in 1 .. m /\ t[k] = mid[k - a]
              \/ k > a + m /\ (k - a - m) + b \in b + 1 .. n /\ t[k] = s[(k - a - m) + b]
  <2>1. CASE k <= a
    <3>1. k \in 1 .. a
      BY <1>1, <2>1
    <3> QED BY <1>5, <2>1, <3>1
  <2>2. CASE k > a /\ k <= a + m
    <3>1. k - a \in 1 .. m /\ a + (k - a) = k
      BY <1>1, <2>2
    <3>2. t[a + (k - a)] = mid[k - a]
      BY <1>5, <3>1
    <3> QED BY <2>2, <3>1, <3>2
  <2>3. CASE k > a + m
    <3> DEFINE q == (k - a - m) + b
    <3>1. q \in b + 1 .. n /\ a + m + (q - b) = k
      BY <1>1, <2>3
    <3>2. t[a + m + (q - b)] = s[q]
      BY <1>5, <3>1
    <3> QED BY <2>3, <3>1, <3>2
  <2> QED BY <1>1, <2>1, <2>2, <2>3
<1>11. ASSUME NEW k \in 1 .. total PROVE t[k].id < next /\ t[k].id \in Nat
  <2>1. CASE k <= a /\ t[k] = s[k]
    <3>1. k \in 1 .. n
      BY <1>1, <2>1
    <3> QED BY <1>2, <1>4, <2>1, <3>1
  <2>2. CASE k > a /\ k <= a + m /\ k - a \in 1 .. m /\ t[k] = mid[k - a]
    BY <1>6, <2>2
  <2>3. CASE k > a + m /\ (k - a - m) + b \in b + 1 .. n /\ t[k] = s[(k - a - m) + b]
    <3>1. (k - a - m) + b \in 1 .. n
      BY <1>1, <2>3
    <3> QED BY <1>2, <1>4, <2>3, <3>1
  <2> QED BY <1>10, <2>1, <2>2, <2>3
\* A block put in has no identifier of a block that stays.
<1>12. ASSUME NEW k \in 1 .. m, NEW q \in 1 .. n, q <= a \/ q > b PROVE mid[k].id # s[q].id
  <2>1. CASE mid[k].id >= d.nextId
    BY <1>2, <1>4, <1>6, <2>1
  <2>2. ASSUME NEW r \in a + 1 .. b, mid[k].id = s[r].id PROVE mid[k].id # s[q].id
    <3>1. r \in 1 .. n /\ r # q
      BY <1>1, <1>12
    <3> QED BY <1>3, <2>2, <3>1
  <2> QED BY <2>1, <2>2 DEF s
<1>13. ASSUME NEW k \in 1 .. total, NEW j \in 1 .. (k - 1) PROVE t[j].id # t[k].id
  <2>1. j \in 1 .. total /\ j < k /\ j \in Nat /\ k \in Nat
    BY <1>1
  <2>2. CASE k <= a /\ t[k] = s[k]
    <3>1. j <= a /\ t[j] = s[j] /\ j \in 1 .. n /\ k \in 1 .. n /\ j # k
      BY <1>1, <1>10, <2>1, <2>2
    <3> QED BY <1>3, <2>2, <3>1
  <2>3. CASE k > a /\ k <= a + m /\ k - a \in 1 .. m /\ t[k] = mid[k - a]
    <3>1. CASE j <= a /\ t[j] = s[j]
      <4>1. j \in 1 .. n
        BY <1>1, <2>1, <3>1
      <4> QED BY <1>12, <2>3, <3>1, <4>1
    <3>2. CASE j > a /\ j <= a + m /\ j - a \in 1 .. m /\ t[j] = mid[j - a]
      <4>1. j - a # k - a
        BY <1>1, <2>1
      <4> QED BY <2>3, <3>2, <4>1
    <3> QED BY <1>1, <1>10, <2>1, <2>3, <3>1, <3>2
  <2>4. CASE k > a + m /\ (k - a - m) + b \in b + 1 .. n /\ t[k] = s[(k - a - m) + b]
    <3> DEFINE q == (k - a - m) + b
    <3>1. q \in 1 .. n /\ q > b /\ t[k] = s[q]
      <4>1. q \in 1 .. n /\ q > b
        BY <1>1, <2>4
      <4>2. t[k] = s[q]
        BY <2>4
      <4> QED BY <4>1, <4>2
    <3>2. CASE j <= a /\ t[j] = s[j]
      <4>1. j \in 1 .. n /\ j # q
        BY <1>1, <2>1, <3>1, <3>2
      <4> QED BY <1>3, <3>1, <3>2, <4>1
    <3>3. CASE j > a /\ j <= a + m /\ j - a \in 1 .. m /\ t[j] = mid[j - a]
      BY <1>12, <3>1, <3>3
    <3>4. CASE j > a + m /\ (j - a - m) + b \in b + 1 .. n /\ t[j] = s[(j - a - m) + b]
      <4> DEFINE p == (j - a - m) + b
      <4>1. p \in 1 .. n /\ p # q
        <5>1. p \in b + 1 .. n
          BY <3>4
        <5> QED BY <1>1, <2>1, <5>1
      <4>2. t[j] = s[p]
        BY <3>4
      <4> HIDE DEF p, q
      <4> QED BY <1>3, <3>1, <4>1, <4>2
    <3> QED BY <1>10, <2>1, <3>2, <3>3, <3>4
  <2> QED BY <1>10, <2>2, <2>3, <2>4
<1>14. Len(w.blocks) \in 1 .. MaxBlocks
  BY <1>5, <1>7, <1>8
<1> HIDE DEF total
<1>15. WellFormed(w)
  BY <1>8, <1>9, <1>11, <1>13, <1>14 DEF WellFormed
<1> QED BY <1>15 DEF w, t, s

-----------------------------------------------------------------------------
(* The operations of the document: what they give is refused or well formed. *)

Outcome(d) == d = Refused \/ WellFormed(d)

LEMMA SplicedEmpty ==
  ASSUME NEW S, NEW s \in Seq(S), NEW a \in 0 .. Len(s), NEW b \in 0 .. Len(s)
  PROVE  Before(s, a) \o After(s, b) = Before(s, a) \o << >> \o After(s, b)
<1>1. Before(s, a) \in Seq(S)
  BY BeforeAfter
<1>2. Before(s, a) \o << >> = Before(s, a)
  BY <1>1, ConcatEmptySeq
<1> QED BY <1>2

LEMMA RetextKeeps ==
  ASSUME NEW d, WellFormed(d), NEW id \in Ids(d), NEW text \in Text
  PROVE  WellFormed(Retext(d, id, text)) /\ Ids(Retext(d, id, text)) = Ids(d)
<1> DEFINE i == PositionOf(d, id)
           block == [d.blocks[i] EXCEPT !.text = text]
<1>1. Retext(d, id, text) = With(d, i, block) /\ block \in TodoBlock /\ block.id = d.blocks[i].id
  BY RetextIs
<1>2. i \in 1 .. Len(d.blocks)
  BY Placed
<1> HIDE DEF i, block
<1> QED BY <1>1, <1>2, WithIs

LEMMA RekindKeeps ==
  ASSUME NEW d, WellFormed(d), NEW id \in Ids(d), NEW kind \in Kinds
  PROVE  WellFormed(Rekind(d, id, kind)) /\ Ids(Rekind(d, id, kind)) = Ids(d)
<1> DEFINE i == PositionOf(d, id)
           block == [d.blocks[i] EXCEPT !.kind = kind]
<1>1. Rekind(d, id, kind) = With(d, i, block) /\ block \in TodoBlock /\ block.id = d.blocks[i].id
  BY RekindIs
<1>2. i \in 1 .. Len(d.blocks)
  BY Placed
<1> HIDE DEF i, block
<1> QED BY <1>1, <1>2, WithIs

LEMMA ToggleKeeps ==
  ASSUME NEW d, WellFormed(d), NEW id \in Ids(d)
  PROVE  Outcome(block_task_toggle(d, id))
<1>1. "task" \in Kinds /\ "done" \in Kinds
  BY DEF Kinds
<1>2. WellFormed(Rekind(d, id, "task")) /\ WellFormed(Rekind(d, id, "done"))
  BY <1>1, RekindKeeps
<1>3. block_task_toggle(d, id) \in {Rekind(d, id, "task"), Rekind(d, id, "done"), Refused}
  BY DEF block_task_toggle
<1> QED BY <1>2, <1>3 DEF Outcome

LEMMA ShortcutKeeps ==
  ASSUME NEW d, WellFormed(d), NEW id \in Ids(d), NEW text \in Text, NEW end \in 0 .. Len(text),
         NEW separated
  PROVE  Outcome(block_shortcut_apply(d, id, text, end, separated))
<1> DEFINE marker == Before(text, end) \o (IF separated THEN << >> ELSE <<" ">>)
           kinds == {kind \in Kinds \ {"paragraph"} : marker = Prefix(kind)}
           kind == CHOOSE kind \in kinds : TRUE
           e == Retext(d, id, After(text, end))
<1>1. CASE kinds = {}
  BY <1>1 DEF block_shortcut_apply, Outcome
<1>2. CASE kinds # {}
  <2>1. kind \in Kinds
    BY <1>2
  <2>2. After(text, end) \in Text
    BY BeforeAfter DEF Text
  <2>3. block_shortcut_apply(d, id, text, end, separated) = Rekind(e, id, kind)
    BY <1>2 DEF block_shortcut_apply
  <2>4. WellFormed(e) /\ id \in Ids(e)
    BY <2>2, RetextKeeps
  <2> HIDE DEF e, kind
  <2> QED BY <2>1, <2>3, <2>4, RekindKeeps DEF Outcome
<1> QED BY <1>1, <1>2

\* The lines of a text are put in place of a block.
LEMMA LinesReplaceKeeps ==
  ASSUME NEW d, WellFormed(d), NEW id \in Ids(d), NEW lines \in Seq(Text), lines # << >>
  PROVE  Outcome(block_linesReplace(d, id, lines))
<1> DEFINE i == PositionOf(d, id)
           n == Len(d.blocks)
           m == Len(lines)
           kind == d.blocks[i].kind
           first == IF kind = "paragraph" THEN sourceLine_parse(lines[1])
                    ELSE [kind |-> kind, text |-> lines[1]]
           new == [k \in DOMAIN lines |-> IF k = 1 THEN Block(id, first)
                     ELSE Block(d.nextId + k - 2, sourceLine_parse(lines[k]))]
           next == d.nextId + m - 1
<1>1. CASE n - 1 + m > MaxBlocks
  BY <1>1 DEF block_linesReplace, Outcome
<1>2. CASE ~(n - 1 + m > MaxBlocks)
  <2>1. block_linesReplace(d, id, lines) = [blocks |-> Before(d.blocks, i - 1) \o new \o After(d.blocks, i), nextId |-> next]
    BY <1>2 DEF block_linesReplace
  <2>2. /\ n \in Nat \ {0} /\ m \in Nat \ {0} /\ i \in 1 .. n /\ d.nextId \in Nat /\ MaxBlocks \in Nat
        /\ id \in Nat /\ id < d.nextId /\ d.blocks[i].id = id /\ kind \in Kinds
        /\ DOMAIN lines = 1 .. m /\ \A k \in 1 .. m : lines[k] \in Text
    BY PartsOf, Placed, EmptySeq, LenProperties, ElementOfSeq
  <2> HIDE DEF kind, i, n, m
  <2>3. first \in Parsed
    <3>1. lines[1] \in Text
      BY <2>2
    <3>2. sourceLine_parse(lines[1]) \in Parsed
      BY <3>1, LineIsRead
    <3> QED BY <2>2, <3>1, <3>2 DEF Parsed
  <2> HIDE DEF first
  <2>4. ASSUME NEW k \in 1 .. m
        PROVE  /\ new[k] \in TodoBlock
               /\ new[k].id = IF k = 1 THEN id ELSE d.nextId + k - 2
    <3>1. CASE k = 1
      <4>1. new[k] = Block(id, first)
        BY <2>2, <3>1
      <4> QED BY <2>2, <2>3, <3>1, <4>1, BlockIs
    <3>2. CASE k # 1
      <4>1. new[k] = Block(d.nextId + k - 2, sourceLine_parse(lines[k])) /\ d.nextId + k - 2 \in Nat
        BY <2>2, <3>2
      <4>2. sourceLine_parse(lines[k]) \in Parsed
        BY <2>2, LineIsRead
      <4> DEFINE at == d.nextId + k - 2  parsed == sourceLine_parse(lines[k])
      <4>3. at \in Nat /\ parsed \in Parsed
        BY <4>1, <4>2
      <4> HIDE DEF at, parsed
      <4>4. Block(at, parsed) \in TodoBlock /\ Block(at, parsed).id = at
        BY <4>3, BlockIs
      <4> QED BY <3>2, <4>1, <4>4 DEF at, parsed
    <3> QED BY <3>1, <3>2
  <2>5. new \in Seq(TodoBlock) /\ Len(new) = m
    <3>1. new = [k \in 1 .. m |-> new[k]]
      BY <2>2
    <3> HIDE DEF new
    <3>2. new \in [1 .. m -> TodoBlock]
      BY <2>4, <3>1
    <3> QED BY <2>2, <3>2
  <2> HIDE DEF new
  <2>6. next \in Nat /\ d.nextId <= next
    BY <2>2
  <2>7. ASSUME NEW k \in 1 .. m
        PROVE  /\ new[k].id < next
               /\ new[k].id >= d.nextId \/ \E r \in (i - 1) + 1 .. i : new[k].id = d.blocks[r].id
    <3>1. CASE k = 1
      <4>1. new[k].id = id /\ id < next
        BY <2>2, <2>4, <2>6, <3>1
      <4>2. i \in (i - 1) + 1 .. i
        BY <2>2
      <4> QED BY <2>2, <4>1, <4>2
    <3>2. CASE k # 1
      BY <2>2, <2>4, <3>2
    <3> QED BY <3>1, <3>2
  <2>8. ASSUME NEW j \in 1 .. m, NEW k \in 1 .. m, new[j].id = new[k].id PROVE j = k
    BY <2>2, <2>4, <2>8
  <2>9. i - 1 \in 0 .. n /\ i \in i - 1 .. n /\ (i - 1) + m + (n - i) \in 1 .. MaxBlocks
    BY <1>2, <2>2
  <2> HIDE DEF next
  <2>10. WellFormed([blocks |-> Before(d.blocks, i - 1) \o new \o After(d.blocks, i), nextId |-> next])
    BY <2>5, <2>6, <2>7, <2>8, <2>9, SplicedIs DEF n
  <2> QED BY <2>1, <2>10 DEF Outcome
<1> QED BY <1>1, <1>2

LEMMA RangeReplaceKeeps ==
  ASSUME NEW d, WellFormed(d), NEW i \in 1 .. Len(d.blocks), NEW j \in i .. Len(d.blocks),
         NEW from \in Nat, NEW to \in Nat, NEW replacement \in Text
  PROVE  Outcome(block_rangeReplace(d, i, from, j, to, replacement))
<1> DEFINE n == Len(d.blocks)
           text == Before(d.blocks[i].text, from) \o replacement \o After(d.blocks[j].text, to)
           lines == Lines(text)
           without == [d EXCEPT !.blocks = Before(@, i) \o After(@, j)]
           refused == from > Len(d.blocks[i].text) \/ to > Len(d.blocks[j].text)
                        \/ Len(d.blocks) - (j - i) + Len(lines) - 1 > MaxBlocks
<1>1. CASE refused
  BY <1>1 DEF block_rangeReplace, Outcome
<1>2. CASE ~refused
  <2>1. block_rangeReplace(d, i, from, j, to, replacement) = block_linesReplace(without, d.blocks[i].id, lines)
    BY <1>2 DEF block_rangeReplace
  <2>2. /\ n \in Nat \ {0} /\ i \in Nat /\ j \in Nat /\ i <= j /\ j <= n /\ i >= 1 /\ j \in 1 .. n
        /\ d.blocks \in Seq(TodoBlock) /\ d.nextId \in Nat /\ n <= MaxBlocks /\ MaxBlocks \in Nat
        /\ d = [blocks |-> d.blocks, nextId |-> d.nextId]
    BY PartsOf
  <2>3. d.blocks[i].text \in Text /\ d.blocks[j].text \in Text
    BY <2>2, PartsOf
  <2>4. /\ from \in 0 .. Len(d.blocks[i].text) /\ to \in 0 .. Len(d.blocks[j].text)
    <3>1. Len(d.blocks[i].text) \in Nat /\ Len(d.blocks[j].text) \in Nat
      BY <2>3, LenProperties DEF Text
    <3> HIDE DEF lines
    <3> QED BY <1>2, <3>1
  <2>5. text \in Text
    <3>1. Before(d.blocks[i].text, from) \in Text /\ After(d.blocks[j].text, to) \in Text
      BY <2>3, <2>4, BeforeAfter DEF Text
    <3>2. Before(d.blocks[i].text, from) \o replacement \in Text
      BY <3>1, ConcatProperties DEF Text
    <3> QED BY <3>1, <3>2, ConcatProperties DEF Text
  <2> HIDE DEF text
  <2>6. lines \in Seq(Text) /\ lines # << >>
    BY <2>5, LinesAre
  <2>7. without = [blocks |-> Before(d.blocks, i) \o << >> \o After(d.blocks, j), nextId |-> d.nextId]
    <3> DEFINE s == Before(d.blocks, i) \o After(d.blocks, j)
    <3>1. i \in 0 .. n /\ j \in 0 .. n
      BY <2>2
    <3>2. s = Before(d.blocks, i) \o << >> \o After(d.blocks, j)
      BY <2>2, <3>1, SplicedEmpty
    <3> HIDE DEF s
    <3>3. [d EXCEPT !.blocks = s] = [blocks |-> s, nextId |-> d.nextId]
      BY <2>2
    <3> QED BY <3>2, <3>3 DEF s
  <2>8. << >> \in Seq(TodoBlock) /\ Len(<< >>) = 0
    BY EmptySeq
  <2>9. i \in 0 .. n /\ j \in i .. n /\ i + 0 + (n - j) \in 1 .. MaxBlocks
    BY <2>2
  <2>10. WellFormed(without)
    <3> DEFINE mid == << >>
    <3>1. mid \in Seq(TodoBlock) /\ Len(mid) = 0
      BY <2>8
    <3>2. \A k \in 1 .. Len(mid) : FALSE
      BY <3>1
    <3> HIDE DEF mid, without
    <3>4. /\ \A k \in 1 .. Len(mid) :
               /\ mid[k].id < d.nextId
               /\ mid[k].id >= d.nextId \/ \E r \in i + 1 .. j : mid[k].id = d.blocks[r].id
          /\ \A k, l \in 1 .. Len(mid) : mid[k].id = mid[l].id => k = l
      BY <3>2
    <3>5. i + Len(mid) + (n - j) \in 1 .. MaxBlocks /\ d.nextId <= d.nextId
      BY <2>2, <2>9, <3>1
    <3>3. WellFormed([blocks |-> Before(d.blocks, i) \o mid \o After(d.blocks, j), nextId |-> d.nextId])
      BY <2>2, <2>9, <3>1, <3>4, <3>5, SplicedIs
    <3> QED BY <2>7, <3>3 DEF mid
  <2>11. d.blocks[i].id \in Ids(without)
    <3>1. IsSplice(without.blocks, d.blocks, i, << >>, j)
      <4>1. without.blocks = Splice(d.blocks, i, << >>, j)
        BY <2>7 DEF Splice
      <4> HIDE DEF without
      <4> QED BY <2>2, <2>8, <2>9, <4>1, ThreeParts
    <3>2. i \in 1 .. i
      BY <2>2
    <3>3. without.blocks[i] = d.blocks[i] /\ Len(without.blocks) = i + 0 + (n - j)
      BY <2>8, <3>1, <3>2 DEF IsSplice
    <3> HIDE DEF without
    <3>4. DOMAIN without.blocks = 1 .. Len(without.blocks)
      BY <2>10, PartsOf
    <3>5. i \in DOMAIN without.blocks
      BY <2>2, <3>3, <3>4
    <3> QED BY <3>3, <3>5 DEF Ids
  <2> HIDE DEF without, lines
  <2> QED BY <2>1, <2>6, <2>10, <2>11, LinesReplaceKeeps
<1> QED BY <1>1, <1>2

LEMMA EnterKeeps ==
  ASSUME NEW d, WellFormed(d), NEW id \in Ids(d), NEW from \in Nat, NEW to \in Nat, from <= to
  PROVE  Outcome(block_enterRange(d, id, from, to))
<1> DEFINE i == PositionOf(d, id)
           block == d.blocks[i]
           unstyles == Len(block.text) = to - from /\ emptyEnter_unstyles(block.kind)
           right == [id |-> d.nextId, kind |-> nextBlock_get(block.kind), text |-> After(block.text, to)]
           e == Retext(d, id, Before(block.text, from))
           emptied == Rekind(Retext(d, id, << >>), id, "paragraph")
           split == [blocks |-> InsertAt(e.blocks, i + 1, right), nextId |-> d.nextId + 1]
           n == Len(d.blocks)
<1>1. /\ n \in Nat \ {0} /\ i \in 1 .. n /\ d.nextId \in Nat /\ MaxBlocks \in Nat
      /\ block.kind \in Kinds /\ block.text \in Text
  BY PartsOf, Placed
<1>2. << >> \in Text /\ "paragraph" \in Kinds /\ {"list", "task"} \subseteq Kinds
  BY EmptySeq DEF Text, Kinds
<1>3. WellFormed(emptied)
  <2> DEFINE w == Retext(d, id, << >>)
  <2>1. WellFormed(w) /\ id \in Ids(w)
    BY <1>2, RetextKeeps
  <2> HIDE DEF w
  <2>2. WellFormed(Rekind(w, id, "paragraph"))
    BY <1>2, <2>1, RekindKeeps
  <2> QED BY <2>2 DEF w
<1> HIDE DEF emptied, i, block, n
<1>4. Len(block.text) \in Nat
  BY <1>1, LenProperties DEF Text
<1>5. ASSUME to <= Len(block.text), ~(n >= MaxBlocks) PROVE WellFormed(split)
  <2>1. from \in 0 .. Len(block.text) /\ to \in 0 .. Len(block.text)
    BY <1>4, <1>5
  <2>2. Before(block.text, from) \in Text /\ After(block.text, to) \in Text
    BY <1>1, <2>1, BeforeAfter DEF Text
  <2>3. WellFormed(e) /\ Len(e.blocks) = n /\ e.nextId = d.nextId
    <3> DEFINE text == Before(block.text, from)
    <3>1. text \in Text
      BY <2>2
    <3> HIDE DEF text
    <3> DEFINE b == [d.blocks[PositionOf(d, id)] EXCEPT !.text = text]
    <3>2. /\ Retext(d, id, text) = With(d, PositionOf(d, id), b)
          /\ b \in TodoBlock /\ b.id = d.blocks[PositionOf(d, id)].id
      BY <3>1, RetextIs
    <3> HIDE DEF b
    <3>3. PositionOf(d, id) \in 1 .. Len(d.blocks)
      BY Placed
    <3>4. WellFormed(With(d, PositionOf(d, id), b)) /\ Len(With(d, PositionOf(d, id), b).blocks) = Len(d.blocks)
      BY <3>2, <3>3, WithIs
    <3>5. With(d, PositionOf(d, id), b).nextId = d.nextId
      BY DEF With
    <3> QED BY <3>2, <3>4, <3>5 DEF n, text
  <2> HIDE DEF e
  <2>4. right \in TodoBlock /\ right.id = d.nextId
    <3>1. nextBlock_get(block.kind) \in Kinds
      BY <1>2 DEF nextBlock_get
    <3> QED BY <1>1, <2>2, <3>1 DEF TodoBlock
  <2> HIDE DEF right
  <2> DEFINE mid == <<right>>
  <2>5. mid \in Seq(TodoBlock) /\ Len(mid) = 1 /\ mid[1] = right
    BY <2>4
  <2> HIDE DEF mid
  <2>6. InsertAt(e.blocks, i + 1, right) = Before(e.blocks, i) \o mid \o After(e.blocks, i)
    <3>1. (i + 1) - 1 = i
      BY <1>1
    <3> QED BY <3>1 DEF InsertAt, Before, After, mid
  <2> DEFINE next == d.nextId + 1
  <2>7. next \in Nat /\ e.nextId <= next
    BY <1>1, <2>3
  <2>8. \A k \in 1 .. Len(mid) : /\ mid[k].id < next
                                 /\ mid[k].id >= e.nextId \/ \E r \in i + 1 .. i : mid[k].id = e.blocks[r].id
    BY <1>1, <2>3, <2>4, <2>5
  <2>9. \A j, k \in 1 .. Len(mid) : mid[j].id = mid[k].id => j = k
    BY <2>5
  <2>10. i \in 0 .. Len(e.blocks) /\ i \in i .. Len(e.blocks) /\ i + Len(mid) + (Len(e.blocks) - i) \in 1 .. MaxBlocks
    BY <1>1, <1>5, <2>3, <2>5
  <2> HIDE DEF next
  <2>11. WellFormed([blocks |-> Before(e.blocks, i) \o mid \o After(e.blocks, i), nextId |-> next])
    BY <2>3, <2>5, <2>7, <2>8, <2>9, <2>10, SplicedIs
  <2> QED BY <2>6, <2>11 DEF next
<1> HIDE DEF right, e
<1>6. /\ to > Len(block.text) => block_enterRange(d, id, from, to) = Refused
      /\ to <= Len(block.text) /\ unstyles => block_enterRange(d, id, from, to) = emptied
      /\ to <= Len(block.text) /\ ~unstyles /\ n >= MaxBlocks => block_enterRange(d, id, from, to) = Refused
      /\ to <= Len(block.text) /\ ~unstyles /\ ~(n >= MaxBlocks) => block_enterRange(d, id, from, to) = split
  <2>1. to > Len(block.text) <=> ~(to <= Len(block.text))
    BY <1>4
  <2> HIDE DEF unstyles
  <2> QED BY <2>1 DEF block_enterRange, block, i, n, e, right, emptied, unstyles
<1> HIDE DEF unstyles, split
<1>7. to > Len(block.text) \/ to <= Len(block.text)
  BY <1>4
<1> QED BY <1>3, <1>5, <1>6, <1>7 DEF Outcome

LEMMA MergeIs ==
  ASSUME NEW d, WellFormed(d), NEW i \in 2 .. Len(d.blocks)
  PROVE  LET m == MergedIntoPrevious(d, i)
         IN  /\ WellFormed(m) /\ Len(m.blocks) = Len(d.blocks) - 1
             /\ \A k \in 1 .. i - 2 : m.blocks[k] = d.blocks[k]
             /\ m.blocks[i - 1].kind = d.blocks[i - 1].kind
             /\ m.blocks[i - 1].text = d.blocks[i - 1].text \o d.blocks[i].text
             /\ \A k \in i .. Len(d.blocks) - 1 : m.blocks[k] = d.blocks[k + 1]
<1> DEFINE n == Len(d.blocks)
           h == i - 1
           text == d.blocks[h].text \o d.blocks[i].text
           block == [d.blocks[h] EXCEPT !.text = text]
           w == With(d, h, block)
           s == Before(w.blocks, h) \o After(w.blocks, i)
           m == MergedIntoPrevious(d, i)
<1>1. /\ n \in Nat \ {0} /\ i \in Nat /\ i >= 2 /\ i <= n /\ i \in 1 .. n /\ h \in 1 .. n /\ h \in Nat
      /\ h + 1 = i /\ n <= MaxBlocks /\ MaxBlocks \in Nat /\ d.nextId \in Nat
      /\ d.blocks[h] \in TodoBlock /\ d.blocks[h].text \in Text /\ d.blocks[i].text \in Text
      /\ d = [blocks |-> d.blocks, nextId |-> d.nextId]
  BY PartsOf
<1>2. text \in Text
  BY <1>1, ConcatProperties DEF Text
<1> HIDE DEF n, text
<1>3. /\ block \in TodoBlock /\ block.id = d.blocks[h].id /\ block.kind = d.blocks[h].kind
      /\ block.text = text
  BY <1>1, <1>2 DEF TodoBlock
<1>4. m = [blocks |-> s, nextId |-> d.nextId]
  <2>1. (i - 1) = h
    OBVIOUS
  <2>2. m = [d EXCEPT !.blocks = RemoveAt([d.blocks EXCEPT ![h] = block], i)]
    <3>1. m = [d EXCEPT !.blocks = RemoveAt([d.blocks EXCEPT ![i - 1].text = text], i)]
      BY DEF MergedIntoPrevious, text
    <3>2. [d.blocks EXCEPT ![i - 1].text = text] = [d.blocks EXCEPT ![h] = block]
      OBVIOUS
    <3> HIDE DEF m, block, h
    <3> QED BY <3>1, <3>2
  <2>3. RemoveAt([d.blocks EXCEPT ![h] = block], i) = s
    BY DEF RemoveAt, Before, After, With
  <2> HIDE DEF s, m
  <2>4. [d EXCEPT !.blocks = s] = [blocks |-> s, nextId |-> d.nextId]
    BY <1>1
  <2> QED BY <2>2, <2>3, <2>4
<1> HIDE DEF block, h
<1>5. /\ WellFormed(w) /\ Len(w.blocks) = n
      /\ \A k \in 1 .. n : w.blocks[k] = IF k = h THEN block ELSE d.blocks[k]
      /\ w.nextId = d.nextId
  <2>1. w.nextId = d.nextId
    BY DEF With
  <2> QED BY <1>1, <1>3, <2>1, WithIs DEF n
<1> HIDE DEF w
<1>6. w.blocks \in Seq(TodoBlock) /\ h \in 0 .. Len(w.blocks) /\ i \in h .. Len(w.blocks) /\ i \in 0 .. Len(w.blocks)
  BY <1>1, <1>5, PartsOf
<1> DEFINE mid == << >>
<1>7. mid \in Seq(TodoBlock) /\ Len(mid) = 0
  BY EmptySeq
<1>8. s = Before(w.blocks, h) \o mid \o After(w.blocks, i)
  BY <1>6, SplicedEmpty
<1> HIDE DEF mid, s, m
<1>9. WellFormed([blocks |-> s, nextId |-> d.nextId])
  <2>1. /\ \A k \in 1 .. Len(mid) :
               /\ mid[k].id < w.nextId
               /\ mid[k].id >= w.nextId \/ \E r \in h + 1 .. i : mid[k].id = w.blocks[r].id
        /\ \A k, l \in 1 .. Len(mid) : mid[k].id = mid[l].id => k = l
    BY <1>7
  <2>2. h + Len(mid) + (Len(w.blocks) - i) \in 1 .. MaxBlocks /\ w.nextId <= w.nextId /\ w.nextId \in Nat
    BY <1>1, <1>5, <1>7
  <2>3. WellFormed([blocks |-> Before(w.blocks, h) \o mid \o After(w.blocks, i), nextId |-> w.nextId])
    BY <1>5, <1>6, <1>7, <2>1, <2>2, SplicedIs
  <2> QED BY <1>5, <1>8, <2>3
<1>10. IsSplice(s, w.blocks, h, mid, i)
  <2>1. s = Splice(w.blocks, h, mid, i)
    BY <1>8 DEF Splice
  <2> QED BY <1>6, <1>7, <2>1, ThreeParts
<1>11. m.blocks = s
  BY <1>4
<1>12. Len(s) = n - 1
  BY <1>1, <1>5, <1>7, <1>10 DEF IsSplice
<1>13. ASSUME NEW k \in 1 .. h PROVE s[k] = IF k = h THEN block ELSE d.blocks[k]
  <2>1. k \in 1 .. n
    BY <1>1
  <2>2. s[k] = w.blocks[k]
    BY <1>10 DEF IsSplice
  <2> QED BY <1>5, <2>1, <2>2
<1>14. ASSUME NEW k \in i .. n - 1 PROVE s[k] = d.blocks[k + 1]
  <2>1. k + 1 \in i + 1 .. n /\ k + 1 \in 1 .. n /\ k + 1 # h /\ h + 0 + ((k + 1) - i) = k
    <3>1. k \in Int /\ k >= i /\ k <= n - 1 /\ i \in Int /\ n \in Int /\ h \in Int /\ h + 1 = i /\ i >= 2
      BY <1>1
    <3> QED BY <3>1
  <2>2. s[h + 0 + ((k + 1) - i)] = w.blocks[k + 1]
    BY <1>5, <1>7, <1>10, <2>1 DEF IsSplice
  <2> QED BY <1>5, <2>1, <2>2
<1>15. \A k \in 1 .. i - 2 : s[k] = d.blocks[k]
  <2> SUFFICES ASSUME NEW k \in 1 .. i - 2 PROVE s[k] = d.blocks[k]
    OBVIOUS
  <2>1. k \in 1 .. h /\ k # h
    BY <1>1
  <2> QED BY <1>13, <2>1
<1>16. s[h] = block
  <2>1. h \in 1 .. h
    BY <1>1
  <2> QED BY <1>13, <2>1
<1>17. WellFormed(m)
  BY <1>4, <1>9
<1> QED BY <1>3, <1>11, <1>12, <1>14, <1>15, <1>16, <1>17 DEF n, m, h, text

-----------------------------------------------------------------------------
(* What a document is written as, its length, and what the screen shows. *)

Out(d) == [k \in DOMAIN d.blocks |-> sourceLine_get(d.blocks[k])]

LEMMA OutIs ==
  ASSUME NEW d, WellFormed(d)
  PROVE  /\ Out(d) \in Seq(Text) /\ Out(d) # << >> /\ Len(Out(d)) = Len(d.blocks)
         /\ \A k \in 1 .. Len(d.blocks) : Out(d)[k] = Prefix(d.blocks[k].kind) \o d.blocks[k].text
         /\ source_get(d) = Joined(Out(d))
<1> DEFINE n == Len(d.blocks)
<1>1. /\ n \in Nat \ {0} /\ DOMAIN d.blocks = 1 .. n
      /\ \A k \in 1 .. n : d.blocks[k].kind \in Kinds /\ d.blocks[k].text \in Text
  BY PartsOf
<1> HIDE DEF n
<1>2. \A k \in 1 .. n : Out(d)[k] = Prefix(d.blocks[k].kind) \o d.blocks[k].text
  BY <1>1 DEF Out, sourceLine_get
<1>3. \A k \in 1 .. n : Out(d)[k] \in Text
  <2> SUFFICES ASSUME NEW k \in 1 .. n PROVE Out(d)[k] \in Text
    OBVIOUS
  <2>1. Prefix(d.blocks[k].kind) \in Text /\ d.blocks[k].text \in Text
    BY <1>1, PrefixIsText
  <2>2. Prefix(d.blocks[k].kind) \o d.blocks[k].text \in Text
    BY <2>1, ConcatProperties DEF Text
  <2> QED BY <1>2, <2>2
<1>4. Out(d) = [k \in 1 .. n |-> Out(d)[k]]
  BY <1>1 DEF Out
<1>5. Out(d) \in [1 .. n -> Text]
  BY <1>3, <1>4
<1>6. Out(d) \in Seq(Text) /\ Len(Out(d)) = n
  BY <1>1, <1>5
<1>7. Out(d) # << >>
  BY <1>1, <1>6, EmptySeq
<1> QED BY <1>2, <1>6, <1>7 DEF n, Out, source_get

LEMMA WrittenIsText ==
  ASSUME NEW d, WellFormed(d)
  PROVE  source_get(d) \in Text
<1>1. Out(d) \in Seq(Text) /\ Out(d) # << >> /\ source_get(d) = Joined(Out(d))
  BY OutIs
<1> DEFINE lines == Out(d)
<1> HIDE DEF lines
<1>2. lines \in Seq(Text) /\ lines # << >>
  BY <1>1 DEF lines
<1>3. PICK f \in [1 .. Len(lines) -> Text] : Joined(lines) = f[Len(lines)]
  BY <1>2, JoinedIs
<1>4. Len(lines) \in 1 .. Len(lines)
  BY <1>2, EmptySeq
<1> QED BY <1>1, <1>3, <1>4 DEF lines

\* The wide characters of a text.
WideOf(text) == {i \in DOMAIN text : text[i] \in Wide}

LEMMA BytesAre ==
  ASSUME NEW text \in Text
  PROVE  Bytes(text) \in Nat /\ Bytes(text) >= Len(text) /\ IsFiniteSet(WideOf(text))
         /\ Bytes(text) = Len(text) + Cardinality(WideOf(text))
<1>1. Len(text) \in Nat /\ DOMAIN text = 1 .. Len(text)
  BY LenProperties DEF Text
<1>2. IsFiniteSet(1 .. Len(text))
  BY <1>1, FS_Interval
<1>3. IsFiniteSet(WideOf(text)) /\ Cardinality(WideOf(text)) \in Nat
  <2>1. WideOf(text) \subseteq 1 .. Len(text)
    BY <1>1 DEF WideOf
  <2> QED BY <1>2, <2>1, FS_Subset, FS_CardinalityType
<1>4. Bytes(text) = Len(text) + Cardinality(WideOf(text))
  BY DEF Bytes, WideOf
<1> QED BY <1>1, <1>3, <1>4

\* The bytes of two texts are those of one and those of the other.
LEMMA BytesAdd ==
  ASSUME NEW a \in Text, NEW b \in Text
  PROVE  a \o b \in Text /\ Bytes(a \o b) = Bytes(a) + Bytes(b)
<1> DEFINE n == Len(a)
           m == Len(b)
           c == a \o b
           moved == {n + i : i \in WideOf(b)}
<1>1. /\ n \in Nat /\ m \in Nat /\ DOMAIN a = 1 .. n /\ DOMAIN b = 1 .. m
      /\ c \in Text /\ Len(c) = n + m
      /\ \A i \in 1 .. n + m : c[i] = IF i <= n THEN a[i] ELSE b[i - n]
  BY LenProperties, ConcatProperties DEF Text
<1>2. DOMAIN c = 1 .. n + m
  BY <1>1, LenProperties DEF Text
<1> HIDE DEF c, n, m
<1>3. WideOf(c) = WideOf(a) \cup moved
  <2>1. \A i \in WideOf(c) : i \in WideOf(a) \cup moved
    <3> SUFFICES ASSUME NEW i \in WideOf(c) PROVE i \in WideOf(a) \/ i \in moved
      OBVIOUS
    <3>1. i \in 1 .. n + m /\ c[i] \in Wide
      BY <1>2 DEF WideOf
    <3>2. CASE i <= n
      BY <1>1, <3>1, <3>2 DEF WideOf
    <3>3. CASE ~(i <= n)
      <4>1. i - n \in 1 .. m /\ n + (i - n) = i /\ b[i - n] \in Wide
        BY <1>1, <3>1, <3>3
      <4>2. i - n \in WideOf(b)
        BY <1>1, <4>1 DEF WideOf
      <4> QED BY <4>1, <4>2
    <3> QED BY <3>2, <3>3
  <2>2. \A i \in WideOf(a) : i \in WideOf(c)
    BY <1>1, <1>2 DEF WideOf
  <2>3. \A i \in WideOf(b) : n + i \in WideOf(c)
    <3> SUFFICES ASSUME NEW i \in WideOf(b) PROVE n + i \in WideOf(c)
      OBVIOUS
    <3>1. i \in 1 .. m /\ b[i] \in Wide
      BY <1>1 DEF WideOf
    <3>2. n + i \in 1 .. n + m /\ ~(n + i <= n) /\ (n + i) - n = i
      BY <1>1, <3>1
    <3>3. c[n + i] = b[(n + i) - n]
      BY <1>1, <3>2
    <3>4. c[n + i] \in Wide
      BY <3>1, <3>2, <3>3
    <3> QED BY <1>2, <3>2, <3>4 DEF WideOf
  <2> QED BY <2>1, <2>2, <2>3
<1>4. IsFiniteSet(WideOf(a)) /\ IsFiniteSet(WideOf(b))
  BY BytesAre
<1>5. IsFiniteSet(moved) /\ Cardinality(moved) = Cardinality(WideOf(b))
  <2> DEFINE f == [i \in WideOf(b) |-> n + i]
  <2>1. WideOf(b) \subseteq Nat
    BY <1>1 DEF WideOf
  <2>2. f \in Bijection(WideOf(b), moved)
    <3>1. f \in [WideOf(b) -> moved]
      OBVIOUS
    <3>2. \A i, j \in WideOf(b) : f[i] = f[j] => i = j
      BY <1>1, <2>1
    <3>3. \A x \in moved : \E i \in WideOf(b) : f[i] = x
      OBVIOUS
    <3> HIDE DEF f, moved
    <3> QED BY <3>1, <3>2, <3>3 DEF Bijection, Injection, Surjection, IsInjective
  <2> HIDE DEF f, moved
  <2>3. ExistsBijection(WideOf(b), moved)
    BY <2>2 DEF ExistsBijection
  <2> QED BY <1>4, <2>3, FS_Bijection
<1>6. WideOf(a) \cap moved = {}
  BY <1>1 DEF WideOf
<1> HIDE DEF moved
<1>7. Cardinality(WideOf(c)) = Cardinality(WideOf(a)) + Cardinality(WideOf(b))
  <2>1. Cardinality(WideOf(a) \cup moved) = Cardinality(WideOf(a)) + Cardinality(moved) - Cardinality(WideOf(a) \cap moved)
    BY <1>4, <1>5, FS_Union
  <2>2. Cardinality(WideOf(a) \cap moved) = 0
    BY <1>6, FS_EmptySet
  <2>3. Cardinality(WideOf(a)) \in Nat /\ Cardinality(moved) \in Nat
    BY <1>4, <1>5, FS_CardinalityType
  <2> QED BY <1>3, <1>5, <2>1, <2>2, <2>3
<1>8. /\ Bytes(c) = (n + m) + Cardinality(WideOf(c))
      /\ Bytes(a) = n + Cardinality(WideOf(a)) /\ Bytes(b) = m + Cardinality(WideOf(b))
  BY <1>1, BytesAre DEF n, m
<1>9. Cardinality(WideOf(a)) \in Nat /\ Cardinality(WideOf(b)) \in Nat
  BY <1>4, FS_CardinalityType
<1>10. Bytes(c) = Bytes(a) + Bytes(b)
  BY <1>1, <1>7, <1>8, <1>9
<1> QED BY <1>1, <1>10 DEF c

LEMMA EmptyBytes == << >> \in Text /\ Bytes(<< >>) = 0
<1>1. << >> \in Text /\ Len(<< >>) = 0
  BY EmptySeq DEF Text
<1>2. WideOf(<< >>) = {}
  <2>1. DOMAIN << >> = {}
    OBVIOUS
  <2> QED BY <2>1 DEF WideOf
<1>3. Cardinality(WideOf(<< >>)) = 0
  BY <1>2, FS_EmptySet
<1> QED BY <1>1, <1>3, BytesAre

LEMMA TruncateIs ==
  ASSUME NEW text \in Text, NEW most \in Nat
  PROVE  text_truncate(text, most) \in Text /\ Bytes(text_truncate(text, most)) <= most
<1> DEFINE T == {n \in 0 .. Len(text) : Bytes(Before(text, n)) <= most}
<1>1. Len(text) \in Nat
  BY LenProperties DEF Text
<1>2. 0 \in T
  <2>1. Before(text, 0) = << >>
    BY SubSeqEmpty DEF Before
  <2>2. Bytes(Before(text, 0)) <= most
    BY <2>1, EmptyBytes
  <2> QED BY <1>1, <2>2
<1>3. T \subseteq Nat /\ \A n \in T : n <= Len(text)
  BY <1>1
<1> HIDE DEF T
<1>4. \E x \in T : \A y \in T : y <= x
  BY <1>1, <1>2, <1>3, BoundedHasGreatest
<1>5. \E x \in T : \A y \in T : x >= y
  BY <1>3, <1>4
<1>6. Max(T) \in T
  BY <1>5 DEF Max
<1>7. Max(T) \in 0 .. Len(text) /\ Bytes(Before(text, Max(T))) <= most
  BY <1>6 DEF T
<1>8. Before(text, Max(T)) \in Text
  BY <1>7, BeforeAfter DEF Text
<1> QED BY <1>7, <1>8 DEF text_truncate, T

LEMMA DrawnIs ==
  ASSUME NEW d, WellFormed(d)
  PROVE  /\ Drawn(d) \in [Ids(d) -> Text] /\ DOMAIN Drawn(d) = Ids(d)
         /\ \A id \in Ids(d) : Drawn(d)[id] = BlockOf(d, id).text
<1>1. Drawn(d) = [id \in Ids(d) |-> BlockOf(d, id).text]
  BY DEF Drawn, Ids
<1>2. \A id \in Ids(d) : BlockOf(d, id).text \in Text
  BY Placed
<1> QED BY <1>1, <1>2

\* An edit of one text changes what is drawn in that row only.
LEMMA DrawnRetext ==
  ASSUME NEW d, WellFormed(d), NEW id \in Ids(d), NEW text \in Text
  PROVE  Drawn(Retext(d, id, text)) = [Drawn(d) EXCEPT ![id] = text]
<1> DEFINE i == PositionOf(d, id)
           block == [d.blocks[i] EXCEPT !.text = text]
           e == Retext(d, id, text)
<1>1. /\ e = With(d, i, block) /\ block \in TodoBlock /\ block.id = d.blocks[i].id /\ block.text = text
  BY RetextIs
<1>2. i \in 1 .. Len(d.blocks) /\ d.blocks[i].id = id
  BY Placed
<1> HIDE DEF i, block, e
<1>3. /\ WellFormed(e) /\ Ids(e) = Ids(d) /\ Len(e.blocks) = Len(d.blocks)
      /\ \A k \in 1 .. Len(d.blocks) : e.blocks[k] = IF k = i THEN block ELSE d.blocks[k]
  BY <1>1, <1>2, WithIs
<1>4. ASSUME NEW b \in Ids(d) PROVE BlockOf(e, b).text = IF b = id THEN text ELSE BlockOf(d, b).text
  <2> DEFINE p == PositionOf(d, b)  q == PositionOf(e, b)
  <2>1. p \in 1 .. Len(d.blocks) /\ d.blocks[p].id = b /\ BlockOf(d, b) = d.blocks[p]
        /\ \A k \in 1 .. Len(d.blocks) : d.blocks[k].id = b => k = p
    BY Placed
  <2>2. q \in 1 .. Len(d.blocks) /\ e.blocks[q].id = b /\ BlockOf(e, b) = e.blocks[q]
    BY <1>3, Placed
  <2> HIDE DEF p, q
  <2>3. d.blocks[q].id = b
    BY <1>1, <1>3, <2>2
  <2>4. q = p
    BY <2>1, <2>2, <2>3
  <2>5. (b = id) <=> (p = i)
    BY <1>2, <2>1
  <2> QED BY <1>1, <1>3, <2>1, <2>2, <2>4, <2>5
<1>5. /\ Drawn(d) = [b \in Ids(d) |-> BlockOf(d, b).text]
      /\ Drawn(e) = [b \in Ids(d) |-> BlockOf(e, b).text]
  BY <1>3 DEF Drawn, Ids
<1> QED BY <1>4, <1>5 DEF e

TodoRow == [kind : Kinds, ticked : BOOLEAN]

LEMMA MarksAre ==
  ASSUME NEW d, WellFormed(d)
  PROVE  /\ Marks(d) \in [Ids(d) -> TodoRow] /\ DOMAIN Marks(d) = Ids(d)
         /\ \A id \in Ids(d) : Marks(d)[id] = [kind |-> BlockOf(d, id).kind,
                                               ticked |-> BlockOf(d, id).kind = "done"]
<1>1. Marks(d) = [id \in Ids(d) |-> [kind |-> BlockOf(d, id).kind,
                                    ticked |-> BlockOf(d, id).kind = "done"]]
  BY DEF Marks, Ids
<1>2. \A id \in Ids(d) : BlockOf(d, id).kind \in Kinds
  BY Placed
<1>3. \A id \in Ids(d) : [kind |-> BlockOf(d, id).kind,
                          ticked |-> BlockOf(d, id).kind = "done"] \in TodoRow
  BY <1>2 DEF TodoRow
<1> QED BY <1>1, <1>3

\* An edit of one text changes no mark.
LEMMA MarksRetext ==
  ASSUME NEW d, WellFormed(d), NEW id \in Ids(d), NEW text \in Text
  PROVE  Marks(Retext(d, id, text)) = Marks(d)
<1> DEFINE i == PositionOf(d, id)
           block == [d.blocks[i] EXCEPT !.text = text]
           e == Retext(d, id, text)
<1>1. /\ e = With(d, i, block) /\ block \in TodoBlock /\ block.id = d.blocks[i].id
  BY RetextIs
<1>2. i \in 1 .. Len(d.blocks) /\ d.blocks[i].id = id /\ d.blocks[i] \in TodoBlock
  BY Placed, PartsOf
<1>3. block.kind = d.blocks[i].kind
  BY <1>2 DEF TodoBlock
<1> HIDE DEF i, block, e
<1>4. /\ WellFormed(e) /\ Ids(e) = Ids(d) /\ Len(e.blocks) = Len(d.blocks)
      /\ \A k \in 1 .. Len(d.blocks) : e.blocks[k] = IF k = i THEN block ELSE d.blocks[k]
  BY <1>1, <1>2, WithIs
<1>5. ASSUME NEW b \in Ids(d) PROVE BlockOf(e, b).kind = BlockOf(d, b).kind
  <2> DEFINE p == PositionOf(d, b)  q == PositionOf(e, b)
  <2>1. p \in 1 .. Len(d.blocks) /\ d.blocks[p].id = b /\ BlockOf(d, b) = d.blocks[p]
        /\ \A k \in 1 .. Len(d.blocks) : d.blocks[k].id = b => k = p
    BY Placed
  <2>2. q \in 1 .. Len(d.blocks) /\ e.blocks[q].id = b /\ BlockOf(e, b) = e.blocks[q]
    BY <1>4, Placed
  <2> HIDE DEF p, q
  <2>3. d.blocks[q].id = b
    BY <1>1, <1>4, <2>2
  <2>4. q = p
    BY <2>1, <2>2, <2>3
  <2> QED BY <1>3, <1>4, <2>1, <2>2, <2>4
<1>6. /\ Marks(d) = [b \in Ids(d) |-> [kind |-> BlockOf(d, b).kind,
                                      ticked |-> BlockOf(d, b).kind = "done"]]
      /\ Marks(e) = [b \in Ids(d) |-> [kind |-> BlockOf(e, b).kind,
                                      ticked |-> BlockOf(e, b).kind = "done"]]
  BY <1>4 DEF Marks, Ids
<1> QED BY <1>5, <1>6 DEF e

\* Clicks that change no row, one row more, and the rows after them.
LEMMA NoneClicked ==
  ASSUME NEW S, NEW rows \in [S -> TodoRow]
  PROVE  Clicked(rows, {}) = rows
BY DEF Clicked

LEMMA OneClicked ==
  ASSUME NEW S, NEW rows \in [S -> TodoRow], NEW ids \in SUBSET S, NEW id \in S
  PROVE  Clicked(Clicked(rows, ids), {id}) = Clicked(rows, SymDiff(ids, {id}))
<1> DEFINE one == Clicked(rows, ids)
           both == SymDiff(ids, {id})
<1>1. /\ DOMAIN one = S
      /\ \A b \in S : one[b] = IF b \in ids THEN [rows[b] EXCEPT !.ticked = ~@] ELSE rows[b]
  BY DEF Clicked
<1>2. \A b \in S : (b \in both) <=> (IF b = id THEN b \notin ids ELSE b \in ids)
  BY DEF SymDiff
<1> HIDE DEF one, both
<1>3. Clicked(one, {id}) =
        [b \in S |-> IF b = id THEN [one[b] EXCEPT !.ticked = ~@] ELSE one[b]]
  BY <1>1 DEF Clicked
<1>4. Clicked(rows, both) =
        [b \in S |-> IF b \in both THEN [rows[b] EXCEPT !.ticked = ~@] ELSE rows[b]]
  BY DEF Clicked
<1>5. ASSUME NEW b \in S
      PROVE  (IF b = id THEN [one[b] EXCEPT !.ticked = ~@] ELSE one[b])
               = (IF b \in both THEN [rows[b] EXCEPT !.ticked = ~@] ELSE rows[b])
  <2>1. PICK row \in TodoRow : row = rows[b]
    OBVIOUS
  <2>2. PICK other : other = [row EXCEPT !.ticked = ~@]
    OBVIOUS
  <2>3. [other EXCEPT !.ticked = ~@] = row
    BY <2>2 DEF TodoRow
  <2>4. one[b] = IF b \in ids THEN other ELSE row
    BY <1>1, <2>1, <2>2
  <2>5. CASE b = id
    BY <1>2, <2>1, <2>2, <2>3, <2>4, <2>5
  <2>6. CASE b # id
    BY <1>2, <2>1, <2>2, <2>4, <2>6
  <2> QED BY <2>5, <2>6
<1> QED BY <1>3, <1>4, <1>5 DEF one, both

LEMMA ClickedIs ==
  ASSUME NEW S, NEW rows \in [S -> TodoRow], NEW ids
  PROVE  Clicked(rows, ids) \in [S -> TodoRow]
<1>1. ASSUME NEW b \in S PROVE [rows[b] EXCEPT !.ticked = ~@] \in TodoRow
  <2>1. PICK row \in TodoRow : row = rows[b]
    OBVIOUS
  <2>2. [row EXCEPT !.ticked = ~@] \in TodoRow
    BY DEF TodoRow
  <2> QED BY <2>1, <2>2
<1> QED BY <1>1 DEF Clicked

-----------------------------------------------------------------------------
(* The editor: the inductive invariant. *)

\* Each row on the screen was drawn with a kind and a checkbox.
RowsOK == marks \in [DOMAIN screen -> TodoRow] /\ unheeded \subseteq DOMAIN screen

\* The source is that of a well-formed document, and the screen shows it unless
\* it holds an edit the editor has not taken.
EditorOK ==
  /\ RowsOK
  /\ todoBound \in TodoCases /\ WellFormed(document)
  /\ source \in Text /\ sent \in Text
  /\ DOMAIN screen \subseteq Ids(document) /\ screen \in [DOMAIN screen -> Text]
  /\ dirty \in BOOLEAN /\ foreign \in BOOLEAN
  /\ source = source_get(document)
  /\ ScreenShowsDocument

\* The inductive invariant of the editor.
TodoInv ==
  /\ EditorOK
  /\ \A id \in composing : composing = {id}
  /\ edits \in 0 .. todoBound.edits

LEMMA InvariantGives ==
  ASSUME TodoInv
  PROVE  TodoTypeOK /\ SourceIsDocument /\ ScreenShowsDocument
<1>1. TodoTypeOK
  BY DEF TodoInv, EditorOK, RowsOK, TodoRow, WellFormed, TodoTypeOK, Ids, TodoBlock
<1>2. SourceIsDocument
  BY ReadIsWritten DEF TodoInv, EditorOK, SourceIsDocument
<1> QED BY <1>1, <1>2 DEF TodoInv, EditorOK

LEMMA CasesAre ==
  ASSUME NEW case \in TodoCases
  PROVE  /\ case.source \in Text /\ case.imports \subseteq Text /\ case.pastes \subseteq Text
         /\ case.chars \subseteq Chars /\ case.edits \in Nat
BY TodoAssumption

LEMMA TodoStarts == TodoInit => TodoInv
<1> SUFFICES ASSUME TodoInit PROVE TodoInv
  OBVIOUS
<1>1. /\ todoBound \in TodoCases /\ source = todoBound.source /\ document = source_parse(source)
      /\ dirty = FALSE /\ screen = Drawn(document) /\ composing = {} /\ edits = 0 /\ sent = source
      /\ foreign = FALSE /\ marks = Marks(document) /\ unheeded = {}
  BY DEF TodoInit
<1>2. source \in Text /\ todoBound.edits \in Nat
  BY <1>1, CasesAre
<1>3. WellFormed(document) /\ source_get(document) = source
  BY <1>1, <1>2, ReadIsWritten
<1>4. DOMAIN screen \subseteq Ids(document) /\ screen \in [DOMAIN screen -> Text]
  BY <1>1, <1>3, DrawnIs
<1>7. DOMAIN screen = Ids(document) /\ marks \in [Ids(document) -> TodoRow]
      /\ Clicked(marks, unheeded) = marks
  BY <1>1, <1>3, DrawnIs, MarksAre, NoneClicked
<1>5. EditorOK
  BY <1>1, <1>2, <1>3, <1>4, <1>7 DEF EditorOK, RowsOK, ScreenShowsDocument
<1>6. edits \in 0 .. todoBound.edits
  BY <1>1, <1>2
<1> QED BY <1>1, <1>5, <1>6 DEF TodoInv

-----------------------------------------------------------------------------
(* The length of what a document is written as. *)

LEMMA JoinedBytes ==
  ASSUME NEW lines \in Seq(Text), lines # << >>
  PROVE  \E c \in [1 .. Len(lines) -> Nat] :
           /\ Bytes(Joined(lines)) = c[Len(lines)]
           /\ c[1] = Bytes(lines[1])
           /\ \A i \in 2 .. Len(lines) : c[i] = c[i - 1] + (Bytes(<<NL>>) + Bytes(lines[i]))
<1> DEFINE n == Len(lines)
<1>1. n \in Nat \ {0} /\ \A i \in 1 .. n : lines[i] \in Text
  BY EmptySeq, ElementOfSeq
<1>2. PICK f \in [1 .. n -> Text] :
         /\ Joined(lines) = f[n]
         /\ f[1] = lines[1]
         /\ \A i \in 2 .. n : f[i] = f[i - 1] \o (<<NL>> \o lines[i])
  BY JoinedIs
<1> DEFINE c == [i \in 1 .. n |-> Bytes(f[i])]
<1> HIDE DEF n
<1>3. c \in [1 .. n -> Nat]
  BY <1>2, BytesAre
<1>4. 1 \in 1 .. n /\ n \in 1 .. n
  BY <1>1
<1>5. Bytes(Joined(lines)) = c[n] /\ c[1] = Bytes(lines[1])
  BY <1>2, <1>4
<1>6. ASSUME NEW i \in 2 .. n PROVE c[i] = c[i - 1] + (Bytes(<<NL>>) + Bytes(lines[i]))
  <2>1. i \in 1 .. n /\ i - 1 \in 1 .. n
    BY <1>1
  <2>2. f[i - 1] \in Text /\ lines[i] \in Text /\ <<NL>> \in Text
    BY <1>1, <1>2, <2>1, BreakIsText
  <2>3. <<NL>> \o lines[i] \in Text /\ Bytes(<<NL>> \o lines[i]) = Bytes(<<NL>>) + Bytes(lines[i])
    BY <2>2, BytesAdd
  <2> DEFINE line == <<NL>> \o lines[i]
  <2>4. line \in Text /\ f[i] = f[i - 1] \o line
    BY <1>2, <2>3
  <2> HIDE DEF line
  <2>5. Bytes(f[i]) = Bytes(f[i - 1]) + Bytes(line)
    BY <2>2, <2>4, BytesAdd
  <2>6. c[i] = Bytes(f[i]) /\ c[i - 1] = Bytes(f[i - 1])
    BY <2>1
  <2> QED BY <2>3, <2>5, <2>6 DEF line
<1> HIDE DEF c
<1> QED BY <1>3, <1>5, <1>6 DEF n

\* The lengths a of n lines, and the sums c of the first ones with the breaks between.
Sums(c, a, n, nl) ==
  /\ a \in [1 .. n -> Nat] /\ c \in [1 .. n -> Nat] /\ c[1] = a[1]
  /\ \A k \in 2 .. n : c[k] = c[k - 1] + (nl + a[k])

SumsBalance(c, a, e, b, n, i) == e[n] + a[i] = c[n] + b[i]

\* Sums of lengths that differ at one place.
LEMMA SumsDiffer ==
  ASSUME NEW n \in Nat, NEW nl \in Nat, NEW i \in 1 .. n, NEW a, NEW b, NEW c, NEW e,
         Sums(c, a, n, nl), Sums(e, b, n, nl), b = [a EXCEPT ![i] = b[i]]
  PROVE  SumsBalance(c, a, e, b, n, i)
<1> USE DEF Sums, SumsBalance
<1> DEFINE Even(k) == e[k] + (IF k < i THEN 0 ELSE a[i]) = c[k] + (IF k < i THEN 0 ELSE b[i])
           Bad == {k \in 1 .. n : ~Even(k)}
<1>1. Bad = {}
  <2> SUFFICES ASSUME Bad # {} PROVE FALSE
    OBVIOUS
  <2>1. PICK m \in Bad : \A k \in Bad : m <= k
    <3>1. Bad \subseteq Nat
      OBVIOUS
    <3> HIDE DEF Bad
    <3> QED BY <3>1, NatHasLeast
  <2>2. m \in 1 .. n /\ ~Even(m)
    OBVIOUS
  <2>3. CASE m = 1
    <3>1. e[1] = b[1] /\ c[1] = a[1] /\ a[1] \in Nat /\ b[1] \in Nat
      OBVIOUS
    <3>2. i # 1 => b[1] = a[1]
      OBVIOUS
    <3> QED BY <2>2, <2>3, <3>1, <3>2
  <2>4. CASE m # 1
    <3>1. m - 1 \in 1 .. n /\ m - 1 < m /\ m \in 2 .. n /\ m \in Nat
      BY <2>2, <2>4
    <3>2. m - 1 \notin Bad
      <4>1. ~(m <= m - 1)
        BY <3>1
      <4> HIDE DEF Bad
      <4> QED BY <2>1, <4>1
    <3>3. Even(m - 1)
      BY <3>1, <3>2
    <3>4. e[m] = e[m - 1] + (nl + b[m]) /\ c[m] = c[m - 1] + (nl + a[m])
      BY <3>1
    <3>5. e[m - 1] \in Nat /\ c[m - 1] \in Nat /\ a[m] \in Nat /\ b[m] \in Nat /\ a[i] \in Nat
          /\ b[i] \in Nat /\ (m # i => b[m] = a[m])
      BY <3>1
    <3> DEFINE em == e[m]  e1 == e[m - 1]  cm == c[m]  c1 == c[m - 1]  am == a[m]  bm == b[m]
               ai == a[i]  bi == b[i]
    <3>6. m = i => am = ai /\ bm = bi
      OBVIOUS
    <3>7. /\ ~(em + (IF m < i THEN 0 ELSE ai) = cm + (IF m < i THEN 0 ELSE bi))
          /\ e1 + (IF m - 1 < i THEN 0 ELSE ai) = c1 + (IF m - 1 < i THEN 0 ELSE bi)
          /\ em = e1 + (nl + bm) /\ cm = c1 + (nl + am)
          /\ e1 \in Nat /\ c1 \in Nat /\ am \in Nat /\ bm \in Nat /\ ai \in Nat /\ bi \in Nat
          /\ (m # i => bm = am)
      BY <2>2, <3>3, <3>4, <3>5
    <3>8. m \in Nat /\ i \in Nat
      BY <3>1
    <3> HIDE DEF em, e1, cm, c1, am, bm, ai, bi, Bad, Even
    <3>9. CASE m < i
      <4>1. m - 1 < i
        BY <3>8, <3>9
      <4> QED BY <3>7, <3>8, <3>9, <4>1
    <3>10. CASE m = i
      <4>1. m - 1 < i /\ ~(m < i)
        BY <3>8, <3>10
      <4> QED BY <3>6, <3>7, <3>10, <4>1
    <3>11. CASE m > i
      <4>1. ~(m - 1 < i) /\ ~(m < i)
        BY <3>8, <3>11
      <4> QED BY <3>7, <3>8, <3>11, <4>1
    <3> QED BY <3>8, <3>9, <3>10, <3>11
  <2> QED BY <2>3, <2>4
<1>2. n \in Nat /\ i \in Nat /\ ~(n < i) /\ n \in 1 .. n
  OBVIOUS
<1>3. Even(n)
  BY <1>1, <1>2
<1> QED BY <1>2, <1>3

\* Sums of lengths of which two are one that is not greater.
LEMMA SumsMerged ==
  ASSUME NEW n \in Nat, NEW nl \in Nat, NEW i \in 2 .. n,
         NEW a \in [1 .. n -> Nat], NEW b \in [1 .. n - 1 -> Nat],
         \A k \in 1 .. i - 2 : b[k] = a[k],
         \A k \in i .. n - 1 : b[k] = a[k + 1],
         b[i - 1] <= a[i - 1] + a[i],
         NEW c \in [1 .. n -> Nat], c[1] = a[1], \A k \in 2 .. n : c[k] = c[k - 1] + (nl + a[k]),
         NEW e \in [1 .. n - 1 -> Nat], e[1] = b[1], \A k \in 2 .. n - 1 : e[k] = e[k - 1] + (nl + b[k])
  PROVE  e[n - 1] <= c[n]
<1> DEFINE with(k) == IF k < i - 1 THEN k ELSE k + 1
           Bad == {k \in 1 .. n - 1 : ~(e[k] <= c[with(k)])}
<1>1. Bad = {}
  <2> SUFFICES ASSUME Bad # {} PROVE FALSE
    OBVIOUS
  <2>1. PICK m \in Bad : \A k \in Bad : m <= k
    <3>1. Bad \subseteq Nat
      OBVIOUS
    <3> HIDE DEF Bad
    <3> QED BY <3>1, NatHasLeast
  <2>2. m \in 1 .. n - 1 /\ ~(e[m] <= c[with(m)])
    OBVIOUS
  <2>3. m \in Nat /\ i \in Nat /\ m >= 1 /\ m + 1 \in 2 .. n /\ m \in 1 .. n
    BY <2>2
  <2>4. m # 1 => m - 1 \in 1 .. n - 1 /\ m \in 2 .. n - 1 /\ m \in 2 .. n /\ e[m - 1] <= c[with(m - 1)]
    <3>1. CASE m # 1
      <4>1. m - 1 \in 1 .. n - 1 /\ m \in 2 .. n - 1 /\ m \in 2 .. n /\ ~(m <= m - 1)
        BY <2>2, <3>1
      <4>2. m - 1 \notin Bad
        <5> HIDE DEF Bad
        <5> QED BY <2>1, <4>1
      <4> QED BY <4>1, <4>2
    <3> QED BY <3>1
  <2> DEFINE em == e[m]  e1 == e[m - 1]  cm == c[m]  c1 == c[m - 1]  cp == c[m + 1]
             am == a[m]  ap == a[m + 1]  bm == b[m]
  <2>5. /\ cp = cm + (nl + ap) /\ em \in Nat /\ cm \in Nat /\ cp \in Nat
        /\ am \in Nat /\ ap \in Nat /\ bm \in Nat
    <3>1. c[m + 1] = c[(m + 1) - 1] + (nl + a[m + 1])
      BY <2>3
    <3>2. (m + 1) - 1 = m /\ m + 1 \in 1 .. n
      BY <2>3
    <3> QED BY <2>2, <2>3, <3>1, <3>2
  <2>6. m # 1 => cm = c1 + (nl + am) /\ em = e1 + (nl + bm) /\ e1 \in Nat /\ c1 \in Nat
    <3>1. CASE m # 1
      <4>1. m - 1 \in 1 .. n - 1 /\ m - 1 \in 1 .. n /\ m \in 2 .. n - 1 /\ m \in 2 .. n
        BY <2>3, <2>4, <3>1
      <4>2. cm = c1 + (nl + am) /\ em = e1 + (nl + bm)
        BY <4>1
      <4> QED BY <4>1, <4>2
    <3> QED BY <3>1
  <2>7. m = 1 => cm = am /\ em = bm
    OBVIOUS
  <2>8. CASE m < i - 1
    <3>1. m \in 1 .. i - 2 /\ with(m) = m /\ with(m - 1) = m - 1
      BY <2>3, <2>8
    <3>2. bm = am /\ ~(em <= cm) /\ (m # 1 => e1 <= c1)
      BY <2>2, <2>4, <3>1
    <3> HIDE DEF em, e1, cm, c1, cp, am, ap, bm, Bad, with
    <3>3. CASE m = 1
      BY <2>5, <2>7, <3>2, <3>3
    <3>4. CASE m # 1
      BY <2>5, <2>6, <3>2, <3>4
    <3> QED BY <3>3, <3>4
  <2>9. CASE m = i - 1
    <3>1. with(m) = m + 1 /\ m + 1 = i /\ with(m - 1) = m - 1
      BY <2>3, <2>9
    <3>2. bm <= am + ap /\ ~(em <= cp) /\ (m # 1 => e1 <= c1)
      BY <2>2, <2>4, <2>9, <3>1
    <3> HIDE DEF em, e1, cm, c1, cp, am, ap, bm, Bad, with
    <3>3. CASE m = 1
      BY <2>5, <2>7, <3>2, <3>3
    <3>4. CASE m # 1
      <4>1. nl \in Nat /\ cm = c1 + (nl + am) /\ em = e1 + (nl + bm) /\ e1 <= c1 /\ c1 \in Nat /\ e1 \in Nat
        BY <2>6, <3>2, <3>4
      <4>2. em <= cp
        BY <2>5, <3>2, <4>1
      <4> QED BY <3>2, <4>2
    <3> QED BY <3>3, <3>4
  <2>10. CASE m > i - 1
    <3>1. with(m) = m + 1 /\ with(m - 1) = m /\ m # 1 /\ m \in i .. n - 1
      BY <2>2, <2>3, <2>10
    <3>2. bm = ap /\ ~(em <= cp) /\ e1 <= cm
      BY <2>2, <2>4, <3>1
    <3> HIDE DEF em, e1, cm, c1, cp, am, ap, bm, Bad, with
    <3> QED BY <2>5, <2>6, <3>1, <3>2
  <2> QED BY <2>3, <2>8, <2>9, <2>10
<1>2. n - 1 \in 1 .. n - 1 /\ with(n - 1) = n
  OBVIOUS
<1> HIDE DEF with
<1>3. e[n - 1] <= c[with(n - 1)]
  BY <1>1, <1>2
<1> QED BY <1>2, <1>3

LEMMA LengthsAre ==
  ASSUME NEW lines \in Seq(Text), lines # << >>
  PROVE  \E a, c \in [1 .. Len(lines) -> Nat] :
           /\ \A k \in 1 .. Len(lines) : a[k] = Bytes(lines[k])
           /\ Bytes(Joined(lines)) = c[Len(lines)] /\ c[1] = a[1]
           /\ \A k \in 2 .. Len(lines) : c[k] = c[k - 1] + (Bytes(<<NL>>) + a[k])
<1> DEFINE n == Len(lines)
           a == [k \in 1 .. n |-> Bytes(lines[k])]
<1>1. n \in Nat \ {0} /\ \A k \in 1 .. n : lines[k] \in Text
  BY EmptySeq, ElementOfSeq
<1>2. PICK c \in [1 .. n -> Nat] :
         /\ Bytes(Joined(lines)) = c[n] /\ c[1] = Bytes(lines[1])
         /\ \A k \in 2 .. n : c[k] = c[k - 1] + (Bytes(<<NL>>) + Bytes(lines[k]))
  BY JoinedBytes
<1> HIDE DEF n
<1>3. a \in [1 .. n -> Nat] /\ \A k \in 1 .. n : a[k] = Bytes(lines[k])
  BY <1>1, BytesAre
<1>4. 1 \in 1 .. n /\ \A k \in 2 .. n : k \in 1 .. n
  BY <1>1
<1> HIDE DEF a
<1>5. c[1] = a[1] /\ \A k \in 2 .. n : c[k] = c[k - 1] + (Bytes(<<NL>>) + a[k])
  BY <1>2, <1>3, <1>4
<1> QED BY <1>2, <1>3, <1>5 DEF n

\* One line is another one.
LEMMA ChangedBytes ==
  ASSUME NEW lines \in Seq(Text), lines # << >>, NEW other \in Seq(Text), Len(other) = Len(lines),
         NEW i \in 1 .. Len(lines), \A k \in 1 .. Len(lines) : k # i => other[k] = lines[k]
  PROVE  Bytes(Joined(other)) + Bytes(lines[i]) = Bytes(Joined(lines)) + Bytes(other[i])
<1> DEFINE n == Len(lines)
           nl == Bytes(<<NL>>)
<1>1. n \in Nat \ {0} /\ nl \in Nat /\ other # << >>
  <2>1. n \in Nat \ {0}
    BY EmptySeq
  <2>2. nl \in Nat
    BY BreakIsText, BytesAre
  <2> QED BY <2>1, <2>2, EmptySeq
<1>2. PICK a, c \in [1 .. n -> Nat] :
         /\ \A k \in 1 .. n : a[k] = Bytes(lines[k])
         /\ Bytes(Joined(lines)) = c[n] /\ c[1] = a[1]
         /\ \A k \in 2 .. n : c[k] = c[k - 1] + (nl + a[k])
  BY LengthsAre
<1>0. PICK b, e \in [1 .. Len(other) -> Nat] :
         /\ \A k \in 1 .. Len(other) : b[k] = Bytes(other[k])
         /\ Bytes(Joined(other)) = e[Len(other)] /\ e[1] = b[1]
         /\ \A k \in 2 .. Len(other) : e[k] = e[k - 1] + (nl + b[k])
  BY <1>1, LengthsAre
<1>3. /\ b \in [1 .. n -> Nat] /\ e \in [1 .. n -> Nat]
      /\ \A k \in 1 .. n : b[k] = Bytes(other[k])
      /\ Bytes(Joined(other)) = e[n] /\ e[1] = b[1]
      /\ \A k \in 2 .. n : e[k] = e[k - 1] + (nl + b[k])
  BY <1>0
<1>4. \A k \in 1 .. n : k # i => b[k] = a[k]
  BY <1>2, <1>3
<1>5. i \in 1 .. n
  OBVIOUS
<1> HIDE DEF n, nl
<1>6. e[n] + a[i] = c[n] + b[i]
  <2>1. n \in Nat
    BY <1>1
  <2>2. Sums(c, a, n, nl) /\ Sums(e, b, n, nl)
    BY <1>2, <1>3 DEF Sums
  <2>3. b = [a EXCEPT ![i] = b[i]]
    BY <1>4, <2>2 DEF Sums
  <2>4. SumsBalance(c, a, e, b, n, i)
    BY <1>1, <1>5, <2>1, <2>2, <2>3, SumsDiffer
  <2> QED BY <2>4 DEF SumsBalance
<1> QED BY <1>2, <1>3, <1>5, <1>6

\* Two lines are one, of no more bytes.
LEMMA MergedBytes ==
  ASSUME NEW lines \in Seq(Text), NEW i \in 2 .. Len(lines), NEW other \in Seq(Text),
         Len(other) = Len(lines) - 1,
         \A k \in 1 .. i - 2 : other[k] = lines[k],
         \A k \in i .. Len(lines) - 1 : other[k] = lines[k + 1],
         Bytes(other[i - 1]) <= Bytes(lines[i - 1]) + Bytes(lines[i])
  PROVE  Bytes(Joined(other)) <= Bytes(Joined(lines))
<1> DEFINE n == Len(lines)
           nl == Bytes(<<NL>>)
<1>1. n \in Nat /\ n >= 2 /\ i \in 2 .. n /\ nl \in Nat /\ lines # << >> /\ other # << >>
  <2>1. n \in Nat /\ n >= 2 /\ i \in 2 .. n
    BY LenProperties
  <2>2. nl \in Nat
    BY BreakIsText, BytesAre
  <2>3. Len(<< >>) = 0
    OBVIOUS
  <2>4. lines # << >> /\ other # << >>
    BY <2>1, <2>3
  <2> QED BY <2>1, <2>2, <2>4
<1>2. PICK a, c \in [1 .. n -> Nat] :
         /\ \A k \in 1 .. n : a[k] = Bytes(lines[k])
         /\ Bytes(Joined(lines)) = c[n] /\ c[1] = a[1]
         /\ \A k \in 2 .. n : c[k] = c[k - 1] + (nl + a[k])
  BY <1>1, LengthsAre
<1>0. PICK b, e \in [1 .. Len(other) -> Nat] :
         /\ \A k \in 1 .. Len(other) : b[k] = Bytes(other[k])
         /\ Bytes(Joined(other)) = e[Len(other)] /\ e[1] = b[1]
         /\ \A k \in 2 .. Len(other) : e[k] = e[k - 1] + (nl + b[k])
  BY <1>1, LengthsAre
<1>3. /\ b \in [1 .. n - 1 -> Nat] /\ e \in [1 .. n - 1 -> Nat]
      /\ \A k \in 1 .. n - 1 : b[k] = Bytes(other[k])
      /\ Bytes(Joined(other)) = e[n - 1] /\ e[1] = b[1]
      /\ \A k \in 2 .. n - 1 : e[k] = e[k - 1] + (nl + b[k])
  BY <1>0
<1>4. /\ \A k \in 1 .. i - 2 : other[k] = lines[k]
      /\ \A k \in i .. n - 1 : other[k] = lines[k + 1]
      /\ Bytes(other[i - 1]) <= Bytes(lines[i - 1]) + Bytes(lines[i])
  OBVIOUS
<1> HIDE DEF n, nl
<1>5. /\ \A k \in 1 .. i - 2 : b[k] = a[k]
      /\ \A k \in i .. n - 1 : b[k] = a[k + 1]
      /\ b[i - 1] <= a[i - 1] + a[i]
  <2>1. ASSUME NEW k \in 1 .. i - 2 PROVE b[k] = a[k]
    <3>1. k \in 1 .. n /\ k \in 1 .. n - 1
      BY <1>1
    <3> QED BY <1>2, <1>3, <1>4, <3>1
  <2>2. ASSUME NEW k \in i .. n - 1 PROVE b[k] = a[k + 1]
    <3>1. k + 1 \in 1 .. n /\ k \in 1 .. n - 1
      BY <1>1
    <3> QED BY <1>2, <1>3, <1>4, <3>1
  <2>3. i - 1 \in 1 .. n - 1 /\ i - 1 \in 1 .. n /\ i \in 1 .. n
    BY <1>1
  <2> QED BY <1>2, <1>3, <1>4, <2>1, <2>2, <2>3
<1>6. e[n - 1] <= c[n]
  BY <1>1, <1>2, <1>3, <1>5, SumsMerged
<1> QED BY <1>2, <1>3, <1>6

-----------------------------------------------------------------------------
(* The length of a document and the limit of an edit. *)

Size(d) == Bytes(source_get(d))
Limit(content) == IF Bytes(content) > MaxLength THEN Bytes(content) ELSE MaxLength

LEMMA SizeIs ==
  ASSUME NEW d, WellFormed(d)
  PROVE  Size(d) \in Nat
BY WrittenIsText, BytesAre DEF Size

LEMMA LimitIs ==
  ASSUME NEW content \in Text
  PROVE  Limit(content) \in Nat /\ MaxLength \in Nat /\ MaxLength <= Limit(content) /\ Bytes(content) <= Limit(content)
<1>1. MaxLength \in Nat
  BY TodoAssumption
<1>2. Bytes(content) \in Nat
  BY BytesAre
<1> QED BY <1>1, <1>2 DEF Limit

\* A block is another one.
LEMMA WithBytes ==
  ASSUME NEW d, WellFormed(d), NEW i \in 1 .. Len(d.blocks),
         NEW block \in TodoBlock, block.id = d.blocks[i].id
  PROVE  Size(With(d, i, block)) + Bytes(Out(d)[i]) = Size(d) + Bytes(Prefix(block.kind) \o block.text)
<1> DEFINE e == With(d, i, block)
<1>1. /\ WellFormed(e) /\ Len(e.blocks) = Len(d.blocks)
      /\ \A k \in 1 .. Len(d.blocks) : e.blocks[k] = IF k = i THEN block ELSE d.blocks[k]
  BY WithIs
<1> HIDE DEF e
<1> DEFINE lines == Out(d)  other == Out(e)
<1>2. /\ lines \in Seq(Text) /\ lines # << >> /\ Len(lines) = Len(d.blocks)
      /\ \A k \in 1 .. Len(d.blocks) : lines[k] = Prefix(d.blocks[k].kind) \o d.blocks[k].text
      /\ source_get(d) = Joined(lines)
  BY OutIs
<1>3. /\ other \in Seq(Text) /\ Len(other) = Len(d.blocks)
      /\ \A k \in 1 .. Len(d.blocks) : other[k] = Prefix(e.blocks[k].kind) \o e.blocks[k].text
      /\ source_get(e) = Joined(other)
  BY <1>1, OutIs
<1> HIDE DEF lines, other
<1>4. i \in 1 .. Len(lines) /\ Len(other) = Len(lines)
  BY <1>2, <1>3
<1>5. \A k \in 1 .. Len(lines) : k # i => other[k] = lines[k]
  BY <1>1, <1>2, <1>3
<1>6. other[i] = Prefix(block.kind) \o block.text
  BY <1>1, <1>3
<1>7. Bytes(Joined(other)) + Bytes(lines[i]) = Bytes(Joined(lines)) + Bytes(other[i])
  BY <1>2, <1>3, <1>4, <1>5, ChangedBytes
<1> QED BY <1>2, <1>3, <1>6, <1>7 DEF e, lines, Size

\* The text of a block is another one.
LEMMA RetextBytes ==
  ASSUME NEW d, WellFormed(d), NEW id \in Ids(d), NEW text \in Text
  PROVE  Size(Retext(d, id, text)) + Bytes(BlockOf(d, id).text) = Size(d) + Bytes(text)
<1> DEFINE i == PositionOf(d, id)
           block == [d.blocks[i] EXCEPT !.text = text]
           e == Retext(d, id, text)
           old == BlockOf(d, id)
<1>1. /\ e = With(d, i, block) /\ block \in TodoBlock /\ block.id = d.blocks[i].id
      /\ block.kind = d.blocks[i].kind /\ block.text = text
  BY RetextIs
<1>2. i \in 1 .. Len(d.blocks) /\ old = d.blocks[i] /\ old.kind \in Kinds /\ old.text \in Text
  BY Placed
<1>3. WellFormed(e)
  BY RetextKeeps
<1> HIDE DEF i, block, e, old
<1> DEFINE prefix == Prefix(old.kind)
<1>4. prefix \in Text
  BY <1>2, PrefixIsText
<1> HIDE DEF prefix
<1>5. Size(e) + Bytes(Out(d)[i]) = Size(d) + Bytes(prefix \o text)
  BY <1>1, <1>2, WithBytes DEF prefix
<1>6. Out(d)[i] = prefix \o old.text
  BY <1>2, OutIs DEF prefix
<1>7. Bytes(prefix \o text) = Bytes(prefix) + Bytes(text)
  BY <1>4, BytesAdd
<1>8. Bytes(prefix \o old.text) = Bytes(prefix) + Bytes(old.text)
  BY <1>2, <1>4, BytesAdd
<1>9. /\ Size(e) \in Nat /\ Size(d) \in Nat /\ Bytes(prefix) \in Nat /\ Bytes(text) \in Nat
      /\ Bytes(old.text) \in Nat
  BY <1>2, <1>3, <1>4, SizeIs, BytesAre
<1>10. Size(e) + Bytes(old.text) = Size(d) + Bytes(text)
  BY <1>5, <1>6, <1>7, <1>8, <1>9
<1> QED BY <1>10 DEF e, old

\* The kind of a block is another one.
LEMMA RekindBytes ==
  ASSUME NEW d, WellFormed(d), NEW id \in Ids(d), NEW kind \in Kinds
  PROVE  Size(Rekind(d, id, kind)) + Bytes(Prefix(BlockOf(d, id).kind)) = Size(d) + Bytes(Prefix(kind))
<1> DEFINE i == PositionOf(d, id)
           block == [d.blocks[i] EXCEPT !.kind = kind]
           e == Rekind(d, id, kind)
           old == BlockOf(d, id)
<1>1. /\ e = With(d, i, block) /\ block \in TodoBlock /\ block.id = d.blocks[i].id
      /\ block.kind = kind /\ block.text = d.blocks[i].text
  BY RekindIs
<1>2. i \in 1 .. Len(d.blocks) /\ old = d.blocks[i] /\ old.kind \in Kinds /\ old.text \in Text
  BY Placed
<1>3. WellFormed(e)
  BY RekindKeeps
<1> HIDE DEF i, block, e, old
<1> DEFINE before == Prefix(old.kind)  after == Prefix(kind)
<1>4. before \in Text /\ after \in Text
  BY <1>2, PrefixIsText
<1> HIDE DEF before, after
<1>5. Size(e) + Bytes(Out(d)[i]) = Size(d) + Bytes(after \o old.text)
  BY <1>1, <1>2, WithBytes DEF after
<1>6. Out(d)[i] = before \o old.text
  BY <1>2, OutIs DEF before
<1>7. Bytes(after \o old.text) = Bytes(after) + Bytes(old.text)
  BY <1>2, <1>4, BytesAdd
<1>8. Bytes(before \o old.text) = Bytes(before) + Bytes(old.text)
  BY <1>2, <1>4, BytesAdd
<1>9. /\ Size(e) \in Nat /\ Size(d) \in Nat /\ Bytes(before) \in Nat /\ Bytes(after) \in Nat
      /\ Bytes(old.text) \in Nat
  BY <1>2, <1>3, <1>4, SizeIs, BytesAre
<1>10. Size(e) + (Bytes(before) + Bytes(old.text)) = Size(d) + (Bytes(after) + Bytes(old.text))
  BY <1>5, <1>6, <1>7, <1>8
<1>11. Size(e) + Bytes(before) = Size(d) + Bytes(after)
  BY <1>9, <1>10
<1> QED BY <1>11 DEF e, old, before, after

\* A block without its marker.
LEMMA PlainBytes ==
  ASSUME NEW d, WellFormed(d), NEW id \in Ids(d)
  PROVE  Size(Rekind(d, id, "paragraph")) <= Size(d)
<1> DEFINE e == Rekind(d, id, "paragraph")  before == Prefix(BlockOf(d, id).kind)
<1>1. "paragraph" \in Kinds
  BY DEF Kinds
<1>2. Size(e) + Bytes(before) = Size(d) + Bytes(Prefix("paragraph"))
  BY <1>1, RekindBytes
<1>3. Bytes(Prefix("paragraph")) = 0
  BY EmptyBytes DEF Prefix
<1>4. before \in Text
  BY Placed, PrefixIsText
<1>5. WellFormed(e)
  BY <1>1, RekindKeeps
<1> HIDE DEF e, before
<1>6. Size(e) \in Nat /\ Size(d) \in Nat /\ Bytes(before) \in Nat
  BY <1>4, <1>5, SizeIs, BytesAre
<1>7. Size(e) <= Size(d)
  BY <1>2, <1>3, <1>6
<1> QED BY <1>7 DEF e

\* The start of a text becomes the marker of its block.
LEMMA ShortcutBytes ==
  ASSUME NEW d, WellFormed(d), NEW id \in Ids(d), NEW end \in 0 .. Len(BlockOf(d, id).text),
         block_shortcut_apply(d, id, BlockOf(d, id).text, end, TRUE) # Refused
  PROVE  Size(block_shortcut_apply(d, id, BlockOf(d, id).text, end, TRUE)) <= Size(d)
<1> DEFINE text == BlockOf(d, id).text
           marker == Before(text, end)
           rest == After(text, end)
           kinds == {kind \in Kinds \ {"paragraph"} : marker = Prefix(kind)}
           kind == CHOOSE kind \in kinds : TRUE
           e == Retext(d, id, rest)
           r == Rekind(e, id, kind)
           s == block_shortcut_apply(d, id, text, end, TRUE)
<1>1. text \in Text /\ BlockOf(d, id).kind \in Kinds
  BY Placed
<1>2. marker \o << >> = marker
  <2>1. marker \in Seq(Chars)
    BY <1>1, BeforeAfter DEF Text
  <2> QED BY <2>1, ConcatEmptySeq
<1>3. s = IF kinds = {} THEN Refused ELSE r
  <2> HIDE DEF text
  <2> QED BY <1>2 DEF block_shortcut_apply
<1>4. kinds # {}
  BY <1>3
<1>5. kind \in kinds
  BY <1>4
<1> HIDE DEF s, text, kind
<1>6. kind \in Kinds /\ marker = Prefix(kind)
  BY <1>5
<1>7. marker \in Text /\ rest \in Text /\ marker \o rest = text /\ end \in 0 .. Len(text)
  <2>1. end \in 0 .. Len(text)
    BY DEF text
  <2> QED BY <1>1, <2>1, BeforeAfter DEF Text
<1> HIDE DEF kinds, rest, marker
<1>8. WellFormed(e) /\ Ids(e) = Ids(d)
  BY <1>7, RetextKeeps
<1>9. WellFormed(r)
  BY <1>6, <1>8, RekindKeeps
<1>10. BlockOf(e, id).kind \in Kinds
  BY <1>8, Placed
<1>11. Size(e) + Bytes(text) = Size(d) + Bytes(rest)
  BY <1>7, RetextBytes DEF text
<1> HIDE DEF e
<1>12. Size(r) + Bytes(Prefix(BlockOf(e, id).kind)) = Size(e) + Bytes(marker)
  BY <1>6, <1>8, RekindBytes
<1>13. Bytes(text) = Bytes(marker) + Bytes(rest)
  BY <1>7, BytesAdd
<1> DEFINE before == Prefix(BlockOf(e, id).kind)
<1>14. before \in Text
  BY <1>10, PrefixIsText
<1> HIDE DEF r, before
<1>15. /\ Size(r) \in Nat /\ Size(e) \in Nat /\ Size(d) \in Nat /\ Bytes(before) \in Nat
       /\ Bytes(marker) \in Nat /\ Bytes(rest) \in Nat
  BY <1>7, <1>8, <1>9, <1>14, SizeIs, BytesAre
<1>16. Size(r) <= Size(d)
  BY <1>11, <1>12, <1>13, <1>15 DEF before
<1> QED BY <1>3, <1>4, <1>16 DEF s, text

\* Two blocks are one.
LEMMA MergeBytes ==
  ASSUME NEW d, WellFormed(d), NEW i \in 2 .. Len(d.blocks)
  PROVE  Size(MergedIntoPrevious(d, i)) <= Size(d)
<1> DEFINE m == MergedIntoPrevious(d, i)  lines == Out(d)  other == Out(m)  n == Len(d.blocks)
<1>1. /\ WellFormed(m) /\ Len(m.blocks) = n - 1
      /\ \A k \in 1 .. i - 2 : m.blocks[k] = d.blocks[k]
      /\ m.blocks[i - 1].kind = d.blocks[i - 1].kind
      /\ m.blocks[i - 1].text = d.blocks[i - 1].text \o d.blocks[i].text
      /\ \A k \in i .. n - 1 : m.blocks[k] = d.blocks[k + 1]
  BY MergeIs
<1> HIDE DEF m
<1>2. /\ lines \in Seq(Text) /\ Len(lines) = n /\ source_get(d) = Joined(lines)
      /\ \A k \in 1 .. n : lines[k] = Prefix(d.blocks[k].kind) \o d.blocks[k].text
  BY OutIs
<1>3. /\ other \in Seq(Text) /\ Len(other) = n - 1 /\ source_get(m) = Joined(other)
      /\ \A k \in 1 .. n - 1 : other[k] = Prefix(m.blocks[k].kind) \o m.blocks[k].text
  BY <1>1, OutIs
<1>4. /\ n \in Nat /\ \A k \in 1 .. n : d.blocks[k].kind \in Kinds /\ d.blocks[k].text \in Text
  BY PartsOf
<1> HIDE DEF lines, other, n
<1>5. i \in 2 .. n
  BY DEF n
<1>6. /\ \A k \in 1 .. i - 2 : k \in 1 .. n /\ k \in 1 .. n - 1
      /\ \A k \in i .. n - 1 : k + 1 \in 1 .. n /\ k \in 1 .. n - 1
      /\ i - 1 \in 1 .. n /\ i - 1 \in 1 .. n - 1 /\ i \in 1 .. n
  BY <1>4, <1>5
<1>7. ASSUME NEW k \in 1 .. i - 2 PROVE other[k] = lines[k]
  <2>1. k \in 1 .. n /\ k \in 1 .. n - 1 /\ m.blocks[k] = d.blocks[k]
    BY <1>1, <1>6
  <2> QED BY <1>2, <1>3, <2>1
<1>8. ASSUME NEW k \in i .. n - 1 PROVE other[k] = lines[k + 1]
  <2>1. k + 1 \in 1 .. n /\ k \in 1 .. n - 1 /\ m.blocks[k] = d.blocks[k + 1]
    BY <1>1, <1>6
  <2>2. other[k] = Prefix(m.blocks[k].kind) \o m.blocks[k].text
    BY <1>3, <2>1
  <2>3. lines[k + 1] = Prefix(d.blocks[k + 1].kind) \o d.blocks[k + 1].text
    BY <1>2, <2>1
  <2> QED BY <2>1, <2>2, <2>3
<1>9. Bytes(other[i - 1]) <= Bytes(lines[i - 1]) + Bytes(lines[i])
  <2> DEFINE p == Prefix(d.blocks[i - 1].kind)  t == d.blocks[i - 1].text
             q == Prefix(d.blocks[i].kind)  u == d.blocks[i].text
  <2>1. p \in Text /\ t \in Text /\ q \in Text /\ u \in Text
    BY <1>4, <1>6, PrefixIsText
  <2>2. lines[i - 1] = p \o t /\ lines[i] = q \o u
    BY <1>2, <1>6
  <2>3. other[i - 1] = p \o (t \o u)
    BY <1>1, <1>3, <1>6
  <2> HIDE DEF p, q, t, u
  <2>4. t \o u \in Text /\ Bytes(t \o u) = Bytes(t) + Bytes(u)
    BY <2>1, BytesAdd
  <2>5. Bytes(p \o (t \o u)) = Bytes(p) + Bytes(t \o u)
    BY <2>1, <2>4, BytesAdd
  <2>6. Bytes(p \o t) = Bytes(p) + Bytes(t) /\ Bytes(q \o u) = Bytes(q) + Bytes(u)
    BY <2>1, BytesAdd
  <2>7. Bytes(p) \in Nat /\ Bytes(q) \in Nat /\ Bytes(t) \in Nat /\ Bytes(u) \in Nat
    BY <2>1, BytesAre
  <2> QED BY <2>2, <2>3, <2>4, <2>5, <2>6, <2>7
<1>10. i \in 2 .. Len(lines) /\ Len(other) = Len(lines) - 1
  BY <1>2, <1>3, <1>5
<1>11. Bytes(Joined(other)) <= Bytes(Joined(lines))
  BY <1>2, <1>3, <1>7, <1>8, <1>9, <1>10, MergedBytes
<1> QED BY <1>2, <1>3, <1>11 DEF Size, m

-----------------------------------------------------------------------------
(* The steps of the editor. *)

\* What every edit leaves: the invariant, and a source within the limit.
EditorStep ==
  EditorOK' /\ Bytes(source') <= Limit(source) /\ todoBound' = todoBound

LEMMA RebuiltKeeps ==
  ASSUME EditorOK, NEW d, WellFormed(d), Size(d) <= Limit(source), Rebuilt(d)
  PROVE  EditorStep
<1>1. /\ document' = d /\ source' = source_get(d) /\ screen' = Drawn(d) /\ foreign' = FALSE
      /\ todoBound' = todoBound /\ sent' = sent /\ dirty' = (dirty \/ source_get(d) # source)
      /\ marks' = Marks(d) /\ unheeded' = {}
  BY DEF Rebuilt, source_sync
<1>2. dirty' \in BOOLEAN
  BY <1>1 DEF EditorOK
<1>3. source_get(d) \in Text
  BY WrittenIsText
<1>4. screen' \in [Ids(d) -> Text] /\ DOMAIN screen' = Ids(d)
  BY <1>1, DrawnIs
<1>5. WellFormed(document') /\ Ids(document') = Ids(d) /\ source' = source_get(document')
      /\ screen' = Drawn(document') /\ DOMAIN screen' \subseteq Ids(document')
  BY <1>1, <1>4
<1>6. screen' \in [DOMAIN screen' -> Text] /\ source' \in Text /\ todoBound' \in TodoCases /\ sent' \in Text
  BY <1>1, <1>3, <1>4 DEF EditorOK
<1>8. RowsOK' /\ marks' = Clicked(Marks(document'), unheeded')
  <2>1. Marks(d) \in [Ids(d) -> TodoRow] /\ Clicked(Marks(d), {}) = Marks(d)
    BY MarksAre, NoneClicked
  <2> QED BY <1>1, <1>4, <2>1 DEF RowsOK
<1>7. EditorOK'
  BY <1>1, <1>2, <1>5, <1>6, <1>8 DEF EditorOK, ScreenShowsDocument
<1> QED BY <1>1, <1>7 DEF EditorStep, Size

\* An edit that fits is one of these.
LEMMA FittingKeeps ==
  ASSUME EditorOK, NEW d, Outcome(d), Fits(d), Rebuilt(d)
  PROVE  EditorStep
<1>1. WellFormed(d) /\ Size(d) <= MaxLength
  BY DEF Outcome, Fits, Size
<1>2. Size(d) <= Limit(source)
  <2>1. source \in Text
    BY DEF EditorOK
  <2>2. Size(d) \in Nat
    BY <1>1, SizeIs
  <2> QED BY <1>1, <2>1, <2>2, LimitIs
<1> QED BY <1>1, <1>2, RebuiltKeeps

LEMMA EditorIs ==
  ASSUME EditorOK
  PROVE  /\ WellFormed(document) /\ source \in Text /\ Size(document) = Bytes(source)
         /\ Size(document) <= Limit(source) /\ todoBound \in TodoCases
         /\ \A id \in DOMAIN screen : id \in Ids(document) /\ screen[id] \in Text
<1>1. /\ WellFormed(document) /\ source \in Text /\ todoBound \in TodoCases
      /\ source = source_get(document)
      /\ DOMAIN screen \subseteq Ids(document) /\ screen \in [DOMAIN screen -> Text]
  BY DEF EditorOK
<1>2. Size(document) = Bytes(source)
  BY <1>1 DEF Size
<1>3. Size(document) <= Limit(source)
  BY <1>1, <1>2, LimitIs
<1> QED BY <1>1, <1>2, <1>3

LEMMA MultilineKeeps ==
  ASSUME EditorOK, NEW id \in DOMAIN screen, NEW raw \in Text, MultilineInput(id, raw)
  PROVE  EditorStep
<1>1. id \in Ids(document) /\ WellFormed(document)
  BY EditorIs
<1>2. Lines(raw) \in Seq(Text) /\ Lines(raw) # << >>
  BY LinesAre
<1>3. PICK d : d = block_linesReplace(document, id, Lines(raw))
  OBVIOUS
<1>4. Outcome(d)
  <2> DEFINE lines == Lines(raw)
  <2> HIDE DEF lines
  <2>1. lines \in Seq(Text) /\ lines # << >>
    BY <1>2 DEF lines
  <2>2. Outcome(block_linesReplace(document, id, lines))
    BY <1>1, <2>1, LinesReplaceKeeps
  <2> QED BY <1>3, <2>2 DEF lines
<1>5. CASE Fits(d)
  <2>1. Rebuilt(d)
    BY <1>3, <1>5 DEF MultilineInput
  <2> QED BY <1>4, <1>5, <2>1, FittingKeeps
<1>6. CASE ~Fits(d)
  <2>1. /\ screen' = [screen EXCEPT ![id] = raw] /\ foreign' = TRUE
        /\ UNCHANGED <<todoBound, document, source, dirty, marks, sent, unheeded>>
    BY <1>3, <1>6 DEF MultilineInput
  <2>2. screen \in [DOMAIN screen -> Text] /\ DOMAIN screen \subseteq Ids(document)
    BY DEF EditorOK
  <2>3. DOMAIN screen' = DOMAIN screen /\ screen' \in [DOMAIN screen -> Text]
    BY <2>1, <2>2
  <2>4. DOMAIN screen' \subseteq Ids(document') /\ screen' \in [DOMAIN screen' -> Text]
    BY <2>1, <2>2, <2>3
  <2>7. RowsOK'
    BY <2>1, <2>3 DEF EditorOK, RowsOK
  <2>5. EditorOK'
    BY <2>1, <2>4, <2>7 DEF EditorOK, ScreenShowsDocument
  <2>6. Bytes(source') <= Limit(source)
    BY <2>1, EditorIs, LimitIs
  <2> QED BY <2>1, <2>5, <2>6 DEF EditorStep
<1> QED BY <1>5, <1>6

\* What is taken of a text fits, or is not longer than what was there.
LEMMA TakenIs ==
  ASSUME EditorOK, NEW id \in Ids(document), NEW raw \in Text
  PROVE  /\ Taken(id, raw) \in Text /\ WellFormed(Retext(document, id, Taken(id, raw)))
         /\ Ids(Retext(document, id, Taken(id, raw))) = Ids(document)
         /\ Size(Retext(document, id, Taken(id, raw))) <= Limit(source)
<1> DEFINE old == Bytes(BlockOf(document, id).text)
           size == Bytes(source_get(document))
           most == IF size > MaxLength THEN old ELSE MaxLength - (size - old)
           text == Taken(id, raw)
           e == Retext(document, id, text)
<1>1. /\ WellFormed(document) /\ size = Bytes(source) /\ source \in Text /\ size = Size(document)
  BY EditorIs DEF Size
<1>2. BlockOf(document, id).text \in Text
  BY <1>1, Placed
<1>3. old \in Nat /\ size \in Nat /\ MaxLength \in Nat
  BY <1>1, <1>2, BytesAre, TodoAssumption
<1>4. text = text_truncate(raw, most)
  BY DEF Taken
<1> HIDE DEF size, old
<1>5. most \in Nat
  <2>1. size <= MaxLength => old <= size
    <3>1. Size(Retext(document, id, << >>)) + old = size + 0
      BY <1>1, EmptyBytes, RetextBytes DEF old
    <3>2. Size(Retext(document, id, << >>)) \in Nat
      BY <1>1, EmptyBytes, RetextKeeps, SizeIs
    <3> QED BY <1>3, <3>1, <3>2
  <2> QED BY <1>3, <2>1
<1> HIDE DEF most
<1>6. text \in Text /\ Bytes(text) <= most
  BY <1>4, <1>5, TruncateIs
<1> HIDE DEF text
<1>7. WellFormed(e) /\ Ids(e) = Ids(document)
  BY <1>1, <1>6, RetextKeeps
<1>8. Size(e) + old = size + Bytes(text)
  BY <1>1, <1>6, RetextBytes DEF old
<1>9. Size(e) \in Nat /\ Bytes(text) \in Nat
  BY <1>6, <1>7, SizeIs, BytesAre
<1> HIDE DEF e
<1>10. Size(e) <= IF size > MaxLength THEN size ELSE MaxLength
  BY <1>3, <1>5, <1>6, <1>8, <1>9 DEF most
<1> QED BY <1>1, <1>6, <1>7, <1>10 DEF e, text, Limit

\* The text of a block as the editor takes it.
LEMMA TextInputKeeps ==
  ASSUME EditorOK, NEW id \in DOMAIN screen, NEW raw \in Text, NEW caret \in Nat,
         NEW isComposing \in BOOLEAN, NEW separator \in BOOLEAN,
         TextInput(id, raw, caret, isComposing, separator)
  PROVE  EditorStep
<1> DEFINE text == Taken(id, raw)
           typed == Retext(document, id, text)
           shortcut == IF separator /\ ~isComposing /\ caret <= Len(text)
                         THEN block_shortcut_apply(typed, id, text, caret, TRUE) ELSE Refused
           many == NL \in ToSet(raw) /\ ~isComposing
<1>1. /\ WellFormed(document) /\ source \in Text /\ id \in Ids(document)
  BY EditorIs
<1>2. text \in Text /\ WellFormed(typed) /\ Ids(typed) = Ids(document) /\ Size(typed) <= Limit(source)
  BY <1>1, TakenIs
<1>3. CASE many
  <2>1. MultilineInput(id, raw)
    BY <1>3 DEF TextInput
  <2> QED BY <2>1, MultilineKeeps
<1>4. CASE ~many /\ shortcut # Refused
  <2>1. Rebuilt(shortcut)
    BY <1>4 DEF TextInput
  <2>2. /\ shortcut = block_shortcut_apply(typed, id, text, caret, TRUE) /\ caret \in 0 .. Len(text)
    <3>1. Len(text) \in Nat
      BY <1>2, LenProperties DEF Text
    <3>2. separator /\ ~isComposing /\ caret <= Len(text)
      <4> HIDE DEF text, typed
      <4> QED BY <1>4
    <3> HIDE DEF text, typed
    <3> QED BY <3>1, <3>2
  <2>3. BlockOf(typed, id).text = text
    <3> DEFINE i == PositionOf(document, id)  block == [document.blocks[i] EXCEPT !.text = text]
    <3>1. typed = With(document, i, block) /\ block \in TodoBlock /\ block.id = document.blocks[i].id
          /\ block.text = text
      BY <1>1, <1>2, RetextIs
    <3>2. i \in 1 .. Len(document.blocks) /\ document.blocks[i].id = id
      BY <1>1, Placed
    <3> HIDE DEF i, block, typed, text
    <3>3. Len(typed.blocks) = Len(document.blocks) /\ typed.blocks[i] = block
      BY <1>1, <3>1, <3>2, WithIs
    <3>4. /\ BlockOf(typed, id) = typed.blocks[PositionOf(typed, id)]
          /\ \A k \in 1 .. Len(typed.blocks) : typed.blocks[k].id = id => k = PositionOf(typed, id)
      BY <1>1, <1>2, Placed
    <3>5. PositionOf(typed, id) = i
      BY <3>1, <3>2, <3>3, <3>4
    <3> QED BY <3>1, <3>3, <3>4, <3>5
  <2> HIDE DEF typed, text
  <2>4. Outcome(shortcut) /\ shortcut # Refused
    BY <1>1, <1>2, <1>4, <2>2, ShortcutKeeps
  <2>5. Size(shortcut) <= Size(typed)
    BY <1>1, <1>2, <1>4, <2>2, <2>3, ShortcutBytes
  <2> HIDE DEF shortcut
  <2>6. WellFormed(shortcut)
    BY <2>4 DEF Outcome
  <2>7. Size(shortcut) <= Limit(source)
    <3>1. Size(shortcut) \in Nat /\ Size(typed) \in Nat /\ Limit(source) \in Nat
      BY <1>1, <1>2, <2>6, SizeIs, LimitIs
    <3> QED BY <1>2, <2>5, <3>1
  <2>8. PICK d : d = shortcut
    OBVIOUS
  <2> QED BY <2>1, <2>6, <2>7, <2>8, RebuiltKeeps
<1>5. CASE ~many /\ ~(shortcut # Refused)
  <2>1. /\ document' = typed /\ source_sync(typed) /\ screen' = [screen EXCEPT ![id] = text]
        /\ UNCHANGED <<todoBound, marks, sent, foreign, unheeded>>
    BY <1>5 DEF TextInput
  <2>2. /\ screen \in [DOMAIN screen -> Text] /\ DOMAIN screen \subseteq Ids(document)
        /\ todoBound \in TodoCases /\ sent \in Text /\ foreign \in BOOLEAN /\ dirty \in BOOLEAN
        /\ (~foreign => screen = Drawn(document) /\ marks = Clicked(Marks(document), unheeded))
    BY DEF EditorOK, ScreenShowsDocument
  <2>3. ~foreign => screen' = Drawn(typed)
    BY <1>1, <1>2, <2>1, <2>2, DrawnRetext
  <2>9. Marks(typed) = Marks(document)
    BY <1>1, <1>2, MarksRetext
  <2> HIDE DEF text, typed, shortcut, many
  <2>4. DOMAIN screen' = DOMAIN screen /\ screen' \in [DOMAIN screen -> Text]
    BY <1>2, <2>1, <2>2
  <2>5. source' = source_get(typed) /\ dirty' \in BOOLEAN
    BY <2>1, <2>2 DEF source_sync
  <2>6. source_get(typed) \in Text
    BY <1>2, WrittenIsText
  <2>7. /\ DOMAIN screen' \subseteq Ids(document') /\ screen' \in [DOMAIN screen' -> Text]
        /\ WellFormed(document') /\ source' \in Text /\ source' = source_get(document')
        /\ (~foreign' => screen' = Drawn(document'))
    BY <1>2, <2>1, <2>2, <2>3, <2>4, <2>5, <2>6
  <2>10. ~foreign' => marks' = Clicked(Marks(document'), unheeded')
    BY <2>1, <2>2, <2>9
  <2>11. RowsOK'
    BY <2>1, <2>4 DEF EditorOK, RowsOK
  <2>8. EditorOK'
    BY <2>1, <2>2, <2>5, <2>7, <2>10, <2>11 DEF EditorOK, ScreenShowsDocument
  <2> QED BY <1>2, <2>1, <2>5, <2>8 DEF EditorStep, Size
<1> QED BY <1>3, <1>4, <1>5

\* What the browser makes of the text of a block.
LEMMA ReplacedIs ==
  ASSUME EditorOK, NEW id \in DOMAIN screen, NEW from \in 0 .. Len(screen[id]),
         NEW to \in 0 .. Len(screen[id]), NEW by \in Text
  PROVE  Replaced(id, from, to, by) \in Text
<1>1. screen[id] \in Text
  BY EditorIs
<1>2. Before(screen[id], from) \in Text /\ After(screen[id], to) \in Text
  BY <1>1, BeforeAfter DEF Text
<1>3. Before(screen[id], from) \o by \in Text
  BY <1>2, BytesAdd
<1>4. (Before(screen[id], from) \o by) \o After(screen[id], to) \in Text
  BY <1>2, <1>3, BytesAdd
<1> QED BY <1>4 DEF Replaced

LEMMA CharIs ==
  ASSUME EditorOK, NEW c \in todoBound.chars \cup {NL}
  PROVE  <<c>> \in Text
<1>1. todoBound.chars \subseteq Chars
  BY EditorIs, CasesAre
<1>2. c \in Chars
  BY <1>1, BreakIsText
<1> QED BY <1>2 DEF Text

LEMMA RangesAre ==
  ASSUME EditorOK, NEW id \in DOMAIN screen, NEW r \in Ranges(screen[id])
  PROVE  /\ r[1] \in 0 .. Len(screen[id]) /\ r[2] \in 0 .. Len(screen[id]) /\ r[1] <= r[2]
         /\ r[1] \in Nat /\ r[2] \in Nat /\ r[1] + 1 \in Nat
<1>1. Len(screen[id]) \in Nat
  BY EditorIs, LenProperties DEF Text
<1> QED BY <1>1 DEF Ranges

LEMMA TypeKeeps ==
  ASSUME EditorOK, NEW id \in DOMAIN screen, Type(id)
  PROVE  EditorStep /\ composing' = {}
<1>1. composing' = {}
  BY DEF Type, NotComposing
<1>2. PICK r \in Ranges(screen[id]) :
         \/ \E c \in todoBound.chars :
              TextInput(id, Replaced(id, r[1], r[2], <<c>>), r[1] + 1, FALSE, c = " ")
         \/ TextInput(id, Replaced(id, r[1], r[2], << >>), r[1], FALSE, FALSE)
  BY DEF Type
<1>3. /\ r[1] \in 0 .. Len(screen[id]) /\ r[2] \in 0 .. Len(screen[id])
      /\ r[1] \in Nat /\ r[1] + 1 \in Nat
  BY RangesAre
<1>4. CASE \E c \in todoBound.chars :
             TextInput(id, Replaced(id, r[1], r[2], <<c>>), r[1] + 1, FALSE, c = " ")
  <2>1. PICK c \in todoBound.chars :
          TextInput(id, Replaced(id, r[1], r[2], <<c>>), r[1] + 1, FALSE, c = " ")
    BY <1>4
  <2>2. <<c>> \in Text
    BY CharIs
  <2>3. Replaced(id, r[1], r[2], <<c>>) \in Text
    BY <1>3, <2>2, ReplacedIs
  <2>4. PICK raw, caret, s : /\ raw = Replaced(id, r[1], r[2], <<c>>) /\ caret = r[1] + 1
                             /\ s = (c = " ") /\ s \in BOOLEAN
    OBVIOUS
  <2>5. TextInput(id, raw, caret, FALSE, s)
    BY <2>1, <2>4
  <2> QED BY <1>1, <1>3, <2>3, <2>4, <2>5, TextInputKeeps
<1>5. CASE TextInput(id, Replaced(id, r[1], r[2], << >>), r[1], FALSE, FALSE)
  <2>1. Replaced(id, r[1], r[2], << >>) \in Text
    BY <1>3, EmptyBytes, ReplacedIs
  <2>2. PICK raw, caret : raw = Replaced(id, r[1], r[2], << >>) /\ caret = r[1]
    OBVIOUS
  <2>3. TextInput(id, raw, caret, FALSE, FALSE)
    BY <1>5, <2>2
  <2> QED BY <1>1, <1>3, <2>1, <2>2, <2>3, TextInputKeeps
<1> QED BY <1>2, <1>4, <1>5

LEMMA ComposeKeeps ==
  ASSUME EditorOK, NEW id \in DOMAIN screen, Compose(id)
  PROVE  EditorStep /\ composing' = {id}
<1>1. composing' = {id}
  BY DEF Compose
<1>2. PICK at \in 0 .. Len(screen[id]), c \in todoBound.chars \cup {NL} :
         TextInput(id, Replaced(id, at, at, <<c>>), at + 1, TRUE, c = " ")
  BY DEF Compose
<1>3. <<c>> \in Text
  BY CharIs
<1>4. Replaced(id, at, at, <<c>>) \in Text
  BY <1>3, ReplacedIs
<1>5. at + 1 \in Nat
  OBVIOUS
<1>6. PICK raw, caret, s : /\ raw = Replaced(id, at, at, <<c>>) /\ caret = at + 1
                           /\ s = (c = " ") /\ s \in BOOLEAN
  OBVIOUS
<1>7. TextInput(id, raw, caret, TRUE, s)
  BY <1>2, <1>6
<1> QED BY <1>1, <1>4, <1>5, <1>6, <1>7, TextInputKeeps

LEMMA CompositionEndKeeps ==
  ASSUME EditorOK, NEW id \in DOMAIN screen, CompositionEnd(id)
  PROVE  EditorStep /\ composing' = {}
<1>1. composing' = {}
  BY DEF CompositionEnd
<1>2. PICK at \in 0 .. Len(screen[id]) : TextInput(id, screen[id], at, FALSE, FALSE)
  BY DEF CompositionEnd
<1>3. PICK raw : raw = screen[id]
  OBVIOUS
<1>4. raw \in Text /\ at \in Nat
  BY <1>3, EditorIs
<1>5. TextInput(id, raw, at, FALSE, FALSE)
  BY <1>2, <1>3
<1> QED BY <1>1, <1>4, <1>5, TextInputKeeps

LEMMA SpaceKeeps ==
  ASSUME EditorOK, NEW id \in DOMAIN screen, KeySpace(id)
  PROVE  EditorStep /\ composing' = {}
<1>1. composing' = {}
  BY DEF KeySpace, NotComposing
<1>2. PICK at, d :
         /\ at \in 0 .. Len(screen[id])
         /\ d = block_shortcut_apply(document, id, screen[id], at, FALSE) /\ Fits(d) /\ Rebuilt(d)
  BY DEF KeySpace
<1>3. WellFormed(document) /\ id \in Ids(document) /\ screen[id] \in Text
  BY EditorIs
<1>4. Outcome(d)
  BY <1>2, <1>3, ShortcutKeeps
<1> QED BY <1>1, <1>2, <1>4, FittingKeeps

LEMMA EnterKeyKeeps ==
  ASSUME EditorOK, NEW id \in DOMAIN screen, KeyEnter(id)
  PROVE  EditorStep /\ composing' = {}
<1>1. composing' = {}
  BY DEF KeyEnter, NotComposing
<1>2. PICK r, d :
         /\ r \in Ranges(screen[id])
         /\ d = block_enterRange(document, id, r[1], r[2])
         /\ Fits(d) => Rebuilt(d)
         /\ ~Fits(d) => TextInput(id, Replaced(id, r[1], r[2], <<NL>>), r[1] + 1, FALSE, FALSE)
  BY DEF KeyEnter
<1>3. /\ r[1] \in 0 .. Len(screen[id]) /\ r[2] \in 0 .. Len(screen[id]) /\ r[1] <= r[2]
      /\ r[1] \in Nat /\ r[2] \in Nat /\ r[1] + 1 \in Nat
  BY <1>2, RangesAre
<1>4. WellFormed(document) /\ id \in Ids(document)
  BY EditorIs
<1>5. CASE Fits(d)
  <2>1. Outcome(d)
    BY <1>2, <1>3, <1>4, EnterKeeps
  <2> QED BY <1>1, <1>2, <1>5, <2>1, FittingKeeps
<1>6. CASE ~Fits(d)
  <2>1. Replaced(id, r[1], r[2], <<NL>>) \in Text
    BY <1>3, BreakIsText, ReplacedIs
  <2>2. PICK raw, caret : raw = Replaced(id, r[1], r[2], <<NL>>) /\ caret = r[1] + 1
    OBVIOUS
  <2>3. TextInput(id, raw, caret, FALSE, FALSE)
    BY <1>2, <1>6, <2>2
  <2> QED BY <1>1, <1>3, <2>1, <2>2, <2>3, TextInputKeeps
<1> QED BY <1>5, <1>6

\* A block is appended to the one before.
LEMMA MergingKeeps ==
  ASSUME EditorOK, NEW i \in 2 .. Len(document.blocks), Rebuilt(MergedIntoPrevious(document, i))
  PROVE  EditorStep
<1>1. PICK d : d = MergedIntoPrevious(document, i)
  OBVIOUS
<1>2. Rebuilt(d)
  BY <1>1
<1>3. WellFormed(document) /\ Size(document) <= Limit(source) /\ source \in Text
  BY EditorIs
<1>4. WellFormed(d)
  BY <1>1, <1>3, MergeIs
<1>5. Size(d) <= Size(document)
  BY <1>1, <1>3, MergeBytes
<1>6. Size(d) <= Limit(source)
  <2>1. Size(d) \in Nat /\ Size(document) \in Nat /\ Limit(source) \in Nat
    BY <1>3, <1>4, SizeIs, LimitIs
  <2> QED BY <1>3, <1>5, <2>1
<1> QED BY <1>2, <1>4, <1>6, RebuiltKeeps

LEMMA BackspaceKeeps ==
  ASSUME EditorOK, NEW id \in DOMAIN screen, KeyBackspaceAtStart(id)
  PROVE  EditorStep /\ composing' = {}
<1>1. composing' = {}
  BY DEF KeyBackspaceAtStart, NotComposing
<1>2. PICK i : i = PositionOf(document, id)
  OBVIOUS
<1>3. \/ Rebuilt(Rekind(document, id, "paragraph"))
      \/ i > 1 /\ Rebuilt(MergedIntoPrevious(document, i))
  BY <1>2 DEF KeyBackspaceAtStart
<1>4. WellFormed(document) /\ id \in Ids(document) /\ Size(document) <= Limit(source) /\ source \in Text
  BY EditorIs
<1>5. CASE Rebuilt(Rekind(document, id, "paragraph"))
  <2>1. PICK d : d = Rekind(document, id, "paragraph")
    OBVIOUS
  <2>2. Rebuilt(d)
    BY <1>5, <2>1
  <2>3. "paragraph" \in Kinds
    BY DEF Kinds
  <2>4. WellFormed(d)
    BY <1>4, <2>1, <2>3, RekindKeeps
  <2>5. Size(d) <= Size(document)
    BY <1>4, <2>1, PlainBytes
  <2>6. Size(d) <= Limit(source)
    <3>1. Size(d) \in Nat /\ Size(document) \in Nat /\ Limit(source) \in Nat
      BY <1>4, <2>4, SizeIs, LimitIs
    <3> QED BY <1>4, <2>5, <3>1
  <2> QED BY <1>1, <2>2, <2>4, <2>6, RebuiltKeeps
<1>6. CASE i > 1 /\ Rebuilt(MergedIntoPrevious(document, i))
  <2>1. i \in 1 .. Len(document.blocks) /\ Len(document.blocks) \in Nat
    BY <1>2, <1>4, Placed, PartsOf
  <2>2. i \in 2 .. Len(document.blocks)
    BY <1>6, <2>1
  <2> QED BY <1>1, <1>6, <2>2, MergingKeeps
<1> QED BY <1>3, <1>5, <1>6

LEMMA DeleteKeeps ==
  ASSUME EditorOK, NEW id \in DOMAIN screen, KeyDeleteAtEnd(id)
  PROVE  EditorStep /\ composing' = {}
<1>1. composing' = {}
  BY DEF KeyDeleteAtEnd, NotComposing
<1>2. PICK i : i = PositionOf(document, id) + 1
  OBVIOUS
<1>3. WellFormed(document) /\ id \in Ids(document)
  BY EditorIs
<1>4. PositionOf(document, id) \in 1 .. Len(document.blocks) /\ Len(document.blocks) \in Nat
  BY <1>3, Placed, PartsOf
<1>5. PositionOf(document, id) < Len(document.blocks) /\ Rebuilt(MergedIntoPrevious(document, i))
  BY <1>2 DEF KeyDeleteAtEnd
<1>6. i \in 2 .. Len(document.blocks)
  BY <1>2, <1>4, <1>5
<1> QED BY <1>1, <1>5, <1>6, MergingKeeps

LEMMA RangeKeeps ==
  ASSUME EditorOK, NEW id \in DOMAIN screen, NEW other \in DOMAIN screen, RangeReplace(id, other)
  PROVE  EditorStep /\ composing' = {}
<1>1. composing' = {}
  BY DEF RangeReplace, NotComposing
<1>2. PICK i, j : i = PositionOf(document, id) /\ j = PositionOf(document, other)
  OBVIOUS
<1>3. PICK from, to, text, d :
         /\ from \in 0 .. Len(screen[id]) /\ to \in 0 .. Len(screen[other]) /\ text \in todoBound.pastes
         /\ d = block_rangeReplace(document, i, from, j, to, text) /\ Fits(d) /\ Rebuilt(d)
  BY <1>2 DEF RangeReplace
<1>4. i <= j
  BY <1>2 DEF RangeReplace
<1>5. /\ WellFormed(document) /\ id \in Ids(document) /\ other \in Ids(document)
      /\ todoBound \in TodoCases
  BY EditorIs
<1>6. text \in Text /\ from \in Nat /\ to \in Nat
  BY <1>3, <1>5, CasesAre
<1>7. i \in 1 .. Len(document.blocks) /\ j \in i .. Len(document.blocks)
  <2>1. i \in 1 .. Len(document.blocks) /\ j \in 1 .. Len(document.blocks) /\ Len(document.blocks) \in Nat
    BY <1>2, <1>5, Placed, PartsOf
  <2> QED BY <1>4, <2>1
<1>8. Outcome(d)
  BY <1>3, <1>5, <1>6, <1>7, RangeReplaceKeeps
<1> QED BY <1>1, <1>3, <1>8, FittingKeeps

LEMMA TaskKeeps ==
  ASSUME EditorOK, NEW id \in DOMAIN screen, TaskToggle(id)
  PROVE  EditorStep /\ composing' = composing
<1>1. PICK d :
         /\ d = block_task_toggle(document, id)
         /\ \/ Fits(d) /\ Rebuilt(d)
            \/ /\ marks' = Clicked(marks, {id}) /\ unheeded' = SymDiff(unheeded, {id})
               /\ UNCHANGED <<todoBound, document, source, dirty, screen, sent, foreign>>
  BY DEF TaskToggle
<1>2. composing' = composing
  BY DEF TaskToggle
<1>3. WellFormed(document) /\ id \in Ids(document)
  BY EditorIs
<1>4. Outcome(d)
  BY <1>1, <1>3, ToggleKeeps
<1>5. CASE Fits(d) /\ Rebuilt(d)
  BY <1>2, <1>4, <1>5, FittingKeeps
<1>6. CASE /\ marks' = Clicked(marks, {id}) /\ unheeded' = SymDiff(unheeded, {id})
           /\ UNCHANGED <<todoBound, document, source, dirty, screen, sent, foreign>>
  <2>1. /\ marks \in [DOMAIN screen -> TodoRow] /\ unheeded \subseteq DOMAIN screen
        /\ (~foreign => screen = Drawn(document) /\ marks = Clicked(Marks(document), unheeded))
    BY DEF EditorOK, RowsOK, ScreenShowsDocument
  <2>2. marks' \in [DOMAIN screen -> TodoRow]
    BY <1>6, <2>1, ClickedIs
  <2>3. unheeded' \subseteq DOMAIN screen
    BY <1>6, <2>1 DEF SymDiff
  <2>4. RowsOK'
    BY <1>6, <2>2, <2>3 DEF RowsOK
  <2>5. ~foreign => marks' = Clicked(Marks(document), SymDiff(unheeded, {id}))
    <3> SUFFICES ASSUME ~foreign
                 PROVE  Clicked(marks, {id}) = Clicked(Marks(document), SymDiff(unheeded, {id}))
      BY <1>6
    <3>1. Marks(document) \in [Ids(document) -> TodoRow] /\ DOMAIN screen = Ids(document)
      BY <1>3, <2>1, MarksAre, DrawnIs
    <3>2. PICK rows : rows = Marks(document)
      OBVIOUS
    <3>3. rows \in [Ids(document) -> TodoRow] /\ unheeded \in SUBSET Ids(document)
      BY <2>1, <3>1, <3>2
    <3>4. Clicked(Clicked(rows, unheeded), {id}) = Clicked(rows, SymDiff(unheeded, {id}))
      BY <1>3, <3>3, OneClicked
    <3> QED BY <2>1, <3>2, <3>4
  <2>6. ScreenShowsDocument'
    BY <1>6, <2>1, <2>5 DEF ScreenShowsDocument
  <2>7. EditorOK'
    BY <1>6, <2>4, <2>6 DEF EditorOK
  <2>8. Bytes(source') <= Limit(source)
    BY <1>6, EditorIs, LimitIs
  <2> QED BY <1>2, <1>6, <2>7, <2>8 DEF EditorStep
<1> QED BY <1>1, <1>5, <1>6

LEMMA CutKeeps ==
  ASSUME EditorOK, NEW id \in DOMAIN screen, NEW other \in DOMAIN screen, CutAcross(id, other)
  PROVE  EditorStep /\ composing' = {}
<1>1. composing' = {}
  BY DEF CutAcross, NotComposing
<1>2. PICK gone, from, to, raw, text, d :
         /\ from \in 0 .. Len(screen[id]) /\ to \in 0 .. Len(screen[other])
         /\ raw = Before(screen[id], from) \o After(screen[other], to)
         /\ text = Taken(id, raw) /\ d = Retext(document, id, text)
         /\ document' = d /\ source_sync(document')
         /\ screen' = [b \in DOMAIN screen \ gone |-> IF b = id THEN text ELSE screen[b]]
         /\ marks' = [b \in DOMAIN marks \ gone |-> marks[b]] /\ unheeded' = unheeded \ gone
         /\ foreign' = TRUE /\ UNCHANGED <<todoBound, sent>>
  <2> DEFINE cut == {document.blocks[k].id :
                       k \in (PositionOf(document, id) + 1) .. PositionOf(document, other)}
             Raw(from, to) == Before(screen[id], from) \o After(screen[other], to)
  <2>1. PICK from \in 0 .. Len(screen[id]), to \in 0 .. Len(screen[other]) :
           /\ document' = Retext(document, id, Taken(id, Raw(from, to)))
           /\ source_sync(document')
           /\ screen' = [b \in DOMAIN screen \ cut |->
                            IF b = id THEN Taken(id, Raw(from, to)) ELSE screen[b]]
    BY DEF CutAcross
  <2>2. /\ marks' = [b \in DOMAIN marks \ cut |-> marks[b]] /\ unheeded' = unheeded \ cut
        /\ foreign' = TRUE /\ UNCHANGED <<todoBound, sent>>
    BY DEF CutAcross
  <2> WITNESS cut, from, to, Raw(from, to), Taken(id, Raw(from, to)),
              Retext(document, id, Taken(id, Raw(from, to)))
  <2> QED BY <2>1, <2>2
<1>3. /\ WellFormed(document) /\ id \in Ids(document) /\ screen[id] \in Text /\ screen[other] \in Text
  BY EditorIs
<1>4. raw \in Text
  <2>1. Before(screen[id], from) \in Text /\ After(screen[other], to) \in Text
    BY <1>2, <1>3, BeforeAfter DEF Text
  <2> QED BY <1>2, <2>1, BytesAdd
<1>5. text \in Text /\ WellFormed(d) /\ Ids(d) = Ids(document) /\ Size(d) <= Limit(source)
  BY <1>2, <1>3, <1>4, TakenIs
<1>6. /\ screen \in [DOMAIN screen -> Text] /\ DOMAIN screen \subseteq Ids(document)
      /\ todoBound \in TodoCases /\ sent \in Text /\ dirty \in BOOLEAN
  BY DEF EditorOK
<1>7. source' = source_get(d) /\ dirty' \in BOOLEAN /\ source_get(d) \in Text
  BY <1>2, <1>5, <1>6, WrittenIsText DEF source_sync
<1>8. DOMAIN screen' = DOMAIN screen \ gone /\ screen' \in [DOMAIN screen \ gone -> Text]
  BY <1>2, <1>5, <1>6
<1>9. /\ DOMAIN screen' \subseteq Ids(document') /\ screen' \in [DOMAIN screen' -> Text]
      /\ WellFormed(document') /\ source' \in Text /\ source' = source_get(document')
  BY <1>2, <1>5, <1>6, <1>7, <1>8
<1>11. RowsOK'
  BY <1>2, <1>8 DEF EditorOK, RowsOK
<1>10. EditorOK'
  BY <1>2, <1>6, <1>7, <1>9, <1>11 DEF EditorOK, ScreenShowsDocument
<1> QED BY <1>1, <1>2, <1>5, <1>7, <1>10 DEF EditorStep, Size

\* Another content comes, whatever its length.
LEMMA ExternalKeeps ==
  ASSUME EditorOK, External
  PROVE  EditorOK' /\ composing' = {} /\ todoBound' = todoBound
<1>1. PICK text, d :
         /\ text \in todoBound.imports
         /\ source' = text /\ sent' = text /\ d = source_parse(text) /\ document' = d
         /\ screen' = Drawn(d) /\ marks' = Marks(d)
  BY DEF External
<1>2. dirty' = FALSE /\ foreign' = FALSE /\ unheeded' = {} /\ composing' = {} /\ todoBound' = todoBound
  BY DEF External
<1>3. todoBound \in TodoCases /\ text \in Text
  BY <1>1, EditorIs, CasesAre
<1>4. WellFormed(d) /\ source_get(d) = text
  BY <1>1, <1>3, ReadIsWritten
<1>5. screen' \in [Ids(d) -> Text] /\ DOMAIN screen' = Ids(d)
  BY <1>1, <1>4, DrawnIs
<1>6. /\ DOMAIN screen' \subseteq Ids(document') /\ screen' \in [DOMAIN screen' -> Text]
      /\ WellFormed(document') /\ source' = source_get(document') /\ screen' = Drawn(document')
      /\ source' \in Text /\ sent' \in Text
  BY <1>1, <1>3, <1>4, <1>5
<1>8. RowsOK' /\ marks' = Clicked(Marks(document'), unheeded')
  <2>1. Marks(d) \in [Ids(d) -> TodoRow] /\ Clicked(Marks(d), {}) = Marks(d)
    BY <1>4, MarksAre, NoneClicked
  <2> QED BY <1>1, <1>2, <1>5, <2>1 DEF RowsOK
<1>7. EditorOK'
  BY <1>2, <1>3, <1>6, <1>8 DEF EditorOK, ScreenShowsDocument
<1> QED BY <1>2, <1>7

LEMMA SaveKeeps ==
  ASSUME EditorOK, SaveNow
  PROVE  EditorStep /\ composing' = composing /\ edits' = edits
<1>1. dirty' = FALSE /\ sent' = source
      /\ UNCHANGED <<todoBound, document, source, screen, marks, composing, edits, foreign, unheeded>>
  BY DEF SaveNow, rowVars
<1>2. EditorOK'
  BY <1>1 DEF EditorOK, RowsOK, ScreenShowsDocument
<1>3. Bytes(source') <= Limit(source)
  BY <1>1, EditorIs, LimitIs
<1> QED BY <1>1, <1>2, <1>3 DEF EditorStep

-----------------------------------------------------------------------------
(* Any step of the editor. *)

\* What an action of the user or the browser leaves.
LEMMA ActionKeeps ==
  ASSUME EditorOK, \A id \in composing : composing = {id}, NEW id \in DOMAIN screen,
         \/ Type(id) \/ Compose(id) \/ KeySpace(id) \/ KeyEnter(id)
         \/ KeyBackspaceAtStart(id) \/ KeyDeleteAtEnd(id) \/ TaskToggle(id) \/ CompositionEnd(id)
         \/ \E other \in DOMAIN screen : RangeReplace(id, other) \/ CutAcross(id, other)
  PROVE  EditorStep /\ \A b \in composing' : composing' = {b}
<1>1. CASE Type(id)
  BY <1>1, TypeKeeps
<1>2. CASE Compose(id)
  BY <1>2, ComposeKeeps
<1>3. CASE KeySpace(id)
  BY <1>3, SpaceKeeps
<1>4. CASE KeyEnter(id)
  BY <1>4, EnterKeyKeeps
<1>5. CASE KeyBackspaceAtStart(id)
  BY <1>5, BackspaceKeeps
<1>6. CASE KeyDeleteAtEnd(id)
  BY <1>6, DeleteKeeps
<1>7. CASE TaskToggle(id)
  BY <1>7, TaskKeeps
<1>8. CASE CompositionEnd(id)
  BY <1>8, CompositionEndKeeps
<1>9. ASSUME NEW other \in DOMAIN screen, RangeReplace(id, other) \/ CutAcross(id, other)
      PROVE  EditorStep /\ composing' = {}
  BY <1>9, RangeKeeps, CutKeeps
<1> QED BY <1>1, <1>2, <1>3, <1>4, <1>5, <1>6, <1>7, <1>8, <1>9

\* A step keeps the invariant, and the length unless another content comes.
LEMMA StepKeeps ==
  ASSUME TodoInv, [TodoNext]_todoVars
  PROVE  TodoInv' /\ (External \/ Bytes(source') <= Limit(source))
<1>1. EditorOK /\ (\A id \in composing : composing = {id}) /\ edits \in 0 .. todoBound.edits
  BY DEF TodoInv
<1>2. todoBound.edits \in Nat /\ Bytes(source) <= Limit(source)
  BY <1>1, EditorIs, CasesAre, LimitIs
<1>3. ASSUME EditorOK', todoBound' = todoBound, \A b \in composing' : composing' = {b},
             edits' = edits \/ (edits < todoBound.edits /\ edits' = edits + 1)
      PROVE  TodoInv'
  <2>1. edits' \in 0 .. todoBound'.edits
    BY <1>1, <1>2, <1>3
  <2> QED BY <1>3, <2>1 DEF TodoInv
<1>4. CASE \E id \in DOMAIN screen : CompositionEnd(id) /\ UNCHANGED edits
  <2>1. PICK id \in DOMAIN screen : CompositionEnd(id) /\ edits' = edits
    BY <1>4
  <2>2. EditorStep /\ \A b \in composing' : composing' = {b}
    BY <1>1, <2>1, ActionKeeps
  <2> QED BY <1>3, <2>1, <2>2 DEF EditorStep
<1>5. CASE External /\ edits < todoBound.edits /\ edits' = edits + 1
  <2>1. EditorOK' /\ composing' = {} /\ todoBound' = todoBound
    BY <1>1, <1>5, ExternalKeeps
  <2> QED BY <1>3, <1>5, <2>1
<1>6. CASE SaveNow
  <2>1. EditorStep /\ composing' = composing /\ edits' = edits
    BY <1>1, <1>6, SaveKeeps
  <2> QED BY <1>1, <1>3, <2>1 DEF EditorStep
<1>7. CASE UNCHANGED todoVars
  <2>1. TodoInv'
    BY <1>1, <1>7 DEF TodoInv, EditorOK, RowsOK, ScreenShowsDocument, todoVars
  <2> QED BY <1>2, <1>7, <2>1 DEF todoVars
<1>8. CASE /\ edits < todoBound.edits /\ edits' = edits + 1
           /\ \E id \in DOMAIN screen :
                \/ Type(id) \/ Compose(id) \/ KeySpace(id) \/ KeyEnter(id)
                \/ KeyBackspaceAtStart(id) \/ KeyDeleteAtEnd(id) \/ TaskToggle(id)
                \/ \E other \in DOMAIN screen : RangeReplace(id, other) \/ CutAcross(id, other)
  <2>1. PICK id \in DOMAIN screen :
                \/ Type(id) \/ Compose(id) \/ KeySpace(id) \/ KeyEnter(id)
                \/ KeyBackspaceAtStart(id) \/ KeyDeleteAtEnd(id) \/ TaskToggle(id)
                \/ \E other \in DOMAIN screen : RangeReplace(id, other) \/ CutAcross(id, other)
    BY <1>8
  <2>2. EditorStep /\ \A b \in composing' : composing' = {b}
    BY <1>1, <2>1, ActionKeeps
  <2> QED BY <1>3, <1>8, <2>2 DEF EditorStep
<1>9. [TodoNext]_todoVars
  OBVIOUS
<1> QED BY <1>4, <1>5, <1>6, <1>7, <1>8, <1>9 DEF TodoNext

-----------------------------------------------------------------------------
(* Theorems. *)

\* Whatever is typed, composed, pasted, cut, split, merged or brought by the
\* holder, the document is well formed, the source is its text and the screen
\* shows it, but for an edit the editor has not taken (TodoEditorRuntime).
THEOREM TodoInvariant == TodoSpec => []TodoInv
<1>1. TodoInv /\ [TodoNext]_todoVars => TodoInv'
  BY StepKeeps
<1> QED BY <1>1, TodoStarts, PTL DEF TodoSpec

\* Every variable has its type, no two blocks share an identifier, none comes
\* back, and there are at most MAX_BLOCKS blocks (TodoEditorDocument).
THEOREM TodoTypesKept == TodoSpec => []TodoTypeOK
<1>1. TodoInv => TodoTypeOK
  BY InvariantGives
<1> QED BY <1>1, TodoInvariant, PTL

\* What is saved is the text of the blocks, and reading it back loses nothing,
\* for any text: also one of more lines than blocks (source_parse, source_get).
THEOREM SourceIsTheDocument == TodoSpec => []SourceIsDocument
<1>1. TodoInv => SourceIsDocument
  BY InvariantGives
<1> QED BY <1>1, TodoInvariant, PTL

\* The rows show the text, the kind and the checkbox of their blocks, unless the
\* browser shows an edit of its own; the boxes that say the opposite of what is
\* saved are exactly those clicked an odd number of times, in vain for the length
\* of the note, since their rows were drawn (block_textInput, block_taskToggle,
\* rebuild_apply).
THEOREM ScreenIsDrawn == TodoSpec => []ScreenShowsDocument
<1>1. TodoInv => ScreenShowsDocument
  BY InvariantGives
<1> QED BY <1>1, TodoInvariant, PTL

\* No edit makes the content longer than MAX_LENGTH, or than it was: characters
\* of any width, markers and line breaks included (TodoEditorRuntime).
THEOREM LengthIsKept == TodoSpec => LengthKept
<1>1. TodoInv /\ [TodoNext]_todoVars
        => [External \/ Bytes(source') <= Max({MaxLength, Bytes(source)})]_todoVars
  <2> SUFFICES ASSUME TodoInv, [TodoNext]_todoVars
               PROVE  External \/ Bytes(source') <= Max({MaxLength, Bytes(source)})
    OBVIOUS
  <2>1. source \in Text
    BY DEF TodoInv, EditorOK
  <2>2. Bytes(source) \in Nat /\ MaxLength \in Nat
    BY <2>1, BytesAre, TodoAssumption
  <2> DEFINE T == {MaxLength, Bytes(source)}
  <2>3. Limit(source) \in T /\ \A y \in T : Limit(source) >= y
    BY <2>2 DEF Limit
  <2>4. Max(T) \in T /\ \A y \in T : Max(T) >= y
    <3> HIDE DEF T
    <3> QED BY <2>3 DEF Max
  <2>5. Max(T) = Limit(source)
    <3>1. Max(T) \in Nat /\ Limit(source) \in Nat
      BY <2>2, <2>3, <2>4
    <3>2. Max(T) >= Limit(source) /\ Limit(source) >= Max(T)
      <4> HIDE DEF T
      <4> QED BY <2>3, <2>4
    <3> HIDE DEF T
    <3> QED BY <3>1, <3>2
  <2> QED BY <2>5, StepKeeps
<1> QED BY <1>1, TodoInvariant, PTL DEF TodoSpec, LengthKept
=============================================================================
