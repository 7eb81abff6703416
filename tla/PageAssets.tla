----------------------------- MODULE PageAssets -----------------------------
(***************************************************************************)
(* One tab of the page and the servers behind its address while a release  *)
(* is rolled out.  Every answer of the API tells the release of the server *)
(* that gave it, by the hash of its WASM bundle; a script of the page      *)
(* (static/public/asset_version_monitor.js) compares it with the page's    *)
(* own and reloads the page, with what it remembers in session storage.    *)
(* The texts of the page come from books, one per language, which the      *)
(* server reads from the files of its release and the page asks for once.  *)
(*                                                                         *)
(* Releases stand for their hashes.  Only the one origin is modelled, and  *)
(* the document as it is drawn in the browser.                             *)
(***************************************************************************)
EXTENDS Naturals, FiniteSets

CONSTANTS
  Releases,
  Langs,
  Allowed,     \* the languages of TranslateManager::filterLang
  Files,       \* release -> the languages it has a file for
  Texts,       \* the texts of the page
  AssetCases,  \* what a behaviour is about: the texts drawn, which releases tell
               \* their hashes, whether storage works, and the bounds on the
               \* answers on their way and on the errors
  Unknown      \* no hash, no book, or nothing

VARIABLES
  assetCase,   \* the element of AssetCases; its `hashed` were built with hash_files
  fleet,       \* the releases that serve now
  slot,        \* TranslateManager: release -> language -> its book or Unknown
  page,        \* release: of the document; life: "running", "reloading" or "broken"
  storage,     \* sessionStorage: last-hash and reload-target
  answers,     \* the releases whose answers are on their way, whatever was asked
  lang,        \* the language of the page
  books,       \* FluentManager: language -> its book or Unknown
  task,        \* text -> the language it is translated to, and how far this is
  shown,       \* text -> the language and the book it shows; Unknown shows its key
  errors

release == <<assetCase, fleet, slot>>
texts == <<lang, books, task, shown>>
assetVars == <<release, page, storage, answers, texts, errors>>

\* What a server reads from a file: no text at all when the file cannot be read.
Book == [of : Releases, in : Langs, empty : BOOLEAN]
NoBooks == [l \in Langs |-> Unknown]
Idle == [lang |-> Unknown, step |-> "idle", answer |-> Unknown]

ASSUME PageAssumption ==
  /\ Files \in [Releases -> SUBSET Allowed] /\ Allowed \subseteq Langs /\ "EN" \in Allowed
  /\ Unknown \notin Releases \cup Langs \cup Book
  /\ AssetCases \subseteq [texts : SUBSET Texts, hashed : SUBSET Releases, works : BOOLEAN,
                           answers : Nat, errors : Nat]

AssetTypeOK ==
  /\ assetCase \in AssetCases /\ fleet \in (SUBSET Releases) \ {{}}
  /\ slot \in [Releases -> [Langs -> Book \cup {Unknown}]]
  /\ page \in [release : Releases, life : {"running", "reloading", "broken"}]
  /\ storage \in [last : Releases \cup {Unknown}, target : Releases \cup {Unknown}]
  /\ answers \subseteq Releases /\ lang \in Langs
  /\ books \in [Langs -> Book \cup {Unknown}]
  /\ task \in [Texts -> [lang : Langs \cup {Unknown}, step : {"idle", "waiting", "asking", "answered"},
                         answer : [by : Releases, book : Book \cup {Unknown}] \cup {Unknown}]]
  /\ shown \in [Texts -> [lang : Langs, book : Book \cup {Unknown}] \cup {Unknown}]
  /\ errors \in 0..assetCase.errors

AssetInit ==
  /\ assetCase \in AssetCases
  /\ \E first \in Releases : fleet = {first} /\ page = [release |-> first, life |-> "running"]
  /\ slot = [r \in Releases |-> NoBooks]
  /\ storage = [last |-> Unknown, target |-> Unknown]
  /\ answers = {} /\ lang \in Langs /\ books = NoBooks /\ errors = 0
  /\ task = [t \in Texts |-> Idle] /\ shown = [t \in Texts |-> Unknown]

-----------------------------------------------------------------------------
(* The servers. *)

\* BrowserAssetDelivery::new: none when the files are not hashed.
WasmHash(r) == IF r \in assetCase.hashed THEN r ELSE Unknown

filterLang(l) == IF l \in Allowed THEN l ELSE "EN"

\* TranslateBook::load: the file of the language, or else the English one.
FileOf(r, l) == IF l \in Files[r] THEN l ELSE "EN"
Loads(r, l) == FileOf(r, l) \in Files[r]
Loaded(r, l, empty) == [of |-> r, in |-> FileOf(r, l), empty |-> empty]

\* A server is started or stopped; another is left.
Rollout(r) ==
  /\ fleet' = (fleet \ {r}) \cup ({r} \ fleet) /\ fleet' # {}
  /\ slot' = [slot EXCEPT ![r] = NoBooks]
  /\ UNCHANGED <<assetCase, page, storage, answers, texts, errors>>

\* API_translate_getBook, for a text that asks: the slot of the language is
\* filled once.  What cannot be read is only traced, and stays empty.
BookServed(t, r) ==
  LET l == filterLang(task[t].lang) IN
  /\ task[t].step = "asking" /\ r \in fleet
  /\ \E empty \in BOOLEAN :
       /\ empty => slot[r][l] = Unknown /\ Loads(r, l) /\ errors < assetCase.errors
       /\ errors' = IF empty THEN errors + 1 ELSE errors
       /\ slot' = IF slot[r][l] = Unknown /\ Loads(r, l)
                  THEN [slot EXCEPT ![r][l] = Loaded(r, l, empty)] ELSE slot
  /\ task' = [task EXCEPT ![t] = [@ EXCEPT !.step = "answered",
                                  !.answer = [by |-> r, book |-> slot'[r][l]]]]
  /\ UNCHANGED <<assetCase, fleet, page, storage, answers, lang, books, shown>>

\* Any other call of the page, which its crons make all the time.
CallServed(r) ==
  /\ page.life # "broken" /\ r \in fleet \ answers /\ Cardinality(answers) < assetCase.answers
  /\ answers' = answers \cup {r}
  /\ UNCHANGED <<release, page, storage, texts, errors>>

-----------------------------------------------------------------------------
(* asset_version_monitor.js *)

\* clientWasmHashGet: from the name of the bundle the document preloads.
ClientHash == WasmHash(page.release)

ReleaseChanged(hash) ==
  IF ClientHash # Unknown THEN ClientHash # hash
  ELSE storage.last # Unknown /\ storage.last # hash

Noted(hash) == [storage EXCEPT !.last = IF assetCase.works THEN hash ELSE @]
\* A faulty variant: what was reloaded for last is not compared.
MayReloadOnce(hash) == storage.target = Unknown /\ assetCase.works
\* Once for a release, and not at all when storage cannot be written.
MayReload(hash) == storage.target # hash /\ assetCase.works

\* responseVersionApply
VersionApply(r) ==
  LET hash == WasmHash(r) IN
  IF hash = Unknown THEN UNCHANGED <<storage, page>>
  ELSE IF ~ReleaseChanged(hash)
  THEN /\ storage' = [Noted(hash) EXCEPT !.target = IF ClientHash = hash THEN Unknown ELSE @]
       /\ UNCHANGED page
  ELSE IF MayReload(hash)
  THEN /\ storage' = [Noted(hash) EXCEPT !.target = hash]
       /\ page' = [page EXCEPT !.life = "reloading"]
  ELSE storage' = Noted(hash) /\ UNCHANGED page

\* An answer comes, also while a reload has begun: the page runs until it is gone.
CallAnswered(r) ==
  /\ r \in answers /\ answers' = answers \ {r}
  /\ VersionApply(r)
  /\ UNCHANGED <<release, texts, errors>>

\* The document and its bundle come from two requests.  A server of another
\* release may not have the bundle, unless it is in the browser's cache, and
\* without it nothing asks the API any more.
MayMissBundle(from) ==
  \E other \in fleet \ {from} : {from, other} \cap assetCase.hashed # {}

\* The page is loaded anew, by the monitor or by the user.
Load ==
  /\ \E from \in fleet, life \in {"running", "broken"} :
       /\ life = "broken" => MayMissBundle(from)
       /\ page' = [release |-> from, life |-> life]
  /\ answers' = {} /\ books' = NoBooks
  /\ task' = [t \in Texts |-> Idle] /\ shown' = [t \in Texts |-> Unknown]
  /\ UNCHANGED <<release, storage, lang, errors>>

-----------------------------------------------------------------------------
(* FluentManager *)

\* Resource::new runs again with each language; what came before counts no more.
Translate(t) == [lang |-> lang', step |-> "waiting", answer |-> Unknown]

Draw(t) ==
  /\ t \in assetCase.texts /\ page.life # "broken" /\ task[t] = Idle /\ UNCHANGED lang
  /\ task' = [task EXCEPT ![t] = Translate(t)]
  /\ UNCHANGED <<release, page, storage, answers, books, shown, errors>>

ChooseLang(l) ==
  /\ assetCase.texts # {} /\ page.life # "broken" /\ l # lang /\ lang' = l
  /\ task' = [t \in Texts |-> IF task[t] = Idle /\ shown[t] = Unknown THEN Idle ELSE Translate(t)]
  /\ UNCHANGED <<release, page, storage, answers, books, shown, errors>>

\* Somebody loads the book of the language: its mutex is taken until then.
Loading(l) == \E t \in Texts : task[t].lang = l /\ task[t].step \in {"asking", "answered"}

\* translateFor: an empty book has no message, and no book none at all.
Says(t, book) ==
  /\ shown' = [shown EXCEPT ![t] = IF book = Unknown \/ book.empty THEN Unknown
                                   ELSE [lang |-> task[t].lang, book |-> book]]
  /\ task' = [task EXCEPT ![t] = Idle]

Asks(t) == task' = [task EXCEPT ![t].step = "asking"] /\ UNCHANGED shown

\* A faulty variant: the slot is looked at before its mutex is waited for.
BookGetUnlocked(t) ==
  /\ task[t].step = "waiting"
  /\ IF books[task[t].lang] # Unknown THEN Says(t, books[task[t].lang]) ELSE Asks(t)
  /\ UNCHANGED <<release, page, storage, answers, lang, books, errors>>
\* book_getWith, up to the call.
BookGet(t) ==
  LET l == task[t].lang IN
  /\ task[t].step = "waiting" /\ ~Loading(l)
  /\ IF books[l] # Unknown THEN Says(t, books[l]) ELSE Asks(t)
  /\ UNCHANGED <<release, page, storage, answers, lang, books, errors>>

\* The answer: the monitor reads its header first.  A failed load is not kept.
BookAnswered(t) ==
  LET answer == task[t].answer IN
  /\ task[t].step = "answered"
  /\ VersionApply(answer.by)
  /\ books' = [books EXCEPT ![task[t].lang] = IF answer.book # Unknown THEN answer.book ELSE @]
  /\ Says(t, answer.book)
  /\ UNCHANGED <<release, answers, lang, errors>>

\* The call fails or its answer is lost.
BookLost(t) ==
  /\ task[t].step \in {"asking", "answered"}
  /\ errors < assetCase.errors /\ errors' = errors + 1
  /\ Says(t, Unknown)
  /\ UNCHANGED <<release, page, storage, answers, lang, books>>

-----------------------------------------------------------------------------
AssetNext ==
  \/ \E r \in Releases : Rollout(r) \/ CallServed(r) \/ CallAnswered(r)
  \/ Load
  \/ \E t \in Texts, r \in Releases : BookServed(t, r)
  \/ \E t \in Texts : Draw(t) \/ BookGet(t) \/ BookAnswered(t) \/ BookLost(t)
  \/ \E l \in Langs : ChooseLang(l)

\* The page has crons, and a reload that has begun ends.
AssetFairness ==
  /\ WF_assetVars(page.life = "reloading" /\ Load)
  /\ \A r \in Releases : WF_assetVars(CallServed(r)) /\ WF_assetVars(CallAnswered(r))

AssetSpec == AssetInit /\ [][AssetNext]_assetVars /\ AssetFairness

-----------------------------------------------------------------------------
(* Properties. *)

\* Once one release is left that tells its hash, the page runs it at last or has
\* been reloaded for it, and is not reloaded any more, however the answers and
\* documents of two releases alternated before: unless it cannot remember that,
\* does not know its own release or has lost its bundle
\* (asset_version_monitor.js:75-84).
SettlesOnRelease ==
  \A r \in Releases :
    <>[](fleet = {r} /\ r \in assetCase.hashed) =>
      <>[](/\ page.life # "reloading"
           /\ page.release = r \/ storage.target = r \/ ~assetCase.works
              \/ ClientHash = Unknown \/ page.life = "broken")

\* The texts of a page in one language come from one book, whichever servers
\* answer and however loads overlap, fail and are repeated
\* (FluentManager::book_getWith).
TextsShareTheirBook ==
  \A t, u \in Texts :
    (shown[t] # Unknown /\ shown[u] # Unknown /\ shown[t].lang = shown[u].lang)
      => shown[t].book = shown[u].book
=============================================================================
