------------------------------ MODULE GameFlow ------------------------------
(***************************************************************************)
(* The pages of the game (oap-app.js) and the server's store of            *)
(* constitutions (constitutions_controller.rb).                            *)
(*                                                                         *)
(* A path such as /area-ballot/1 names a page and a sub path; every         *)
(* navigation, by a finished stage, the browser's buttons or a redirect,   *)
(* ends in _locationChanged, which sets the page, and LitElement then calls *)
(* updated() once, where the guards of the pages may navigate again.        *)
(* Around that run the two boot requests, the offer of the saved game, the  *)
(* welcome and tutorial dialogs, the debounced autosave, the requests for   *)
(* a shared review and the posting of a finished constitution.              *)
(*                                                                         *)
(* Points, cards and prices are the other modules': here a game is which    *)
(* stages are done.                                                         *)
(***************************************************************************)
EXTENDS Naturals, Sequences, SequencesExt

CONSTANTS
  Supported,       \* the languages of client_config.languages
  LinkLocale,      \* the values of ?locale= in the links that are opened
  DefaultLanguage, \* client_config.defaultLanguage
  NoSave,          \* no game in localStorage
  Links,           \* the paths the player opens from outside, as <<page, sub path>>
  HistoryLimit,    \* how many entries the browser keeps
  MaxLoads,        \* bound on the documents loaded
  MaxPosts         \* bound on the constitutions posted

ASSUME LanguageAssumption ==
  /\ DefaultLanguage \in Supported /\ "en" \in Supported
ASSUME BoundsAssumption ==
  HistoryLimit \in Nat \ {0, 1} /\ MaxLoads \in Nat \ {0} /\ MaxPosts \in Nat
(* The one review there is a link to is the one that is in the table.       *)
ASSUME LinksAssumption ==
  Links \subseteq STRING \X Nat /\ \A l \in Links : l[1] = "review" => l[2] = 1

VARIABLES
  boot,      \* the boot request: "fetching", "ready" or "failed"
  language,  \* the language asked for
  texts,     \* the language whose texts the configuration holds
  override,  \* localStorage.languageOverride
  page,      \* _page
  sub,       \* _subPath
  dirty,     \* _page was set and updated() has not run yet
  hist,      \* the entries of the browser's history and the current one
  blocked,   \* window.onpopstate pushes the entry again
  game,      \* what the player has done, the part of it that is saved
  autosave,  \* disableAutoSave, and whether the debounce timer runs
  disk,      \* the saved game in localStorage
  offer,     \* the saved-game dialog: "due", "open" or "closed"
  dialog,    \* the content of the master dialog
  picked,    \* a country is picked in the page's menu
  review,    \* the requests for a saved review
  rows,      \* the constitutions table, by id
  posts,     \* requests that post a constitution
  loads,     \* documents loaded so far
  strayed,   \* a shared review has come to a page that is not its own
  led        \* whether an address with a sub path let the game, or the saved one, past the quiz

where == <<page, sub, dirty, hist, blocked>>
booting == <<boot, language, texts, override>>
saving == <<autosave, disk>>
asking == <<offer, dialog, picked>>
server == <<rows, posts>>
past == <<loads, strayed, led>>
vars == <<booting, where, game, saving, asking, review, server, past>>

NoSub == 0
Locale == Supported \union LinkLocale
BootLanguage(stored) == IF stored = "none" THEN "en" ELSE stored

Root == <<"/", NoSub>>
Quiz == <<"quiz", NoSub>>
CreateCountry == <<"create-country", NoSub>>
FilterArticles == <<"filter-articles", NoSub>>
AreaBallot == <<"area-ballot", 1>>
Review(id) == <<"review", id>>

Id == 1 .. (1 + MaxPosts)
Path == {Root, Quiz, CreateCountry, FilterArticles, AreaBallot} \union Links
          \union {Review(id) : id \in Id}

Whose == {"nobody's", "player's", "another's"}
Game == [quizDone : BOOLEAN, country : Whose, filtered : BOOLEAN, selected : Whose]
NewGame == [quizDone |-> FALSE, country |-> "nobody's", filtered |-> FALSE,
            selected |-> "nobody's"]

(* The dialogs that open one after the other, each by the button of the     *)
(* one before: the welcome and the nine values of the tutorial.             *)
Welcome == <<"welcome", "choicePoints", "quizInfo">>
FirstValues == <<"cultural", "authority", "liberty", "science">>
MiddleValues == <<"tradition", "collective", "independence">>
LastValues == <<"privacy", "lawAndOrder", "progressivism">>
Values == FirstValues \o MiddleValues \o LastValues
Dialog == {"none", "countryInfo", "filterInfo", "selectionInfo", "article"}
            \union Range(Welcome) \union Range(Values)

TypeOK ==
  /\ boot \in {"fetching", "ready", "failed"}
  /\ language \in Locale /\ texts \in Locale /\ override \in Locale \union {"none"}
  /\ page \in {p[1] : p \in Path} /\ sub \in {p[2] : p \in Path}
  /\ dirty \in BOOLEAN /\ blocked \in BOOLEAN
  /\ hist.at \in 1 .. Len(hist.entries) /\ Len(hist.entries) <= HistoryLimit
  /\ Range(hist.entries) \subseteq Path
  /\ game \in Game
  /\ autosave \in [disabled : BOOLEAN, timer : BOOLEAN]
  /\ disk = NoSave \/ disk \in [path : Path, game : Game]
  /\ offer \in {"due", "open", "closed"} /\ dialog \in Dialog /\ picked \in BOOLEAN
  /\ review \in [polling : BOOLEAN, asked : SUBSET Id, getting : BOOLEAN, shown : BOOLEAN]
  /\ rows \in Seq(Whose) /\ Len(rows) \in Id
  /\ \A i \in 1 .. Len(posts) : posts[i] \in [attached : BOOLEAN, whose : Whose, id : {NoSub} \union Id]
  /\ loads \in 1 .. MaxLoads /\ led \in [now : BOOLEAN, saved : BOOLEAN]

-----------------------------------------------------------------------------
(***************************************************************************)
(* Navigation.                                                             *)
(***************************************************************************)

Here(h) == h.entries[h.at]

(* history.pushState drops the entries ahead; the browser drops the oldest. *)
Push(h, p) ==
  LET kept == Append(SubSeq(h.entries, 1, h.at), p)
  IN  IF Len(kept) > HistoryLimit THEN [entries |-> Tail(kept), at |-> HistoryLimit]
      ELSE [entries |-> kept, at |-> Len(kept)]

SubAfter(s, p) == IF p[2] = NoSub THEN s ELSE p[2]

(* Every save that updated() or a handler asks for: the timer is started    *)
(* once, and not at all while autosave is disabled.                         *)
SaveDebounced_Inverted(a) == [a EXCEPT !.timer = @ \/ a.disabled]
SaveDebounced(a) == [a EXCEPT !.timer = @ \/ ~a.disabled]

(* pushState and location-changed for each of one or two paths.  Leaving    *)
(* the ballot detaches it: events it fires no longer reach the app.         *)
Leave(next) ==
  /\ picked' = (picked /\ next = page)
  /\ posts' = IF next = page THEN posts
              ELSE [i \in DOMAIN posts |-> [posts[i] EXCEPT !.attached = FALSE]]

GoTo(paths) ==
  /\ LET first == Push(hist, paths[1])
     IN  hist' = IF Len(paths) = 1 THEN first ELSE Push(first, paths[2])
  /\ LET first == SubAfter(sub, paths[1])
     IN  sub' = IF Len(paths) = 1 THEN first ELSE SubAfter(first, paths[2])
  /\ page' = paths[Len(paths)][1]
  /\ dirty' = (page' # page)
  /\ Leave(page')

(* _locationChanged of a history entry.  For / it first goes to /quiz and   *)
(* then sets the page / all the same.                                       *)
Arrive(h) ==
  LET there == IF Here(h) = Root THEN Push(h, Quiz) ELSE h
  IN  /\ hist' = IF blocked THEN Push(there, Here(there)) ELSE there
      /\ page' = Here(h)[1]
      /\ sub' = SubAfter(sub, Here(h))
      /\ dirty' = (Here(h) = Root \/ page' # page)
      /\ led' = [led EXCEPT !.now = @ \/ (Here(h)[2] # NoSub /\ ~game.quizDone)]
      /\ Leave(page')

Traverse(step) ==
  /\ ~dirty
  /\ step \in 1 .. Len(hist.entries) /\ step # hist.at
  /\ Arrive([hist EXCEPT !.at = step])
  /\ UNCHANGED <<booting, blocked, game, saving, offer, dialog, review, rows, loads, strayed>>

Back == Traverse(hist.at - 1)
Forward == Traverse(hist.at + 1)

Redirects_NoFilterGuard ==
  IF page # "quiz" /\ ~game.quizDone /\ sub = NoSub THEN <<Quiz>>
  ELSE IF page = "area-ballot" /\ ~game.filtered THEN <<FilterArticles>>
  ELSE <<>>

Redirects_NoQuizGuard ==
  IF page = "area-ballot"
  THEN (IF game.filtered THEN <<>>
        ELSE IF game.country = "nobody's" THEN <<CreateCountry>> ELSE <<FilterArticles>>)
       \o (IF game.selected # "nobody's" THEN <<>>
           ELSE IF game.filtered THEN <<AreaBallot>> ELSE <<FilterArticles>>)
  ELSE IF game.country = "nobody's"
       /\ (page = "filter-articles" \/ (page = "review" /\ sub = NoSub)) THEN <<CreateCountry>>
  ELSE <<>>

Redirects_NothingSelected ==
  IF page # "quiz" /\ ~game.quizDone /\ sub = NoSub THEN <<Quiz>>
  ELSE IF page = "area-ballot" /\ game.selected = "nobody's" THEN <<FilterArticles>>
  ELSE IF page = "filter-articles" /\ game.filtered THEN <<AreaBallot>>
  ELSE <<>>

(* The guards of updated(): the paths they go to, in their order. *)
Redirects ==
  IF page # "quiz" /\ ~game.quizDone /\ sub = NoSub THEN <<Quiz>>
  ELSE IF page = "area-ballot"
  THEN (IF game.filtered THEN <<>>
        ELSE IF game.country = "nobody's" THEN <<CreateCountry>> ELSE <<FilterArticles>>)
       \o (IF game.selected # "nobody's" THEN <<>>
           ELSE IF game.filtered THEN <<AreaBallot>> ELSE <<FilterArticles>>)
  ELSE IF game.country = "nobody's"
       /\ (page = "filter-articles" \/ (page = "review" /\ sub = NoSub)) THEN <<CreateCountry>>
  ELSE <<>>

(* A review whose country is not known is asked from the server, at once    *)
(* or, before the boot has completed, by timers.                            *)
AsksReview ==
  page = "review" /\ game.country = "nobody's" /\ sub # NoSub

ReviewAsked ==
  review' = IF ~AsksReview THEN review
            ELSE IF boot = "ready" THEN [review EXCEPT !.asked = @ \union {sub}, !.getting = TRUE]
            ELSE [review EXCEPT !.polling = TRUE]

(* The review page, once it can compute its results, pushes its own entry   *)
(* again and keeps doing so whenever the player goes back.                  *)
ShowsReview == boot = "ready" /\ page = "review" /\ game.country # "nobody's"

ShowReview(h) ==
  IF ShowsReview THEN hist' = Push(h, Here(h)) /\ blocked' = TRUE
  ELSE hist' = h /\ UNCHANGED blocked

(* updated() with a new _page, and the child elements' own updates. *)
Updated ==
  /\ dirty
  /\ page # "voting-completed"
  /\ IF Redirects = <<>>
     THEN /\ dirty' = FALSE
          /\ ShowReview(hist)
          /\ UNCHANGED <<page, sub, picked, posts>>
     ELSE GoTo(Redirects) /\ UNCHANGED blocked
  /\ ReviewAsked
  /\ autosave' = SaveDebounced(autosave)
  /\ dialog' = IF page = "filter-articles" /\ boot = "ready" THEN "filterInfo" ELSE dialog
  /\ UNCHANGED <<booting, game, disk, offer, rows, past>>

Load_SavesAtOnce(h) ==
  /\ boot' = "fetching"
  /\ hist' = IF Here(h) = Root THEN Push(h, Quiz) ELSE h
  /\ page' = Here(h)[1] /\ sub' = Here(h)[2] /\ dirty' = TRUE
  /\ blocked' = FALSE
  /\ game' = NewGame /\ led' = [led EXCEPT !.now = sub' # NoSub]
  /\ autosave' = [disabled |-> FALSE, timer |-> FALSE]
  /\ offer' = "due" /\ dialog' = "none" /\ picked' = FALSE
  /\ review' = [polling |-> FALSE, asked |-> {}, getting |-> FALSE, shown |-> FALSE]
  /\ posts' = [i \in DOMAIN posts |-> [posts[i] EXCEPT !.attached = FALSE]]
  /\ UNCHANGED rows

(* A document is loaded: the router reports its path, nothing of the old    *)
(* page but localStorage, the history and the server's table is left.       *)
Load(h) ==
  /\ boot' = "fetching"
  /\ hist' = IF Here(h) = Root THEN Push(h, Quiz) ELSE h
  /\ page' = Here(h)[1] /\ sub' = Here(h)[2] /\ dirty' = TRUE
  /\ blocked' = FALSE
  /\ game' = NewGame /\ led' = [led EXCEPT !.now = sub' # NoSub]
  /\ autosave' = [disabled |-> TRUE, timer |-> FALSE]
  /\ offer' = "due" /\ dialog' = "none" /\ picked' = FALSE
  /\ review' = [polling |-> FALSE, asked |-> {}, getting |-> FALSE, shown |-> FALSE]
  /\ posts' = [i \in DOMAIN posts |-> [posts[i] EXCEPT !.attached = FALSE]]
  /\ UNCHANGED rows

(* The bound on what the player loads. *)
OneLoadMore == loads < MaxLoads /\ loads' = loads + 1 /\ UNCHANGED strayed

(* A link, with or without ?locale=, is opened; the page /voting-completed  *)
(* itself opens / when it is not reached from the ballot.                   *)
Open(p, locale) ==
  /\ Load([entries |-> <<p>>, at |-> 1])
  /\ override' = IF locale = "none" THEN override ELSE locale
  /\ language' = BootLanguage(override')
  /\ UNCHANGED <<texts, disk>>

OpenLink == ~dirty /\ OneLoadMore /\ \E p \in Links, l \in LinkLocale \union {"none"} : Open(p, l)
VotingCompleted ==
  dirty /\ page = "voting-completed" /\ Open(Root, "none") /\ UNCHANGED <<loads, strayed>>

Reload ==
  /\ ~dirty /\ OneLoadMore
  /\ Load(hist)
  /\ language' = BootLanguage(override)
  /\ UNCHANGED <<texts, override, disk>>

-----------------------------------------------------------------------------
(***************************************************************************)
(* Boot, the saved game and the dialogs.                                   *)
(***************************************************************************)

(* The server takes the texts of every language but the one asked for out   *)
(* of the configuration.                                                    *)
TextsSent(locale) == Supported \intersect {locale}

(* What the boot shows of the texts: the page's meta data first, then the   *)
(* welcome and the help.  Without texts the first of them throws.           *)
SetupLocaleTexts == IF TextsSent(language) # {} THEN "ready" ELSE "failed"

(* The configuration holds the texts of the language asked for and no       *)
(* other.  Without an override the default language is stored as one and    *)
(* asked for in a second request; a language that is not there throws.      *)
BootAnswered ==
  /\ boot = "fetching" /\ ~dirty
  /\ IF override = "none" /\ language # DefaultLanguage
     THEN /\ language' = DefaultLanguage /\ override' = DefaultLanguage
          /\ UNCHANGED <<boot, texts, where, dialog>>
     ELSE /\ texts' = language
          /\ boot' = SetupLocaleTexts
          /\ dialog' = IF page = "filter-articles" /\ boot' = "ready" THEN "filterInfo" ELSE dialog
          /\ IF page = "review" /\ game.country # "nobody's" /\ boot' = "ready"
             THEN hist' = Push(hist, Here(hist)) /\ blocked' = TRUE
             ELSE UNCHANGED <<hist, blocked>>
          /\ UNCHANGED <<language, override, page, sub, dirty>>
  /\ UNCHANGED <<game, saving, offer, picked, review, server, past>>

BootFailed ==
  /\ boot = "fetching" /\ ~dirty
  /\ boot' = "failed"
  /\ UNCHANGED <<language, texts, override, where, game, saving, asking, review, server, past>>

(* checkForRestoredGameOrWelcome, a task of its own after the boot. *)
OfferSavedGame ==
  /\ boot = "ready" /\ ~dirty /\ offer = "due"
  /\ IF review.getting \/ page = "review"
     THEN offer' = "closed" /\ UNCHANGED <<dialog, autosave>>
     ELSE IF disk # NoSave
     THEN offer' = "open" /\ UNCHANGED <<dialog, autosave>>
     ELSE /\ offer' = "closed" /\ dialog' = Welcome[1]
          /\ autosave' = [autosave EXCEPT !.disabled = FALSE]
  /\ UNCHANGED <<booting, where, game, disk, picked, review, server, past>>

(* The restored properties are set with autosave still disabled; then the   *)
(* saved path is gone to.                                                   *)
RestoreGame ==
  /\ offer = "open" /\ ~dirty /\ disk # NoSave
  /\ offer' = "closed"
  /\ game' = disk.game /\ led' = [led EXCEPT !.now = @ \/ led.saved]
  /\ autosave' = [autosave EXCEPT !.disabled = FALSE]
  /\ GoTo(<<disk.path>>)
  /\ UNCHANGED <<booting, blocked, disk, dialog, review, rows, loads, strayed>>

(* The save is removed and the document reloaded, at the path it has. *)
OpenNewGame ==
  /\ offer = "open" /\ ~dirty
  /\ Load(hist)
  /\ language' = BootLanguage(override)
  /\ disk' = NoSave
  /\ UNCHANGED <<texts, override, loads, strayed>>

(* The language of the texts to come changes; those of the configuration    *)
(* are still the ones it was booted with.                                   *)
SelectLocale(l) ==
  /\ dialog = "welcome" /\ ~dirty /\ l # language
  /\ language' = l /\ override' = l
  /\ UNCHANGED <<boot, texts, where, game, saving, asking, review, server, past>>

(* The button of a dialog: the next one of its series, or it is closed. *)
After(series, d) ==
  LET at == CHOOSE i \in 1 .. Len(series) : series[i] = d
  IN  IF at = Len(series) THEN "none" ELSE series[at + 1]

NextDialog ==
  /\ dialog # "none" /\ ~dirty
  /\ dialog' = IF dialog \in Range(Welcome) THEN After(Welcome, dialog)
               ELSE IF dialog \in Range(Values) THEN After(Values, dialog)
               ELSE "none"
  /\ UNCHANGED <<booting, where, game, saving, offer, picked, review, server, past>>

(* "Skip", and "next" where the dialog takes it for a dismissal as well:     *)
(* the buttons of the middle steps are marked as both.                      *)
SkipTutorial ==
  /\ dialog \in Range(Values) /\ ~dirty
  /\ dialog' = "none"
  /\ UNCHANGED <<booting, where, game, saving, offer, picked, review, server, past>>

(* Five seconds after the first change; what is saved is what there is then. *)
AutoSave ==
  /\ autosave.timer /\ ~dirty
  /\ autosave' = [autosave EXCEPT !.timer = FALSE]
  /\ disk' = [path |-> Here(hist), game |-> game] /\ led' = [led EXCEPT !.saved = led.now]
  /\ UNCHANGED <<booting, where, game, asking, review, server, loads, strayed>>

-----------------------------------------------------------------------------
(***************************************************************************)
(* The stages of the game.                                                 *)
(***************************************************************************)

(* The dialogs are modal: the page below takes no click, nor before the      *)
(* task that offers the saved game, which has no delay.                     *)
OnPage(p) == boot = "ready" /\ ~dirty /\ page = p /\ dialog = "none" /\ offer = "closed"

OpenSelectionInfoDialog == dialog' = "selectionInfo"

(* An article of the ballot at its full size.  In a wide window the dialog  *)
(* is not modal, but the click that closes it is the first one anyway.      *)
OpenArticleItem ==
  /\ OnPage("area-ballot") /\ game.filtered
  /\ dialog' = "article"
  /\ UNCHANGED <<booting, where, game, saving, offer, picked, review, server, past>>

FinishQuiz ==
  /\ OnPage("quiz")
  /\ game' = [game EXCEPT !.quizDone = TRUE]
  /\ GoTo(<<CreateCountry>>)
  /\ dialog' = "countryInfo"
  /\ UNCHANGED <<booting, blocked, saving, offer, review, rows, past>>

(* The menu is made from the texts of the language chosen by now.           *)
HasCountries == texts = language

PickCountry ==
  /\ OnPage("create-country") /\ ~picked /\ HasCountries
  /\ picked' = TRUE
  /\ dialog' = Values[1]
  /\ UNCHANGED <<booting, where, game, saving, offer, review, server, past>>

CreateCountryFinished ==
  /\ OnPage("create-country") /\ picked
  /\ GoTo(<<FilterArticles>>)
  /\ game' = [game EXCEPT !.country = "player's"]
  /\ autosave' = SaveDebounced(autosave)
  /\ UNCHANGED <<booting, blocked, disk, offer, dialog, review, rows, past>>

(* addItemToFinalList pushes into the array the app holds: no update, no save. *)
AddItemToFinalList ==
  /\ OnPage("filter-articles") /\ ~game.filtered
  /\ game' = [game EXCEPT !.filtered = TRUE]
  /\ UNCHANGED <<booting, where, saving, asking, review, server, past>>

(* The last card always lets at least its article through (ArticleFilter). *)
FilteringFinished ==
  /\ OnPage("filter-articles") /\ game.filtered
  /\ GoTo(<<AreaBallot>>)
  /\ OpenSelectionInfoDialog
  /\ UNCHANGED <<booting, blocked, game, saving, offer, review, rows, past>>

SelectedItemsChanged(to) ==
  /\ OnPage("area-ballot") /\ game.selected # to
  /\ game' = [game EXCEPT !.selected = to]
  /\ autosave' = SaveDebounced(autosave)
  /\ UNCHANGED <<booting, where, disk, asking, review, server, past>>

(* _postVoteToServer: no click is refused while a request is under way. *)
PostConstitution ==
  /\ OnPage("area-ballot") /\ game.selected # "nobody's"
  /\ Len(posts) + Len(rows) <= MaxPosts
  /\ posts' = Append(posts, [attached |-> TRUE, whose |-> game.selected, id |-> NoSub])
  /\ UNCHANGED <<booting, where, game, saving, asking, review, rows, past>>

CreateConstitution_AreaId(i) ==
  /\ i \in DOMAIN posts /\ posts[i].id = NoSub
  /\ rows' = Append(rows, posts[i].whose)
  /\ posts' = [posts EXCEPT ![i].id = 1]
  /\ UNCHANGED <<booting, where, game, saving, asking, review, past>>

(* post_constitution creates a row for every request. *)
CreateConstitution(i) ==
  /\ i \in DOMAIN posts /\ posts[i].id = NoSub
  /\ rows' = Append(rows, posts[i].whose)
  /\ posts' = [posts EXCEPT ![i].id = Len(rows')]
  /\ UNCHANGED <<booting, where, game, saving, asking, review, past>>

(* The answer, heard when its ballot is still on the page: submitBallot. *)
PostAnswered(i) ==
  /\ i \in DOMAIN posts /\ posts[i].id # NoSub /\ ~dirty
  /\ IF posts[i].attached
     THEN /\ hist' = Push(hist, Review(posts[i].id))
          /\ page' = "review" /\ sub' = posts[i].id /\ dirty' = TRUE
          /\ picked' = FALSE
          /\ posts' = [j \in 1 .. Len(posts) - 1 |->
                         [RemoveAt(posts, i)[j] EXCEPT !.attached = FALSE]]
     ELSE posts' = RemoveAt(posts, i) /\ UNCHANGED <<hist, page, sub, dirty, picked>>
  /\ UNCHANGED <<booting, blocked, game, saving, offer, dialog, review, rows, past>>

(* The request or its answer is lost, or the server has no session: an      *)
(* error at most.                                                           *)
PostLost(i) ==
  /\ i \in DOMAIN posts
  /\ posts' = RemoveAt(posts, i)
  /\ UNCHANGED <<booting, where, game, saving, asking, review, rows, past>>

ResetSelectArticles ==
  /\ OnPage("review") /\ game.country # "nobody's" /\ ~review.shown
  /\ game' = [game EXCEPT !.selected = "nobody's"]
  /\ GoTo(<<AreaBallot>>)
  /\ autosave' = SaveDebounced(autosave)
  /\ UNCHANGED <<booting, blocked, disk, offer, dialog, review, rows, past>>

RestartGame == OnPage("review") /\ game.country # "nobody's" /\ OneLoadMore /\ Open(Root, "none")

-----------------------------------------------------------------------------
(***************************************************************************)
(* Shared reviews.                                                         *)
(***************************************************************************)

(* The timers ask once the boot has completed, the last of them in any      *)
(* case, for the sub path there is then.                                    *)
PollReview ==
  /\ review.polling /\ ~dirty
  /\ review' = [review EXCEPT !.polling = FALSE, !.asked = @ \union {sub}, !.getting = TRUE]
  /\ UNCHANGED <<booting, where, game, saving, asking, server, past>>

GotReview(id) ==
  /\ id \in review.asked \intersect (1 .. Len(rows)) /\ ~dirty
  /\ review' = [review EXCEPT !.asked = @ \ {id}, !.getting = FALSE, !.shown = TRUE]
  /\ game' = [game EXCEPT !.country = rows[id], !.selected = rows[id]]
  /\ autosave' = SaveDebounced(autosave)
  /\ IF page = "review" /\ boot = "ready"
     THEN hist' = Push(hist, Here(hist)) /\ blocked' = TRUE
     ELSE UNCHANGED <<hist, blocked>>
  /\ strayed' = (strayed \/ Here(hist) # Review(id))
  /\ UNCHANGED <<booting, page, sub, dirty, disk, asking, server, loads, led>>

ReviewLost(id) ==
  /\ id \in review.asked /\ ~dirty
  /\ review' = [review EXCEPT !.asked = @ \ {id}, !.getting = FALSE]
  /\ UNCHANGED <<booting, where, game, saving, asking, server, past>>

-----------------------------------------------------------------------------
(* The player opens the start page for the first time; someone else's       *)
(* constitution is in the table.                                            *)
Init ==
  /\ boot = "fetching" /\ language = "en" /\ texts = "en" /\ override = "none"
  /\ hist = [entries |-> <<Root, Quiz>>, at |-> 2]
  /\ page = "/" /\ sub = NoSub /\ dirty = TRUE /\ blocked = FALSE
  /\ game = NewGame
  /\ autosave = [disabled |-> TRUE, timer |-> FALSE] /\ disk = NoSave
  /\ offer = "due" /\ dialog = "none" /\ picked = FALSE
  /\ review = [polling |-> FALSE, asked |-> {}, getting |-> FALSE, shown |-> FALSE]
  /\ rows = <<"another's">> /\ posts = <<>>
  /\ loads = 1 /\ strayed = FALSE /\ led = [now |-> FALSE, saved |-> FALSE]

Play ==
  \/ FinishQuiz \/ PickCountry \/ CreateCountryFinished
  \/ AddItemToFinalList \/ FilteringFinished \/ OpenArticleItem
  \/ \E to \in {"nobody's", "player's"} : SelectedItemsChanged(to)
  \/ PostConstitution \/ ResetSelectArticles \/ RestartGame
  \/ Back \/ Forward \/ OpenLink \/ Reload

Decide ==
  \/ RestoreGame \/ OpenNewGame \/ NextDialog \/ SkipTutorial
  \/ \E l \in Supported : SelectLocale(l)

Background ==
  \/ Updated \/ VotingCompleted \/ BootAnswered \/ BootFailed \/ OfferSavedGame \/ AutoSave
  \/ PollReview
  \/ \E id \in Id : GotReview(id) \/ ReviewLost(id)
  \/ \E i \in 1 .. MaxPosts : CreateConstitution(i) \/ PostAnswered(i) \/ PostLost(i)

Next == Play \/ Decide \/ Background

(* Microtasks and timers run, and a request is answered or fails; the       *)
(* player need not act.  A timer that is due fires however often a          *)
(* microtask comes before it.                                               *)
Fairness ==
  /\ WF_vars(Updated \/ VotingCompleted)
  /\ WF_vars(BootAnswered \/ BootFailed)
  /\ SF_vars(AutoSave)

Spec == Init /\ [][Next]_vars /\ Fairness

-----------------------------------------------------------------------------
Settled == ~dirty /\ boot = "ready"
Stocked(p, g) ==
  /\ p = "area-ballot" => g.filtered /\ g.country # "nobody's"
  /\ p = "filter-articles" => g.country # "nobody's"
Needs(p, g, ledPast) ==
  /\ p # "quiz" => g.quizDone \/ ledPast
  /\ Stocked(p, g)

(* Whatever way the player came by, the page below the guards has what it   *)
(* works on: a ballot has filtered articles and a country to judge them by, *)
(* a filter a country, and the quiz is done, unless the document was loaded *)
(* at an address with a sub path, or one was gone back to, before it was:   *)
(* the guard of the quiz lets those pass.                                   *)
PrerequisitesMet == Settled => Needs(page, game, led.now)

(* The saved game can be gone back to: its path and its stages are written  *)
(* together, so that the guards let the page it names be restored, and a    *)
(* review it names is one that the server has.  Only a game that was led    *)
(* past the quiz may be sent to the quiz when it is restored.               *)
SavedGameIsResumable ==
  disk # NoSave =>
    /\ Needs(disk.path[1], disk.game, led.saved)
    /\ disk.path[1] = "review" => disk.path[2] \in DOMAIN rows

(* The review that is shown of the player's country is of a constitution of *)
(* the player's, through posts, saved games and the browser's history,      *)
(* unless the answer for a shared review came to another page.              *)
OwnReviewIsPosted ==
  ~strayed /\ ~dirty /\ page = "review" /\ game.country = "player's" =>
    sub \in DOMAIN rows /\ rows[sub] = "player's"

(* While the player is asked whether to go on with the saved game, nothing  *)
(* writes over it, the page and its guards running underneath.              *)
SavedGameSurvivesTheOffer ==
  [][offer = "open" /\ offer' = "open" => disk' = disk]_vars

(* The redirects of the guards come to an end.                              *)
GuardsSettle == dirty ~> ~dirty

(* A country made while the game is saved by itself is in the saved game    *)
(* sooner or later, unless the document is left before or the late answer   *)
(* for a shared review takes the country's place.                           *)
CountryIsSaved ==
  (game.country = "player's" /\ ~autosave.disabled /\ ~review.shown)
    ~> (game.country # "player's" \/ (disk # NoSave /\ disk.game.country = "player's"))

=============================================================================
