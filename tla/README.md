# Verification of the policy game "Make Your Constitution"

These TLA+ modules model the client of the game (`src/public/src/components`) as
its code is written: how a player earns choice points in a quiz, picks a country,
filters the articles of a constitution, spends the points on them, submits the
result and sees it judged; how the app guards, saves and restores all that; and
the viewer of posts. TLC checks small instances of every module; TLAPS proves
the invariants of all ten modules with a state, the points' refinement of an
account and what the app promises of a saved game for every value of their
constants, some of them under conditions that the section on proofs names.

Paths below are relative to `src/public/src/components` unless they start with
`src/`.

## The system and its parts

The client is a tree of LitElements. `oap-app` owns the game: pages, points, the
filtered and the selected articles, the record of bonuses and penalties, the
autosave. Each page is an element that is made anew when its page is shown and
reports to the app by DOM events, which the app handles in the same turn. Nothing
runs in parallel; what makes the code hard is that almost every handler ends in
a timer (`setTimeout`, an animation, an `await`), and that the player, the
browser's back and forward buttons, late answers and a reload may come between
any two.

| component | state | operations | talks to |
|---|---|---|---|
| `oap-app.js` | page and sub path, `totalChoicePoints`, `usedChoicePoints`, `savedChoicePoints`, `filteredItems`, `selectedItems`, `usedBonusesAndPenalties`, `country`, `quizDone`, language, dialogs, the saved game in `localStorage` | boot, event handlers of the pages, page guards, history, tutorial, autosave (5 s after a change), saved-game dialog, reload, "try again", shared reviews | every page; the server |
| `policy-quiz/oap-policy-quiz.js`, `3d-utils/oap-countdown-timer-3d.js` | question, answers, buttons disabled, countdown, feedback timer | start, answer, run out of time, next question, finish | app: right answer, quiz finished |
| `country-creation/oap-country-creation.js` | the list of countries (one object with the configuration), the entry picked, `submitDisabled` | pick, type, slide, submit | app: country created |
| `filter-articles/*` | the stack of cards, two positions, items left, one-shot locks, automatic selection, the cards' styles | swipe, gesture, left/right button, manual/automatic button, refill, end | app: add item, bonus of a module, finished |
| `select-articles/oap-ballot.js`, `oap-article-item.js` | available cards, marks, blocked cards, the timers of a click | toggle, pick an option of a series, retry, submit, scan over the cards | budget: toggle; app: effects used; server: post |
| `select-articles/oap-3d-budget.js` | selected articles, used and total points, and what is drawn of them | `toggleBudgetItem`, blocks, number, banner | ballot: selected / removed; app: points changed |
| `oap-bonuses-and-penalties.js`, `review/*` | none (functions); the review's results | effects of an article for a country, completion scores, verdicts | ballot, app |
| `yp-post/*` | a post, its points, description, media players | fetch, late answers, resize, play, vote | another server |
| `src/app/controllers/constitutions_controller.rb` | constitutions, one row per post | boot, post, review | database |
| `src/app/controllers/votes_controller.rb`, `src/app/models` | votes of the program the game descends from | post, authenticate (SAML) | not called by the game |

What has to be right in each:

* **Points.** No sequence of clicks, late timers, retries and reloads puts the
  player into debt, pays a bonus twice, or gives an article away; the points
  used are the prices of what is selected.
* **Quiz.** A question is answered once although the countdown and the player
  race; each pass of the quiz pays at most what it is worth; a running countdown
  brings the quiz to an end.
* **Filter.** The card the player sees is the item the decision is about; no
  item is taken twice; a module's reward is paid once; the card on top is the one
  that follows the finger.
* **Ballot cards.** Each filtered article is on a card or in the constitution;
  at most one article of an exclusive series is selected; the scan that blocks
  the others ends.
* **Game.** A page is shown only with what it needs; the guards' redirects end;
  a game is saved in the end, can be resumed, and is not written over while it
  is offered; the player is brought to the review of their own post.
* **Country, rules, review.** What an article is said to give or cost is what is
  paid, and the verdict follows from what was paid.
* **Viewer.** The page shows one post with its own points, text and media;
  answers out of order, resizes and recycled elements leave nothing behind.

`PROJECT.json` lists the hazards at their lines.

## Modules and how they correspond to the code

### `BallotLedger` — points and selection

State: `total`, `used`, `saved`, `usedKeys` are the four numbers and records of
`oap-app`; the copies in `oap-3d-budget` and `oap-ballot` follow in the microtask
after a change and are not separate variables. `live` and `orphans` are
`selectedItems`: `toggleBudgetItem` finds an article by object identity and
removes it by id, and a game restored from JSON has two objects for one selected
article. `cards`, `marked`, `marking`, `leaving`, `checking` are the available
list, the remove buttons and the 600, 450 and 600 ms timers of a click; `stale`
are timers of a ballot that was left, which still fire. `disk` is the saved game.

Actions: `SelectArticle`, `DeselectArticle` (`toggleBudgetItem` and what the
ballot does on its event), `RemoveFromAvailable`, `MarkInBudget`,
`CheckBonusesAndPenalties`, `StaleCheck` (timers), `FinishFiltering`, `GoBack`,
`GoForward`, `SubmitBallot`, `ResetSelectArticles` (pages and "try again"),
`AutoSave`, `RestoreGame`.

Abstractions: the effects of an article are two numbers, `Bonus` and `Penalty`
(their sum over the distinct rules that match the country); `Cost` and `BonusSum`
are additive extensions of prices and bonuses to sets, which the assumption
states and the proofs use. Points earned by going back to the quiz, and the
duplicates of a second filtering, are left to the other modules.

### `ChoicePointAccount` — what the ledger promises

An account with a balance: choosing charges, dropping repays the same price,
judging (bonus and penalty) happens once per article and stops at zero, a retry
or reload opens a new account with at most the points earned.
`BallotLedger!ImplementsAccount` is the refinement, with
`balance <- total - used`, `constitution <- live`, `judged <- usedKeys`.

### `PolicyQuiz`

`index`, `disabled`, `right`, `wrong`, `feedback` are the quiz element;
`stage`, `font`, `counting`, `secondsLeft`, `rewinds` the scene, the separately
fetched font and the countdown object with its tweens; `page`, `dialog`,
`total`, `quizDone`, `disk` the app. `Answer` is the whole of `submitAnswer`,
the exception included that it throws while the countdown object is missing.
`LoadFont`, `BuildScene`, `CreateCountDownTimer`, `Tick`, `RanOutOfTime`,
`ResetAfterStop`, `NextQuestion`, `QuizFinished` are its callbacks;
`CloseWelcome`, `OpenNewGame`, `BounceBack`, `BackToQuiz`, `ForwardFromQuiz`,
`AutoSave`, `Reload`, `RestoreGame` what the app and the browser do. Two
zero-delay timers are folded into the steps that set them.

### `ArticleFilter`

`shown` and `pos` are the visible stack, `left` the items not yet in it, `at`
the index of the item a decision is about, `timers` the pending timers in the
order they fire (they all last 300 or 310 ms, so one queue is enough), `auto`,
`off`, `pressed`, `attached`, `touch` the locks and listeners. A timer's whole
callback is one action (`SwipeTimer`, `Refill`, `ButtonTimer`, `EnableTimer`,
`AutoTimer`), as are `ClickLeft`, `ClickRight`, `TouchSwipe`,
`StartManualSelection`, `StartAutoSelection`, `LeavePage`, `ReturnToPage` and
`RestoreOnPage`. `known` are the filtered items that are the same objects as the
configuration's, which a restored game's are not.

The buttons of all headers have the same two ids, and the element looks a button
up by its id (`this.$$`, `oap-swipable-cards.js:294-309`): it disables, and 750 ms
later enables, the button of the first header it renders (`Foremost`, `Found`),
which may be one that was swiped away and waits for its refill. `strays` counts
those mistakes, for the property; a timer keeps the header that was pressed for
that count only. A refill takes the first card's buttons with it.

### `BallotSeries` — cards and exclusive series

`processBallotItems` is a fold that turns runs of articles with equal
`exclusive_ids` into one card. `processed` is that list, `elements` what lit-html
rendered from it: an element stays as long as the key of its entry does, and a
swap (`PickOption`) changes entry and element without a render. `scans` are runs
of `setStateOfRemainingItems`: `TakeSnapshot` reads the selected ids once,
`VisitCard` looks at the next element of the live list and looks the snapshot's
places up in the selection as it is by then, `MissCard` starts another scan when
the list became too short. Scans wait 125 ms and then 5 ms per card, so they
keep their order; otherwise they interleave with everything, since the 5 ms
add up to a second on a real ballot. A click the budget refuses changes nothing
here; prices are in `BallotLedger`.

### `CardStack` — the filter's stack as it is drawn

What `ArticleFilter` decides about, frame by frame: `visible` are the cards in
the stack, `toCome` those that are not, `place` the number of cards swiped away
that still are in it; `look` is the style of each
card's element (place, depth, `zIndex`), `frames` the callbacks of the next
animation frame, `refills` the 300 ms timers, `fingers`, `touching`, `moved` the
gesture, `current` is `currentElementObj`. `Swipe` stands for `onSwipeLeft`,
`-Right` and `-Top`; `GestureStart`, `GestureMove`, `GestureEnd` and `BackToMiddle`
for the handlers of the same name. A transform is bound to the element it was
asked for, an update to whatever is in the stack when the frame comes: that is
what can go wrong. `displaced` remembers the two gestures after which the code
leaves the card where it is.

### `BudgetScene` — what the budget draws

`entering` are blocks made by `_addItemToDiv`, which enter 30 ms later;
`blocks` is `itemsInScene`, each with the total its width was computed from;
`number` the points shown and their colour; `soon`, `banner`, `tweens` the banner
of a bonus and its timers and tweens; `away`, `moves` the two tweens by which the
blocks make room. `ToggleBudgetItem`, `CheckBonusesAndPenalties`, `LeavePage`,
`ReturnToPage`, `ResetSelectArticles` change it, `FontArrives`, `BlockEnters`,
`BonusPenalty3dText`, `BannerFlies`, `BannerIsGone`, `MoveEnds` are callbacks.
`hurried` remembers the one circumstance in which the code leaves a stale width.
`firstUpdated` adds the blocks of the articles chosen once (`FirstUpdated`) and
then calls `installMediaQueryWatcher`, which the module never imports
(`oap-3d-budget.js:578`): the call throws, no watcher is installed, and so nothing
the code would do on a change of the window is modelled.

### `GameFlow` — the app

`hist` is the browser's history, `page`, `sub`, `dirty` the app's page between a
change of `_page` and `updated()`, `game` the part of the state that is saved
(as far as the guards read it), `disk` the saved game, `autosave` the debounce
timer and `disableAutoSave`, `offer` and `dialog` the saved-game dialog and the
master dialog, `boot`, `language`, `texts`, `override` the boot request, `review`
and `rows` shared reviews and the server's table, `posts` requests under way.
`Updated` is the whole of `updated()`: the guards in their order (`Redirects`),
the debounced save, the request for a review, the dialogs. `_locationChanged` is
in `GoTo` and `Arrive`; `BootAnswered`, `OfferSavedGame`, `RestoreGame`,
`OpenNewGame`, `AutoSave`, `GotReview`, `PostAnswered` and so on are the handlers.
The server is here as well: `TextsSent` (boot), `CreateConstitution` (one row for
each request that arrives), `GotReview` and `ReviewLost`. A request or its answer
may be lost at any time. `strayed` remembers that the answer for a shared review
came to another page, after which the player's country is no longer the game's; `led`
that an address with a sub path led the game, or the saved one, past the guard of
the quiz (`oap-app.js:1242`), which looks at the sub path before it redirects.
The paths a link may have are a constant; the one review there is a link to
before the player posts is the first row of the table (`LinksAssumption`). The
history the browser keeps has at least two entries (`BoundsAssumption`), since
the app itself makes two at its start.

### `AttitudeRules` and `CountryGame`

`AttitudeRules` has no state: the rules' spellings (`FixupRules`), the levels,
the effects of an article (`GetBonusesAndPenaltiesForItem`), the sums, the
completion score and the verdict (`GetResultsForReview`), each as the code
computes it; `BonusApplies` and `PenaltyApplies` differ as the code's two loops
do. `CountryGame` uses it: a country is picked or made (`CountrySelected`,
`SetField`, `ChangeAttitute`), in place in the list of the configuration, articles
are bought at their price and dropped (`Choose`, `Deselect`), their effects are
paid one by one 600 ms later (`CheckBonusesAndPenalties`), and the review judges.
`PayEffect` is the loop of `_checkBonusesAndPenalties` (`oap-ballot.js:485-520`):
an effect whose key is in `usedKeys` is skipped, a penalty takes no point that is
used. `forgiven` adds up what penalties were short of; `unpaid` remembers that a
ballot was left with a check to come, whose late run (`StaleCheck`) records keys
without the points, or was tried again, which resets the points and keeps the
keys. Back and Forward let the player change the country under a constitution.

### `PostViewer` and `MediaElement`

`PostViewer` is `yp-post` with its points: `postId` what the app asks for, `post`
what is shown, `lists` the four lists of points, `description` the text element,
`ajax` the requests under way and the spinners, `largeMode` the media query.
Answers do not say what they were asked for, come in any order, or fail; the
window is resized meanwhile. `past` remembers what the properties leave out.

`SetPost` tells the elements in the order of the page. Once the player in the
cover was started (`PlayCover`), the cover's observer reports the time played to
`window.appGlobals`, which does not exist, and throws (`Throws`;
`yp-post-cover-media.js:551`, `yp-media-formats-behavior.js:13-40`). What comes
after the cover is then not told of the change: description, vote buttons
(`"actions"`) and points (`"points"` in `unflushed`); and when it was `post = null`
of `_postIdChanged` that threw, the next post is not even asked for. The next
change that a points element or the vote buttons see of their own (an answer, a
resize, a vote) tells them of the post as it is by then. `DescriptionOf` includes
the status that the header appends to a law issue's text.
A `Null` list is one that was not made yet (`NullAssumption`: it is no list).
`MediaElement` is one element with a player, a recycled `yp-point` or the cover:
`item`, `user`, `media`, `player` what it was given and shows, `listeners`,
`referenced`, `pending` the player's listeners and the 200 ms timers that attach
them. The cover goes from a post to none and back, and, when two posts were asked
for, from one post straight to another (`CoverChanged`). The server of the posts and the players are outside of `src/`.

### `Sublists`

What the array functions do of which the code makes its lists: `FilterSeq` is
`filter`, `InsertAfter` a `push` followed by the stable sort of a list that was
sorted before. `BudgetScene`, `BallotSeries`, `PostViewer` and `ArticleFilter` use
it; `SublistProofs` has the lemmas about it.

### How they compose

The modules share the boundary the code has: events to `oap-app`. `GameFlow`
takes of each page only what the guards read (quiz done, country, filtered,
selected), `BallotLedger` takes the points the quiz and the filter left
(`StartPoints`), and the numbers of `AttitudeRules` (`Bonus`, `Penalty`).
`CountryGame` extends `AttitudeRules`; `BallotLedger` implements
`ChoicePointAccount`. `ArticleFilter` and `CardStack` are two views of one
element, of its decisions and of its drawing, as `BallotLedger` and `BudgetScene`
are of the budget; each of a pair repeats the other's control as far as it needs
it. A product of them all has too many states for TLC and no property that would
need it.

## Runs

A `MC` module gives the constants of each module; the properties are in the
module itself.

| run | instance | shows |
|---|---|---|
| `ledger` | 3 articles, no reload | the points used are the price of the constitution; every article is on a card or selected; effects of a choice are recorded unless the player leaves |
| `ledger_restore` | 2 articles, one reload of a save made at any moment | types; never in debt; no bonus twice; no free article; refinement of the account |
| `quiz` | 3 questions of 2 s, 3 passes | each question answered once; pay per pass; the late font discards nothing that counted; the quiz ends |
| `filter` | 2 modules, 6 items, stack of 3, one swipe over another, one press that disables another header's button, 2 showings | position and card agree while cards remain; nothing filtered twice per showing; one reward per module and one per button mistaken for another; automatic selection ends |
| `cards` | 6 cards, stack of 4, frames, refills, two fingers | at rest the card to decide about is on top, in place, and the one that follows a finger; the others behind it in order |
| `series` | 2 lists, 2 showings, 3 scans | cards and list agree; no filtered article lost; scans end; one article per series on the first showing |
| `scene` | 2 articles, 2 bonuses, 2 showings | blocks, widths and number show the constitution and the points; the banner goes and the blocks come back |
| `flow` | 2 languages and a link with a third, 2 documents, 1 post, history of 3 | pages have what they need; redirects end; the saved game can be resumed and survives the offer; own review; the country is saved |
| `country` | 3 countries, 3 articles, 2 chosen at a time, 1 return to the ballot or the country | a constitution is judged by what the points gained and lost; an article without a penalty never worsens the verdict |
| `post` | 3 posts, 2 requests of a kind at a time, a cover that throws | one post on the page; its description and all its points are shown; spinners stop |
| `media` | 8 items, 2 timers, 3 listeners | a recycled element shows its own author and media; a player is listened to once |
| `country_law` | as `country` | violated: a penalty for law and order is never paid |

`country_law` is a divergence between the code and what its texts tell the player;
`findings` in `PROJECT.json` quotes both.

The type invariants of `BallotLedger` and `PolicyQuiz` are properties of runs
(and theorems). Those of `ArticleFilter`, `GameFlow`, `CountryGame`, `PostViewer`
(`TypeOK`), `BallotSeries` (`SeriesTypeOK`), `MediaElement` (`MediaTypeOK`) and
`CardStack` (`StackTypeOK`) hold under the configurations above, with that
invariant added; each inductive invariant has a part that keeps what its proof
needs of the types.

### Known divergences without a run

Met while modelling, each stated at its place as a case that a property leaves
out, or visible in a model without being a property.

* Quiz and filter: a right answer before the countdown exists throws before it
  is paid; two fast swipes after the last refill separate card and decision; the
  filter shown again may offer nothing, or say it is complete at once; both
  buttons of a module's card pressed make the automatic selection skip the
  module's first article; the buttons are looked up by an id that all headers
  share, so that while a header that was swiped away waits for its refill the next
  one's button stays enabled after a press, or is enabled early by the timer of
  the former, and the module's five points can be had twice; between two quick swipes the former card is back as
  the current one until the second refill; a gesture that ends exactly above its
  start, or a second finger, leaves the card displaced; a card that rolls back
  lies 7 px lower; the buttons' listeners are never detached.
* Ballot: after "try again" an article neither gives its bonus nor costs its
  penalty (`oap-app.js:821` leaves the record of effects); after a reload an
  article is paid for twice; on a ballot shown again two articles of one series
  can be chosen; a series at the end of the list has no card; the card of a
  removed article keeps its remove button; a scan may block a card by the wrong
  place of a selection that changed under it.
* Budget scene: `firstUpdated` ends in an exception (`oap-3d-budget.js:578`), so
  that the scene never follows the window; two blocks of one article side by side
  would lose one only, which does not arise; a width from the old total when it changes within 30 ms of
  a choice; a spot light for the first bonus only; a render loop per showing
  that never stops; a leaked tween that hides a later banner.
* App: whoever opened a link with a sub path is past the quiz for good
  (`_subPath` is never cleared, `oap-app.js:1348`); a game saved
  that way with the quiz to do may be sent to the quiz when it is restored; Back to `/` leaves a blank page; a document booted on a review never enables the autosave; a late answer
  for a shared review replaces the player's country and selection; an unknown
  `?locale=` is stored and fails every later boot; a language chosen in the
  welcome dialog has no countries until the next boot (`oap-app.js:505`); "next"
  in the middle of the tutorial dismisses it; "try again" and then Back shows the
  review without articles; two clicks on submit create two rows; a game saved on
  the player's own review, restored there and reloaded before its answer came,
  can be left for a new one by Back and be saved without a country when Forward
  shows the review again.
* Country and rules: an article that has one effect twice is paid once and judged
  twice; effects of an article that was dropped stay paid, the review does not
  know of them; a penalty that the points do not cover is judged in full; a low
  bonus at attitude 0 never applies; the submit button
  is not disabled again; the player's country is changed in place under the
  game; a slider cannot reach the 10 that countries of the list have.
* Viewer: once the player in the cover was started, the next change of the post
  ends in an exception: the post asked for may never be fetched, and the former
  one's text and points stay on the page (the points until an answer or a resize
  tells them); a late answer of a former post fills the page; a resize while
  loading empties the lists; a window that becomes small shows no points until the next
  resize; a recycled point keeps its former media once a player was started;
  changes within 200 ms leave listeners behind; a vote disables the buttons and
  throws.

### Bounds, and why they are enough

* Articles: two or three suffice for every relation the ledger has. `a1` pays
  for itself, `a2` is fined more than it may leave (so that the clamp is
  reached), `a3` has no effects; with 6 points not all of them fit together
  before the bonus.
* `MaxRestores = 1`: one reload makes orphans; a second adds further orphans and
  no new kind of state. The proofs cover any number.
* Quiz: three questions are a first, an inner and a last one; the countdown
  needs one tick that is not the last. Three passes: a first, a repeated, and
  one after a restored game. The proofs cover any number.
* Filter: a stack of 3 instead of 5 (the proofs cover any) and a last module longer than the stack, as
  in the content (44 articles); a module of one article and one of three;
  `MaxFast = 1`, one swipe begun before the former one's refill; `MaxStrays = 1`,
  one press that disables the former header's button (the timers that enable
  another's are not bounded). Without `strays` the property is violated: both ways
  to be paid twice are reached.
* Series: two series side by side ended by a module's header, and one series
  ended by a plain article. `MaxMounts = 2` reaches each way to show the ballot
  again; `MaxScans = 3` makes the player wait while three scans run.
* Cards: six cards and a stack of 4 instead of 5: two refills add a card and
  the rest of the stack runs empty; three callbacks in a frame are two gestures'
  or a swipe's and another one.
* Scene: two articles of different modules in either order; `MaxAwards = 2`, the
  second while the first one's banner flies or is about to; two showings, the
  second with articles chosen or after "try again".
* Flow: `MaxLoads = 2` is one reload or link after the start; `HistoryLimit = 3`
  has an entry before and one behind the current one; one post of the player
  beside a row of somebody else; every page, and links past the guards.
* Country: one country with a 10, one with a 0, and the player's own; rules of
  each level and spelling; three articles, two of them at a time, so that a module
  is strong, weak or empty. With 12 points a penalty meets points that are used
  and the clamp is reached; `MaxReturns = 1`: one ballot left or tried again makes
  late checks and keys without points, a second adds no new kind of state. (The
  proof has no such bounds.)
* Viewer: posts with points on both sides, on one and none, with and without a
  description, a law issue, and one with a player in the cover, after which a
  change ends in the exception whatever comes next; two requests of a kind are
  what it takes for one to overtake the other. `MaxPending = 2` timers,
  `MaxListeners = 3`.

`CHECK_DEADLOCK FALSE` is set where the player really may end up with nothing
to do within the bound: the last pass of the quiz is over, the filter page was
shown as often as allowed, the ballot or the stack has no card left, the game
has been loaded and posted as often as allowed. `BallotLedger` is checked for
deadlock.

### Fairness

Only what the browser does by itself is fair: timers, tweens and microtasks
(`RemoveFromAvailable`, `MarkInBudget` and the checks of the ledger; the
countdown, feedback and scene timers of the quiz; `TimerFires` of the filter;
`ScanStep` of the series; each kind of timer and tween of the scene, which
`renderScene` updates in every frame; `Updated` of the app) and requests, which
end in an answer or an error (`BootAnswered` or `BootFailed`, `PostAnswer`,
`PointsAnswer`). Each is weak fairness: what is set fires, unless an action takes
it away. The autosave alone is strongly fair: its timer fires between
microtasks, which disable it again and again without taking it away. No click,
page change or reload, and not the arrival of the font, is fair.

## Proofs

Each proof module extends the module it is about. A theorem holds for every value
of the constants that the module's assumptions allow, whatever the bounds of the
runs are; each invariant was an invariant of a run before it was proved.

`BallotLedgerProofs`, for all sets of articles, prices, effects and numbers of
reloads that satisfy `LedgerAssumption`:

* `LedgerTypeCorrect`, `LedgerNeverOverspent`, `LedgerNoBonusTwice`,
  `LedgerNoFreeArticle` from the inductive invariant `LedgerInv`, the conjunction
  of the four: that the points stay natural needs that the articles toggled in
  this load were paid for, that they were needs the price of a removed article
  to be part of what was used, and the saved game has to satisfy the same bounds
  because a reload turns it into the state.
* `LedgerKeepsEveryArticle` from `PlacesInv`: a card's removal timer runs only
  for an article that is selected.
* `LedgerIsExact`, under `MaxRestores = 0`: the points used are exactly the cost
  of the selection, which needs that a retry resets both, and so that
  `savedChoicePoints` was recorded before anything could be bought (`ExactInv`).
* `LedgerImplementsAccount`: every step of the ledger is a step of
  `ChoicePointAccount` or leaves its variables alone; the reload maps to
  `Reopen`, which needs that the saved keys are among the present ones.

`PolicyQuizProofs`, for every number of questions, seconds, start points and
passes that satisfies `QuizAssumption`:

* `QuizTypeCorrect`, `QuizAnsweredOnce`, `QuizPaidPerPass`,
  `QuizStartDiscardsNothing` from `QuizInv`. `Phases` says what excludes what (a
  countdown runs only while the buttons are enabled and no feedback is shown);
  `Points` bounds the points by the former passes and the questions answered in
  this one, which is what makes the bound on the whole inductive.

`ArticleFilterProofs`, for every list of items, every stack and every number of
showings:

* `FilterDoesNotDrift`: `PositionInv` counts the refills to come. As long as
  there are cards to add, the items decided about are those that left the stack
  and one for each refill in the queue: a swipe adds to both sides, a refill
  takes from both, and no other timer is one. `StackInv` says that stack and rest
  are the end of the list, so that the card on top is the item.
* `FilterTakesEachOnce`: `CountInv` says that an item whose decision is still to
  come was not filtered in this showing; a decision is about the next item, and
  a refill adds headers only.
* `FilterPaysModulesAndStrays`, on the first showing: each reward has spent a
  module, whose button is disabled or whose card was taken away, or a stray
  (`Afforded`, of `BonusInv`). At most one button is found (`FoundOne`), so that a
  stray frees one module at most (`OneForgiven`). A press that finds the pressed
  header's own button is followed by a swipe; the two lists of counts in `Follows`
  say how many refills and swipes come before each timer of the queue, so that
  without a stray a button is enabled only after the refill that takes its card
  away. `LastModuleIsLong` is assumed: the last module has at least
  as many articles as the stack has cards (44 against 5 in the content). Without it
  no refill may come for the last header, and two swipes in flight bring it back
  on top with its button enabled.

and for every deck, a stack of up to five cards and every bound of `CardStack`:

* `StackInvariant` and `StackOrdered` from `CardsInv`: the cards in the stack are a
  window on the deck (`Dealing`); a card that was swiped is away or will be
  (`AllAway`), and the others are where they belong or will be (`InPlace`). Each
  of these speaks of the style an element has *after* the callbacks that wait
  (`Settles`): the last of them that concerns a card decides where it is, so that
  each new callback, put at the end, may be looked at by itself, and a frame
  changes nothing that has settled.

`CountryGameProofs`, for every list of countries, all articles with any columns of
rules and all modules:

* `GameJudgedAsPaid` from `GameInv` (types, `Places`, `Due`, `Ledger`, `Judged`):
  as long as nothing was left unpaid, the points, less what penalties were let
  off, are the starting points and the worth of each recorded key, once (`Ledger`),
  and each chosen article without a check to come has recorded all its effects
  under the country of its choice, whose attitudes never change if it is one of
  the list (`Recorded`, `Places`). The review recomputes the effects as a fold over
  the selected articles and, for each, over its effects (`Judged`); where the
  recorded keys are those of the selected articles, each with different effects,
  the two sums agree.
* `GameVerdictIsMonotone`: the balance without an article is smaller by its net
  (`BalanceWithout`), a module's count does not grow (`CountedWithout`), and the
  verdict, made of the balance and the number of weak modules, follows
  (`VerdictsOrdered`).

`GameFlowProofs`, for every set of languages and links, length of the history
and number of documents and posts:

* `FlowPrerequisitesMet`, `FlowSavedGameIsResumable` and
  `FlowSavedGameSurvivesTheOffer` from `FlowInv`: the page is the one of the
  current history entry (`PageIsEntry`), whoever filtered has a country
  (`GuardsHold`, which holds between two microtasks only), whoever the quiz is due
  for is at it or on the way to it, and a game saved before the quiz was saved at
  it unless an address with a sub path had led past (`QuizInv`), and each review that
  history, saved game or a request names is in the server's table, which only
  grows (`ReviewsExist`). The guards are followed redirect by redirect
  (`StageKeeps`), since a save may find any of their intermediate results.
* `FlowOwnReviewIsPosted` adds `OwnInv`: as long as no answer strayed, somebody
  else's review and the player's own game are never in one document: either the
  document was opened at that review and everything in it is (`Visiting`), or
  history, saved game and requests name rows of the player (`AtHome`, `Kept`).

`BudgetSceneProofs`, for all articles, prices, bonuses and numbers of showings:

* `SceneNumberIsPointsLeft` from `NumberInv`: the number is made anew whenever
  the points change, and a banner gives it back its colour.
* `SceneWidthsAreOfTotal` and `SceneBlocksShowSelection` from invariants over
  the blocks in the scene and those about to enter, taken together: each
  selected article has one of either, in the order of the modules, which needs
  that a removal finds the one block and that the sort puts a new one in place.

The same module has the other half of the ballot, `BallotSeries`, for every list
of articles, every way to form series of them and every set of lists the filter
may hand over:

* `SeriesInvariant` from `BallotInv`: the members of two cards have nothing in
  common, elements and list agree entry by entry (`Aligned`), and an article
  whose card is about to be removed has a card that is covered
  (`LeavingCovered`), so that the removal by id finds the card that was clicked
  and no swap can have changed it meanwhile. `CardsMatchEntries` follows.
* `ArticlesOffered` (`EveryArticleIsOffered`), if no list ends in a series: the
  fold of `ProcessBallotItems` is followed article by article, each being on a
  card that is done or in the series that is open; nothing closes the one that
  is open at the end. The code drops such a series, as noted above.
* `SeriesExclusiveAtFirst` (`OneOfASeriesAtFirst`), if every list keeps the
  articles of a series together: then there is one card for each series
  (`Apart`), and when it is gone the series is settled (`AtFirst`). The scan that
  blocks cards is not needed for it. A series that is interrupted gets a second
  card, and only the scan stands between the player and two of its articles.

Both conditions hold of the lists of the run. A list in the order of the content
keeps a series together if the content does; whether it ends in one depends on
what the player drops.

`PostViewerProofs`, for all posts, points, texts and numbers of requests:
`ViewerShowsOnePost`, `ViewerShowsDescription`, `ViewerShowsEveryPoint` from
`Inv`: until the cover ended a change in an exception the element has the text of
the post (`TextInv`); unless an answer came late, the description, and the lists
once they were told of the post (`Told`), have members of the post's own points
(`PageInv`); and after undisturbed answers lists that were told and are filled are
complete (`PointsInv`). The second condition ends with the answer or the resize
that tells the points, which is why the invariant speaks of `unflushed` and not of
the exception; the first never does, since the header's bindings may miss an
update that came between. Each way of splitting, sorting and interleaving keeps the
members (`InterleavedHas` and the lemmas of `Sublists`).

It also has the proofs about `MediaElement`, for every set of items and bound:
`MediaShownIsOfPoint` and `MediaListenedToOnce` from `MediaInv`, whose parts say
that the ids are those of the item unless a started player forgot to clear them,
and that there is one timer or one set of listeners while no two changes come
within 200 ms (`OneSet`).

`SublistProofs` proves for every list and set which entries a filtered list has,
that it keeps their order, how its length follows from that of the list, and how
it changes with an entry more or less. The provers cannot instantiate the
library's induction theorems; the induction over a list is first-order instead:
the set of lengths for which a fact fails would have a least member, by the
well-foundedness of `<` (`WFMin`), and the step from its predecessor refutes it.
The folds of the community modules are reached in the same way: `FoldExists` and
`ListFoldExists` say that a fold is a function of the subsets, or of the first
entries of a list, with one step for each (`FoldedInSteps`), and two sums over one
set agree whatever order they are taken in (`SumsAgree` of `CountryGameProofs`).

### Only model-checked

* Liveness (`EffectsAreRecorded`, `QuizEnds`, `AutoSelectionEnds`, `ScansEnd`,
  `SceneComesToRest`, `GuardsSettle`, `CountryIsSaved`, `SpinnersStop`), which the
  provers do not do, and the violated property.
* `OneBonusPerModule` after the first showing: which cards are dealt then depends
  on what was filtered before.

## What is not modelled, and why

* The price colouring of cards, favourites and the tabs and module filter of the
  ballot: they change no state of the game, and the budget itself refuses what
  does not fit.
* The raw numbers' sliders of a country (`changeStats`): nothing reads them.
* `parseCSV`, `getRandom` and what the setting up of items and questions
  computes: it happens within `BootAnswered`, and the data is what `CONSTANTS`
  say.
* Durations beyond their order: a property that holds here holds for slow
  timers as well.
* Pure drawing: fireworks, lightning, the intro scene, text geometry, styles; of
  the budget's scene the turning of the group and the spot light.
* Of the viewer, what is not reachable: nobody is ever logged in
  (`window.appUser`, `appGlobals` and `yp-app` are never defined), so adding,
  editing, reporting and translating end before they begin.
* The vendored libraries, and the old vote server, which the client does not
  call (and whose action would write columns the schema does not have).

## Plan

The components the plan began with are modelled, and every invariant the runs
check is proved, three of them under the conditions named above. What is left:

1. `OneBonusPerModule` for later showings. A showing deals what was not filtered
   before; the proof needs that no header is among the last cards dealt, which for
   a module that was left in the middle depends on how many swipes were in flight.
2. Liveness, which stays with TLC.
