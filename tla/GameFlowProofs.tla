---------------------------- MODULE GameFlowProofs ----------------------------
(***************************************************************************)
(* What GameFlow promises for every set of languages and links, every      *)
(* length of the history and every number of documents and posts.          *)
(*                                                                         *)
(* The invariant ties the page to the entry of the history it stands for,  *)
(* the saved game to what the guards ask of a page, and every review in    *)
(* history, saved game and requests to the server's table.                 *)
(***************************************************************************)
EXTENDS GameFlow, TLAPS

PageName ==
  {"/", "quiz", "create-country", "filter-articles", "area-ballot", "review"}
    \union {l[1] : l \in Links}
Place == PageName \X Nat
Post == [attached : BOOLEAN, whose : Whose, id : Nat]
SavedGame == [path : Place, game : Game]
History == [entries : Seq(Place), at : Nat]
Autosave == [disabled : BOOLEAN, timer : BOOLEAN]
Requests == [polling : BOOLEAN, asked : SUBSET Nat, getting : BOOLEAN, shown : BOOLEAN]

(* A history has a current entry, and no more entries than are kept. *)
WellFormed(h) ==
  h \in History /\ h.at \in 1 .. Len(h.entries) /\ Len(h.entries) <= HistoryLimit
Entries(h) == {h.entries[i] : i \in 1 .. Len(h.entries)}

HistoryTyped == WellFormed(hist) /\ sub \in Nat /\ dirty \in BOOLEAN /\ blocked \in BOOLEAN
GameTyped ==
  /\ game \in Game
  /\ disk = NoSave \/ disk \in SavedGame
  /\ autosave \in Autosave
ServerTyped ==
  /\ rows \in Seq(Whose) /\ posts \in Seq(Post)
  /\ review \in Requests
Typed == HistoryTyped /\ GameTyped /\ ServerTyped

(* The page is the current entry's, but for / which pushes an entry of its  *)
(* own; and the sub path of a review is never a former page's.              *)
PageIsEntry ==
  /\ Here(hist)[1] = page \/ (page = "/" /\ Here(hist) = Quiz)
  /\ page = "review" => sub = Here(hist)[2]

(* Reviews that history, saved game and answers name are in the table.      *)
Exists(p) == p[1] = "review" => p[2] \in 1 .. Len(rows)
ReviewsExist ==
  /\ Len(rows) >= 1
  /\ \A p \in Entries(hist) : Exists(p)
  /\ disk # NoSave => Exists(disk.path)
  /\ \A i \in 1 .. Len(posts) : posts[i].id # NoSub => posts[i].id \in 1 .. Len(rows)

(* What has been filtered was filtered in a country, and nobody's           *)
(* constitution is posted.                                                  *)
Consistent(g) == g.filtered => g.country # "nobody's"
NobodysIsPosted ==
  /\ \A i \in 1 .. Len(rows) : rows[i] # "nobody's"
  /\ \A i \in 1 .. Len(posts) : posts[i].whose # "nobody's"

GuardsHold ==
  /\ Consistent(game)
  /\ ~dirty => Stocked(page, game)
  /\ disk # NoSave => Consistent(disk.game) /\ Stocked(disk.path[1], disk.game)
  /\ NobodysIsPosted

(* Nothing is saved until the player has decided about the saved game.      *)
OfferIsQuiet == offer # "closed" => autosave.disabled /\ ~autosave.timer

FlowInv == Typed /\ PageIsEntry /\ ReviewsExist /\ GuardsHold /\ OfferIsQuiet

-----------------------------------------------------------------------------
(* Whose review it is.                                                      *)
Foreign(p) == p[1] = "review" /\ rows[p[2]] # "player's"
Own(g) == g.country # "another's" /\ g.selected # "another's"

(* A document opened at somebody else's review stays there.                 *)
Visiting ==
  /\ page = "review" /\ \A p \in Entries(hist) : Foreign(p)
  /\ offer # "open" /\ autosave.disabled /\ ~autosave.timer
  /\ game.country # "player's" /\ (game.country # "nobody's" => review.shown)

AtHome == Own(game) /\ \A p \in Entries(hist) : ~Foreign(p)

Kept ==
  /\ \A i \in 2 .. Len(rows) : rows[i] = "player's"
  /\ rows[1] = "another's"
  /\ \A i \in 1 .. Len(posts) : posts[i].whose = "player's"
  /\ \A i \in 1 .. Len(posts) : posts[i].id # NoSub => rows[posts[i].id] = "player's"
  /\ disk # NoSave => ~Foreign(disk.path) /\ Own(disk.game)
  /\ Visiting \/ AtHome

(* A request whose answer will be heard is one of the ballot on the page.   *)
AttachedOnBallot ==
  \A i \in 1 .. Len(posts) : posts[i].attached => page = "area-ballot"

OwnInv == AttachedOnBallot /\ (~strayed => Kept)

-----------------------------------------------------------------------------
(* The history.                                                             *)

(* pushState makes its path the current entry, and all others were there.   *)
LEMMA PushKeeps ==
  ASSUME NEW h, WellFormed(h), NEW p \in Place
  PROVE  /\ WellFormed(Push(h, p)) /\ Here(Push(h, p)) = p
         /\ Entries(Push(h, p)) \subseteq Entries(h) \union {p}
<1> DEFINE front == SubSeq(h.entries, 1, h.at)
           kept == Append(front, p)
<1>1. /\ h.entries \in Seq(Place) /\ h.at \in 1 .. Len(h.entries)
      /\ Len(h.entries) \in Nat /\ Len(h.entries) <= HistoryLimit
      /\ HistoryLimit \in Nat \ {0}
  BY BoundsAssumption DEF WellFormed, History
<1>2. /\ front \in Seq(Place) /\ Len(front) = h.at
      /\ \A i \in 1 .. h.at : front[i] = h.entries[i]
  BY <1>1
<1>3. /\ kept \in Seq(Place) /\ Len(kept) = h.at + 1 /\ kept[h.at + 1] = p
      /\ \A i \in 1 .. h.at : kept[i] = h.entries[i]
  BY <1>1, <1>2
<1> HIDE DEF front, kept
<1>4. Push(h, p) = IF Len(kept) > HistoryLimit
                   THEN [entries |-> Tail(kept), at |-> HistoryLimit]
                   ELSE [entries |-> kept, at |-> Len(kept)]
  BY DEF Push, front, kept
<1>5. CASE Len(kept) > HistoryLimit
  <2>1. Len(kept) = HistoryLimit + 1 /\ kept # <<>>
    BY <1>1, <1>3, <1>5
  <2>2. /\ Tail(kept) \in Seq(Place) /\ Len(Tail(kept)) = HistoryLimit
        /\ \A i \in 1 .. HistoryLimit : Tail(kept)[i] = kept[i + 1]
    BY <1>1, <1>3, <2>1
  <2>3. Push(h, p) = [entries |-> Tail(kept), at |-> HistoryLimit]
    BY <1>4, <1>5
  <2>4. WellFormed(Push(h, p))
    BY <1>1, <2>2, <2>3 DEF WellFormed, History
  <2>5. Here(Push(h, p)) = p
    BY <1>1, <1>3, <2>1, <2>2, <2>3 DEF Here
  <2>6. Entries(Push(h, p)) \subseteq Entries(h) \union {p}
    BY <1>1, <1>3, <2>1, <2>2, <2>3 DEF Entries
  <2>7. QED
    BY <2>4, <2>5, <2>6
<1>6. CASE ~(Len(kept) > HistoryLimit)
  <2>1. Push(h, p) = [entries |-> kept, at |-> Len(kept)]
    BY <1>4, <1>6
  <2>2. WellFormed(Push(h, p))
    BY <1>1, <1>3, <1>6, <2>1 DEF WellFormed, History
  <2>3. Here(Push(h, p)) = p
    BY <1>1, <1>3, <2>1 DEF Here
  <2>4. Entries(Push(h, p)) \subseteq Entries(h) \union {p}
    <3>1. ASSUME NEW i \in 1 .. h.at + 1 PROVE kept[i] \in Entries(h) \union {p}
      <4>1. CASE i = h.at + 1
        BY <1>3, <4>1
      <4>2. CASE i \in 1 .. h.at
        <5>1. i \in 1 .. Len(h.entries) /\ kept[i] = h.entries[i]
          BY <1>1, <1>3, <4>2
        <5>2. QED
          BY <5>1 DEF Entries
      <4>3. QED
        BY <1>1, <4>1, <4>2
    <3>2. Entries(Push(h, p)) = {kept[i] : i \in 1 .. h.at + 1}
      BY <1>3, <2>1 DEF Entries
    <3>3. QED
      BY <3>1, <3>2
  <2>5. QED
    BY <2>2, <2>3, <2>4
<1>7. QED
  BY <1>5, <1>6

LEMMA HereIsEntry ==
  ASSUME NEW h, WellFormed(h)
  PROVE  Here(h) \in Place /\ Here(h) \in Entries(h) /\ Here(h)[2] \in Nat
BY DEF WellFormed, History, Here, Entries, Place

(* What going to one or two paths, the last of which is p, comes to.        *)
Went(p, via) ==
  /\ WellFormed(hist') /\ Here(hist') = p /\ Entries(hist') \subseteq Entries(hist) \union via
  /\ page' = p[1] /\ sub' \in Nat /\ (p[2] # NoSub => sub' = p[2])
  /\ dirty' = (page' # page)
  /\ Leave(page')

LEMMA GoToOne ==
  ASSUME HistoryTyped, NEW p \in Place, GoTo(<<p>>)
  PROVE  Went(p, {p})
<1>1. hist' = Push(hist, p) /\ page' = p[1] /\ sub' = SubAfter(sub, p)
  BY DEF GoTo
<1>2. sub' \in Nat /\ (p[2] # NoSub => sub' = p[2])
  BY <1>1 DEF SubAfter, HistoryTyped, Place
<1>3. QED
  BY <1>1, <1>2, PushKeeps DEF Went, GoTo, HistoryTyped

LEMMA GoToTwo ==
  ASSUME HistoryTyped, NEW p \in Place, NEW q \in Place, GoTo(<<q, p>>)
  PROVE  Went(p, {p, q})
<1>1. /\ hist' = Push(Push(hist, q), p) /\ page' = p[1]
      /\ sub' = SubAfter(SubAfter(sub, q), p)
  BY DEF GoTo
<1>2. sub' \in Nat /\ (p[2] # NoSub => sub' = p[2])
  BY <1>1 DEF SubAfter, HistoryTyped, Place
<1>3. WellFormed(Push(hist, q)) /\ Entries(Push(hist, q)) \subseteq Entries(hist) \union {q}
  BY PushKeeps DEF HistoryTyped
<1>4. /\ WellFormed(hist') /\ Here(hist') = p
      /\ Entries(hist') \subseteq Entries(Push(hist, q)) \union {p}
  BY <1>1, <1>3, PushKeeps
<1>5. QED
  BY <1>1, <1>2, <1>3, <1>4 DEF Went, GoTo

(* What the entries of a tuple of paths are. *)
LEMMA PathsArePlaces ==
  /\ {Root, Quiz, CreateCountry, FilterArticles, AreaBallot} \subseteq Place
  /\ \A id \in Nat : Review(id) \in Place
  /\ Links \subseteq Place
  /\ \A p \in Place : p[2] \in Nat
<1>1. \A p \in Place : p[2] \in Nat
  BY DEF Place
<1>2. /\ Root \in Place /\ Quiz \in Place /\ CreateCountry \in Place
      /\ FilterArticles \in Place /\ AreaBallot \in Place
  BY DEF Place, PageName, Root, Quiz, CreateCountry, FilterArticles, AreaBallot, NoSub
<1>3. {Root, Quiz, CreateCountry, FilterArticles, AreaBallot} \subseteq Place
  BY <1>2
<1>4. ASSUME NEW id \in Nat PROVE Review(id) \in Place
  BY DEF Place, PageName, Review
<1>5. Links \subseteq Place
  BY LinksAssumption DEF Place, PageName
<1>6. QED
  BY <1>1, <1>3, <1>4, <1>5

(* The browser's buttons bring the page and its entry together. *)
LEMMA ArriveKeeps ==
  ASSUME NEW h, WellFormed(h), HistoryTyped, Arrive(h),
         Here(h)[1] = "review" => Here(h)[2] # NoSub
  PROVE  /\ WellFormed(hist') /\ sub' \in Nat /\ dirty' \in BOOLEAN
         /\ PageIsEntry'
         /\ Entries(hist') \subseteq Entries(h) \union {Quiz}
         /\ page' = Here(h)[1] /\ (page' # page => dirty')
         /\ Here(h)[1] # "/" => Entries(hist') \subseteq Entries(h)
         /\ sub' = SubAfter(sub, Here(h)) /\ (Here(h)[2] = NoSub => Here(hist')[2] = NoSub)
         /\ Leave(page')
<1> DEFINE there == IF Here(h) = Root THEN Push(h, Quiz) ELSE h
<1>1. Here(h) \in Place /\ Here(h) \in Entries(h) /\ Here(h)[2] \in Nat
  BY HereIsEntry
<1>2. /\ WellFormed(there) /\ Entries(there) \subseteq Entries(h) \union {Quiz}
      /\ Here(there) = IF Here(h) = Root THEN Quiz ELSE Here(h)
      /\ Here(h) # Root => there = h
  BY PushKeeps, PathsArePlaces
<1>3. Here(there) \in Place /\ Here(there) \in Entries(there)
  BY <1>2, HereIsEntry
<1> HIDE DEF there
<1>4. /\ hist' = IF blocked THEN Push(there, Here(there)) ELSE there
      /\ page' = Here(h)[1] /\ sub' = SubAfter(sub, Here(h))
      /\ dirty' = (Here(h) = Root \/ page' # page) /\ Leave(page')
  BY DEF Arrive, there
<1>5. WellFormed(hist') /\ Here(hist') = Here(there) /\ Entries(hist') \subseteq Entries(there)
  BY <1>2, <1>3, <1>4, PushKeeps
<1>6. sub' \in Nat /\ (Here(h)[2] # NoSub => sub' = Here(h)[2])
  BY <1>1, <1>4 DEF SubAfter, HistoryTyped
<1>7. PageIsEntry'
  <2>1. CASE Here(h) = Root
    BY <1>2, <1>4, <1>5, <2>1 DEF PageIsEntry, Root
  <2>2. CASE Here(h) # Root
    BY <1>2, <1>4, <1>5, <1>6, <2>2 DEF PageIsEntry
  <2>3. QED
    BY <2>1, <2>2
<1>8. Here(h)[1] # "/" => Entries(hist') \subseteq Entries(h)
  BY <1>2, <1>5 DEF Root
<1>9. Here(h)[2] = NoSub => Here(hist')[2] = NoSub
  BY <1>2, <1>5 DEF Quiz
<1>10. QED
  BY <1>2, <1>4, <1>5, <1>6, <1>7, <1>8, <1>9

(* A document shows the page of the entry it is loaded at. *)
LEMMA LoadKeeps ==
  ASSUME NEW h, WellFormed(h), Load(h)
  PROVE  /\ HistoryTyped' /\ PageIsEntry' /\ dirty'
         /\ Entries(hist') \subseteq Entries(h) \union {Quiz}
         /\ page' = Here(h)[1]
         /\ Here(h)[1] # "/" => hist' = h
         /\ sub' = Here(h)[2] /\ (Here(h)[2] = NoSub => Here(hist')[2] = NoSub)
         /\ game' = NewGame /\ offer' = "due"
         /\ autosave' = [disabled |-> TRUE, timer |-> FALSE]
         /\ rows' = rows
<1>1. Here(h) \in Place /\ Here(h)[2] \in Nat
  BY HereIsEntry
<1>2. /\ WellFormed(hist') /\ Entries(hist') \subseteq Entries(h) \union {Quiz}
      /\ Here(hist') = IF Here(h) = Root THEN Quiz ELSE Here(h)
      /\ Here(h)[1] # "/" => hist' = h
  BY PushKeeps, PathsArePlaces DEF Load, Root
<1>3. /\ page' = Here(h)[1] /\ sub' = Here(h)[2] /\ dirty' = TRUE /\ blocked' = FALSE
      /\ game' = NewGame /\ offer' = "due" /\ rows' = rows
      /\ autosave' = [disabled |-> TRUE, timer |-> FALSE]
  BY DEF Load
<1>4. PageIsEntry'
  BY <1>2, <1>3 DEF PageIsEntry, Root
<1>5. HistoryTyped'
  BY <1>1, <1>2, <1>3 DEF HistoryTyped
<1>6. Here(h)[2] = NoSub => Here(hist')[2] = NoSub
  BY <1>2 DEF Quiz
<1>7. QED
  BY <1>2, <1>3, <1>4, <1>5, <1>6

(* The one entry of a link that is opened. *)
LEMMA LinkIsWellFormed ==
  ASSUME NEW p \in Place
  PROVE  LET h == [entries |-> <<p>>, at |-> 1]
         IN  WellFormed(h) /\ Here(h) = p /\ Entries(h) = {p}
<1> DEFINE h == [entries |-> <<p>>, at |-> 1]
<1>1. /\ h.entries = <<p>> /\ h.at = 1 /\ h.entries \in Seq(Place) /\ Len(h.entries) = 1
      /\ h.entries[1] = p
  OBVIOUS
<1>2. WellFormed(h)
  BY <1>1, BoundsAssumption DEF WellFormed, History
<1>3. Here(h) = p
  BY <1>1 DEF Here
<1>4. Entries(h) = {p}
  BY <1>1 DEF Entries
<1>5. QED
  BY <1>2, <1>3, <1>4

-----------------------------------------------------------------------------
(* Requests that post.                                                      *)

(* Each request that is left is one that was there, and heard only if it    *)
(* was and the page has stayed.                                             *)
PostsRemain ==
  /\ posts' \in Seq(Post)
  /\ \A j \in 1 .. Len(posts') : \E k \in 1 .. Len(posts) :
        /\ posts'[j].whose = posts[k].whose /\ posts'[j].id = posts[k].id
        /\ posts'[j].attached => posts[k].attached /\ page' = page

LEMMA PostsStay ==
  ASSUME ServerTyped, posts' = posts, page' = page
  PROVE  PostsRemain
BY DEF PostsRemain, ServerTyped

LEMMA DetachedRemain ==
  ASSUME ServerTyped,
         posts' = [i \in DOMAIN posts |-> [posts[i] EXCEPT !.attached = FALSE]]
  PROVE  PostsRemain
<1>1. posts \in Seq(Post) /\ DOMAIN posts = 1 .. Len(posts) /\ Len(posts) \in Nat
  BY DEF ServerTyped
<1>2. \A i \in 1 .. Len(posts) : posts[i] \in Post
  BY <1>1
<1>3. \A p \in Post :
        LET q == [p EXCEPT !.attached = FALSE]
        IN  q \in Post /\ q.whose = p.whose /\ q.id = p.id /\ ~q.attached
  BY DEF Post
<1>4. posts' = [i \in 1 .. Len(posts) |-> [posts[i] EXCEPT !.attached = FALSE]]
  BY <1>1
<1>5. \A i \in 1 .. Len(posts) :
        /\ posts'[i] \in Post /\ posts'[i].whose = posts[i].whose
        /\ posts'[i].id = posts[i].id /\ ~posts'[i].attached
  BY <1>2, <1>3, <1>4
<1>6. posts' \in Seq(Post) /\ Len(posts') = Len(posts)
  BY <1>1, <1>4, <1>5
<1>7. QED
  BY <1>5, <1>6 DEF PostsRemain

LEMMA LeaveRemain ==
  ASSUME ServerTyped, Leave(page')
  PROVE  PostsRemain
BY PostsStay, DetachedRemain DEF Leave

LEMMA RemoveAtProperties ==
  ASSUME NEW S, NEW s \in Seq(S), NEW i \in 1 .. Len(s)
  PROVE  /\ RemoveAt(s, i) \in Seq(S) /\ Len(RemoveAt(s, i)) = Len(s) - 1
         /\ \A j \in 1 .. Len(s) - 1 : RemoveAt(s, i)[j] = IF j < i THEN s[j] ELSE s[j + 1]
<1> DEFINE before == SubSeq(s, 1, i - 1)
           after == SubSeq(s, i + 1, Len(s))
<1>1. /\ before \in Seq(S) /\ Len(before) = i - 1
      /\ \A j \in 1 .. i - 1 : before[j] = s[j]
  OBVIOUS
<1>2. /\ after \in Seq(S) /\ Len(after) = Len(s) - i
      /\ \A j \in 1 .. Len(s) - i : after[j] = s[j + i]
  OBVIOUS
<1>3. RemoveAt(s, i) = before \o after
  BY DEF RemoveAt
<1> HIDE DEF before, after
<1>4. before \o after \in Seq(S) /\ Len(before \o after) = Len(s) - 1
  BY <1>1, <1>2
<1>5. ASSUME NEW j \in 1 .. Len(s) - 1
      PROVE  (before \o after)[j] = IF j < i THEN s[j] ELSE s[j + 1]
  BY <1>1, <1>2
<1>6. QED
  BY <1>3, <1>4, <1>5

LEMMA RemovedRemain ==
  ASSUME ServerTyped, NEW i \in DOMAIN posts, posts' = RemoveAt(posts, i), page' = page
  PROVE  PostsRemain
<1>1. posts \in Seq(Post) /\ i \in 1 .. Len(posts)
  BY DEF ServerTyped
<1>2. /\ posts' \in Seq(Post) /\ Len(posts') = Len(posts) - 1
      /\ \A j \in 1 .. Len(posts) - 1 : posts'[j] = IF j < i THEN posts[j] ELSE posts[j + 1]
  BY <1>1, RemoveAtProperties
<1>3. ASSUME NEW j \in 1 .. Len(posts')
      PROVE  \E k \in 1 .. Len(posts) : posts'[j] = posts[k]
  BY <1>1, <1>2
<1>4. QED
  BY <1>2, <1>3 DEF PostsRemain

(* The answer that is heard takes the page from the ballot. *)
LEMMA RemovedDetachedRemain ==
  ASSUME ServerTyped, NEW i \in 1 .. Len(posts),
         posts' = [j \in 1 .. Len(posts) - 1 |->
                     [RemoveAt(posts, i)[j] EXCEPT !.attached = FALSE]]
  PROVE  PostsRemain /\ \A j \in 1 .. Len(posts') : ~posts'[j].attached
<1> DEFINE left == RemoveAt(posts, i)
<1>1. posts \in Seq(Post) /\ Len(posts) \in Nat
  BY DEF ServerTyped
<1>2. /\ left \in Seq(Post) /\ Len(left) = Len(posts) - 1
      /\ \A j \in 1 .. Len(posts) - 1 : left[j] = IF j < i THEN posts[j] ELSE posts[j + 1]
  BY <1>1, RemoveAtProperties
<1> HIDE DEF left
<1>3. \A p \in Post :
        LET q == [p EXCEPT !.attached = FALSE]
        IN  q \in Post /\ q.whose = p.whose /\ q.id = p.id /\ ~q.attached
  BY DEF Post
<1>4. \A j \in 1 .. Len(posts) - 1 : left[j] \in Post
  BY <1>1, <1>2
<1>5. posts' = [j \in 1 .. Len(posts) - 1 |-> [left[j] EXCEPT !.attached = FALSE]]
  BY DEF left
<1>6. \A j \in 1 .. Len(posts) - 1 :
        /\ posts'[j] \in Post /\ posts'[j].whose = left[j].whose
        /\ posts'[j].id = left[j].id /\ ~posts'[j].attached
  BY <1>3, <1>4, <1>5
<1>7. posts' \in Seq(Post) /\ Len(posts') = Len(posts) - 1
  BY <1>1, <1>5, <1>6
<1>8. ASSUME NEW j \in 1 .. Len(posts) - 1
      PROVE  \E k \in 1 .. Len(posts) : left[j] = posts[k]
  <2>1. j \in 1 .. Len(posts) /\ j + 1 \in 1 .. Len(posts)
    BY <1>1
  <2>2. left[j] = posts[j] \/ left[j] = posts[j + 1]
    BY <1>2
  <2>3. QED
    BY <2>1, <2>2
<1>9. ASSUME NEW j \in 1 .. Len(posts')
      PROVE  \E k \in 1 .. Len(posts) :
                posts'[j].whose = posts[k].whose /\ posts'[j].id = posts[k].id
  <2>1. j \in 1 .. Len(posts) - 1
    BY <1>7
  <2>2. PICK k \in 1 .. Len(posts) : left[j] = posts[k]
    BY <1>8, <2>1
  <2>3. QED
    BY <1>6, <2>1, <2>2
<1>10. \A j \in 1 .. Len(posts') : ~posts'[j].attached
  BY <1>6, <1>7
<1>11. QED
  BY <1>7, <1>9, <1>10 DEF PostsRemain

-----------------------------------------------------------------------------
(* The invariant, one action at a time.                                     *)

(* What a step owes that leaves the table of constitutions alone and writes *)
(* no game.                                                                 *)
LEMMA Carried ==
  ASSUME FlowInv, rows' = rows, disk' \in {disk, NoSave}, PostsRemain,
         HistoryTyped', PageIsEntry', \A p \in Entries(hist') : Exists(p),
         game' \in Game, Consistent(game'), ~dirty' => Stocked(page', game'),
         autosave' \in Autosave, review' \in Requests, OfferIsQuiet'
  PROVE  FlowInv'
<1>1. Typed'
  BY DEF FlowInv, Typed, GameTyped, ServerTyped, PostsRemain
<1>2. ReviewsExist'
  <2>1. \A i \in 1 .. Len(posts') : posts'[i].id # NoSub => posts'[i].id \in 1 .. Len(rows)
    BY DEF FlowInv, ReviewsExist, PostsRemain
  <2>2. QED
    BY <2>1 DEF FlowInv, ReviewsExist, Exists, NoSub
<1>3. GuardsHold'
  <2>1. \A i \in 1 .. Len(posts') : posts'[i].whose # "nobody's"
    BY DEF FlowInv, GuardsHold, NobodysIsPosted, PostsRemain
  <2>2. QED
    BY <2>1 DEF FlowInv, GuardsHold, NobodysIsPosted
<1>4. QED
  BY <1>1, <1>2, <1>3 DEF FlowInv

LEMMA SaveDebouncedTyped ==
  ASSUME NEW a \in Autosave
  PROVE  SaveDebounced(a) \in Autosave /\ SaveDebounced(a).disabled = a.disabled
         /\ (a.disabled => SaveDebounced(a).timer = a.timer)
BY DEF SaveDebounced, Autosave

LEMMA InvKeepsType ==
  ASSUME FlowInv
  PROVE  /\ WellFormed(hist) /\ Here(hist) \in Place /\ Here(hist) \in Entries(hist)
         /\ game \in Game /\ autosave \in Autosave /\ review \in Requests
         /\ Exists(Here(hist)) /\ (page = "review" => sub # NoSub)
<1>1. /\ WellFormed(hist) /\ game \in Game /\ autosave \in Autosave /\ review \in Requests
  BY DEF FlowInv, Typed, HistoryTyped, GameTyped, ServerTyped
<1>2. Here(hist) \in Place /\ Here(hist) \in Entries(hist)
  BY <1>1, HereIsEntry
<1>3. Exists(Here(hist))
  BY <1>2 DEF FlowInv, ReviewsExist
<1>4. page = "review" => sub # NoSub
  BY <1>3 DEF FlowInv, PageIsEntry, Exists, NoSub
<1>5. QED
  BY <1>1, <1>2, <1>3, <1>4

(* Boot, dialogs and menus have no part in it. *)
Elsewhere ==
  UNCHANGED <<page, sub, dirty, hist, blocked, game, autosave, disk, offer, review, rows, posts>>

LEMMA ElsewhereKeeps == FlowInv /\ Elsewhere => FlowInv'
BY DEF FlowInv, Elsewhere, Typed, HistoryTyped, GameTyped, ServerTyped, PageIsEntry,
       ReviewsExist, Exists, GuardsHold, NobodysIsPosted, OfferIsQuiet

Idle ==
  \/ BootFailed \/ NextDialog \/ SkipTutorial \/ OpenArticleItem \/ PickCountry
  \/ \E l \in Supported : SelectLocale(l)

LEMMA IdleIsElsewhere == Idle => Elsewhere /\ UNCHANGED past
BY DEF Idle, Elsewhere, asking, BootFailed, NextDialog, SkipTutorial, OpenArticleItem, PickCountry,
       SelectLocale, where, saving, server, past

(* The page stays, and with it the history.                                 *)
LEMMA SpotKeeps ==
  ASSUME FlowInv, UNCHANGED <<where, rows, posts>>, disk' \in {disk, NoSave},
         game' \in Game, Consistent(game'), ~dirty => Stocked(page, game'),
         autosave' \in Autosave, review' \in Requests, OfferIsQuiet'
  PROVE  FlowInv'
<1>1. HistoryTyped' /\ PageIsEntry' /\ \A p \in Entries(hist') : Exists(p)
  BY DEF FlowInv, Typed, HistoryTyped, PageIsEntry, ReviewsExist, where
<1>2. PostsRemain
  BY PostsStay DEF FlowInv, Typed, where
<1>3. ~dirty' => Stocked(page', game')
  BY DEF where
<1>4. QED
  BY <1>1, <1>2, <1>3, Carried

LEMMA OfferSavedGameKeeps ==
  ASSUME FlowInv, OfferSavedGame PROVE FlowInv'
<1>1. UNCHANGED <<where, rows, posts, game, disk, review>>
  BY DEF OfferSavedGame, server
<1>2. autosave' \in Autosave /\ OfferIsQuiet'
  BY InvKeepsType DEF OfferSavedGame, FlowInv, OfferIsQuiet, Autosave
<1>3. QED
  BY <1>1, <1>2, SpotKeeps, InvKeepsType DEF FlowInv, GuardsHold

LEMMA AddItemToFinalListKeeps ==
  ASSUME FlowInv, AddItemToFinalList PROVE FlowInv'
<1>1. /\ page = "filter-articles" /\ ~dirty /\ UNCHANGED <<where, rows, posts, disk, review>>
      /\ game' = [game EXCEPT !.filtered = TRUE] /\ UNCHANGED <<autosave, offer>>
  BY DEF AddItemToFinalList, OnPage, server, saving, asking
<1>2. game.country # "nobody's"
  BY <1>1 DEF FlowInv, GuardsHold, Stocked
<1>3. game' \in Game /\ game'.country # "nobody's"
  BY <1>1, <1>2, InvKeepsType DEF Game
<1>4. OfferIsQuiet'
  BY <1>1 DEF FlowInv, OfferIsQuiet
<1>5. QED
  BY <1>1, <1>3, <1>4, SpotKeeps, InvKeepsType DEF Consistent, Stocked

LEMMA SelectedItemsChangedKeeps ==
  ASSUME FlowInv, NEW to \in {"nobody's", "player's"}, SelectedItemsChanged(to) PROVE FlowInv'
<1>1. /\ offer = "closed" /\ UNCHANGED <<where, rows, posts, disk, review, offer>>
      /\ game' = [game EXCEPT !.selected = to] /\ autosave' = SaveDebounced(autosave)
  BY DEF SelectedItemsChanged, OnPage, server, asking
<1>2. /\ game' \in Game /\ game'.country = game.country /\ game'.filtered = game.filtered
  BY <1>1, InvKeepsType DEF Game, Whose
<1>3. autosave' \in Autosave
  BY <1>1, SaveDebouncedTyped, InvKeepsType
<1>4. Consistent(game') /\ (~dirty => Stocked(page, game'))
  BY <1>2 DEF FlowInv, GuardsHold, Consistent, Stocked
<1>5. OfferIsQuiet'
  BY <1>1 DEF OfferIsQuiet
<1>6. QED
  BY <1>1, <1>2, <1>3, <1>4, <1>5, SpotKeeps, InvKeepsType

LEMMA ReviewRequestsKeep ==
  ASSUME FlowInv, PollReview \/ \E id \in Id : ReviewLost(id) PROVE FlowInv'
<1>1. UNCHANGED <<where, rows, posts, disk, game, autosave, offer>>
  BY DEF PollReview, ReviewLost, server, saving, asking
<1>2. sub \in Nat
  BY DEF FlowInv, Typed, HistoryTyped
<1>3. review' \in Requests
  BY <1>2, InvKeepsType DEF PollReview, ReviewLost, Requests
<1>4. OfferIsQuiet'
  BY <1>1 DEF FlowInv, OfferIsQuiet
<1>5. QED
  BY <1>1, <1>3, <1>4, SpotKeeps, InvKeepsType DEF FlowInv, GuardsHold

(* The saved path is the current entry's; for / that is the quiz's. *)
LEMMA AutoSaveKeeps ==
  ASSUME FlowInv, AutoSave PROVE FlowInv'
<1>1. /\ ~dirty /\ autosave.timer /\ autosave' = [autosave EXCEPT !.timer = FALSE]
      /\ disk' = [path |-> Here(hist), game |-> game]
      /\ UNCHANGED <<where, rows, posts, game, review, offer>>
  BY DEF AutoSave, server, asking
<1>2. offer' = "closed"
  BY <1>1, InvKeepsType DEF FlowInv, OfferIsQuiet
<1>3. disk' \in SavedGame /\ disk'.path = Here(hist) /\ disk'.game = game
  BY <1>1, InvKeepsType DEF SavedGame
<1>4. Typed'
  <2>1. autosave' \in Autosave
    BY <1>1, InvKeepsType DEF Autosave
  <2>2. QED
    BY <1>1, <1>3, <2>1 DEF FlowInv, Typed, HistoryTyped, GameTyped, ServerTyped, where
<1>5. Stocked(Here(hist)[1], game)
  BY <1>1 DEF FlowInv, GuardsHold, PageIsEntry, Stocked, Quiz
<1>6. ReviewsExist'
  BY <1>1, <1>3, InvKeepsType DEF FlowInv, ReviewsExist, Exists, where
<1>7. GuardsHold'
  BY <1>1, <1>3, <1>5 DEF FlowInv, GuardsHold, NobodysIsPosted, where
<1>8. PageIsEntry' /\ OfferIsQuiet'
  BY <1>1, <1>2 DEF FlowInv, PageIsEntry, OfferIsQuiet, where
<1>9. QED
  BY <1>4, <1>6, <1>7, <1>8 DEF FlowInv

(* A request is answered with the row made for it, and with no other. *)
LEMMA PostConstitutionKeeps ==
  ASSUME FlowInv, PostConstitution PROVE FlowInv'
<1> DEFINE new == [attached |-> TRUE, whose |-> game.selected, id |-> NoSub]
<1>1. /\ game.selected # "nobody's" /\ posts' = Append(posts, new)
      /\ UNCHANGED <<where, rows, disk, game, autosave, review, offer>>
  BY DEF PostConstitution, saving, asking
<1>2. posts \in Seq(Post) /\ Len(posts) \in Nat
  BY DEF FlowInv, Typed, ServerTyped
<1>3. new \in Post /\ new.whose # "nobody's" /\ new.id = NoSub
  BY <1>1, InvKeepsType DEF Post, Game, NoSub
<1> HIDE DEF new
<1>4. /\ posts' \in Seq(Post)
      /\ \A i \in 1 .. Len(posts') : posts'[i] = new \/ (i \in 1 .. Len(posts) /\ posts'[i] = posts[i])
  BY <1>1, <1>2, <1>3
<1>5. Typed'
  BY <1>1, <1>4 DEF FlowInv, Typed, HistoryTyped, GameTyped, ServerTyped, where
<1>6. ReviewsExist'
  BY <1>1, <1>3, <1>4 DEF FlowInv, ReviewsExist, Exists, where
<1>7. GuardsHold'
  BY <1>1, <1>3, <1>4 DEF FlowInv, GuardsHold, NobodysIsPosted, where
<1>8. PageIsEntry' /\ OfferIsQuiet'
  BY <1>1 DEF FlowInv, PageIsEntry, OfferIsQuiet, where
<1>9. QED
  BY <1>5, <1>6, <1>7, <1>8 DEF FlowInv

LEMMA CreateConstitutionKeeps ==
  ASSUME FlowInv, NEW i \in 1 .. MaxPosts, CreateConstitution(i) PROVE FlowInv'
<1>1. /\ i \in DOMAIN posts /\ rows' = Append(rows, posts[i].whose)
      /\ posts' = [posts EXCEPT ![i].id = Len(rows')]
      /\ UNCHANGED <<where, disk, game, autosave, review, offer>>
  BY DEF CreateConstitution, saving, asking
<1>2. /\ posts \in Seq(Post) /\ i \in 1 .. Len(posts) /\ rows \in Seq(Whose)
      /\ posts[i] \in Post /\ posts[i].whose \in Whose /\ posts[i].whose # "nobody's"
  <2>1. posts \in Seq(Post) /\ rows \in Seq(Whose)
    BY DEF FlowInv, Typed, ServerTyped
  <2>2. i \in 1 .. Len(posts) /\ posts[i] \in Post
    BY <1>1, <2>1
  <2>3. posts[i].whose \in Whose
    BY <2>2 DEF Post
  <2>4. QED
    BY <2>1, <2>2, <2>3 DEF FlowInv, GuardsHold, NobodysIsPosted
<1>3. /\ rows' \in Seq(Whose) /\ Len(rows') = Len(rows) + 1 /\ Len(rows) \in Nat
      /\ \A k \in 1 .. Len(rows') : rows'[k] = posts[i].whose \/ (k \in 1 .. Len(rows) /\ rows'[k] = rows[k])
  BY <1>1, <1>2
<1>4. [posts[i] EXCEPT !.id = Len(rows')] \in Post
  <2>1. \A p \in Post, n \in Nat : [p EXCEPT !.id = n] \in Post
    BY DEF Post
  <2>2. Len(rows') \in Nat
    BY <1>3
  <2>3. QED
    BY <1>2, <2>1, <2>2
<1>5. /\ posts' \in Seq(Post) /\ Len(posts') = Len(posts)
      /\ \A k \in 1 .. Len(posts) : k # i => posts'[k] = posts[k]
      /\ posts'[i] = [posts[i] EXCEPT !.id = Len(rows')]
  BY <1>1, <1>2, <1>4
<1>6. posts'[i].id = Len(rows') /\ posts'[i].whose = posts[i].whose
  BY <1>2, <1>5 DEF Post
<1>7. Typed'
  BY <1>1, <1>3, <1>5 DEF FlowInv, Typed, HistoryTyped, GameTyped, ServerTyped, where
<1>8. ReviewsExist'
  <2>1. \A k \in 1 .. Len(posts') : posts'[k].id # NoSub => posts'[k].id \in 1 .. Len(rows')
    <3>1. \A k \in 1 .. Len(posts) : posts[k].id # NoSub => posts[k].id \in 1 .. Len(rows)
      BY DEF FlowInv, ReviewsExist
    <3>2. 1 .. Len(rows) \subseteq 1 .. Len(rows') /\ Len(rows') \in 1 .. Len(rows')
      BY <1>3
    <3>3. QED
      BY <1>5, <1>6, <3>1, <3>2
  <2>2. QED
    BY <1>1, <1>3, <2>1 DEF FlowInv, ReviewsExist, Exists, where
<1>9. GuardsHold'
  <2>1. NobodysIsPosted'
    BY <1>2, <1>3, <1>5, <1>6 DEF FlowInv, GuardsHold, NobodysIsPosted
  <2>2. QED
    BY <1>1, <2>1 DEF FlowInv, GuardsHold, where
<1>10. PageIsEntry' /\ OfferIsQuiet'
  BY <1>1 DEF FlowInv, PageIsEntry, OfferIsQuiet, where
<1>11. QED
  BY <1>7, <1>8, <1>9, <1>10 DEF FlowInv

LEMMA PostLostKeeps ==
  ASSUME FlowInv, NEW i \in 1 .. MaxPosts, PostLost(i) PROVE FlowInv'
<1>1. /\ i \in DOMAIN posts /\ posts' = RemoveAt(posts, i)
      /\ UNCHANGED <<where, rows, disk, game, autosave, review, offer>>
  BY DEF PostLost, saving, asking
<1>2. HistoryTyped' /\ PageIsEntry' /\ (\A p \in Entries(hist') : Exists(p)) /\ OfferIsQuiet'
  BY <1>1 DEF FlowInv, Typed, HistoryTyped, PageIsEntry, ReviewsExist, OfferIsQuiet, where
<1>3. PostsRemain
  BY <1>1, RemovedRemain DEF FlowInv, Typed, where
<1>4. Consistent(game') /\ (~dirty' => Stocked(page', game'))
  BY <1>1 DEF FlowInv, GuardsHold, where
<1>5. QED
  BY <1>1, <1>2, <1>3, <1>4, Carried, InvKeepsType

-----------------------------------------------------------------------------
(* Going to a path on which the game is fit to be worked on, and to no      *)
(* review.                                                                  *)
NoReview(via) == \A p \in via : p[1] # "review"

LEMMA WentKeeps ==
  ASSUME FlowInv, NEW p, NEW via, Went(p, via), \A q \in via : Exists(q),
         p[1] = "review" => p[2] # NoSub,
         UNCHANGED <<blocked, rows, disk>>, game' \in Game, Consistent(game'),
         ~dirty' => Stocked(page', game'),
         autosave' \in Autosave, review' \in Requests, OfferIsQuiet'
  PROVE  FlowInv'
<1>1. HistoryTyped'
  BY DEF Went, FlowInv, Typed, HistoryTyped
<1>2. PageIsEntry'
  BY DEF Went, PageIsEntry
<1>3. \A q \in Entries(hist') : Exists(q)
  BY DEF Went, FlowInv, ReviewsExist
<1>4. PostsRemain
  BY LeaveRemain DEF Went, FlowInv, Typed
<1>5. QED
  BY <1>1, <1>2, <1>3, <1>4, Carried

(* Each finished stage goes to the one after. *)
Stage == FinishQuiz \/ CreateCountryFinished \/ FilteringFinished \/ ResetSelectArticles

LEMMA StagesGo ==
  ASSUME FlowInv, Stage
  PROVE  \E p \in {CreateCountry, FilterArticles, AreaBallot} :
           /\ Went(p, {p}) /\ dirty'
           /\ UNCHANGED <<blocked, rows, disk, review, offer, past>>
<1>1. HistoryTyped
  BY DEF FlowInv, Typed
<1>2. CASE FinishQuiz
  <2>1. Went(CreateCountry, {CreateCountry})
    BY <1>1, <1>2, GoToOne, PathsArePlaces DEF FinishQuiz
  <2>2. QED
    BY <1>2, <2>1 DEF FinishQuiz, OnPage, Went, CreateCountry, saving
<1>3. CASE CreateCountryFinished
  <2>1. Went(FilterArticles, {FilterArticles})
    BY <1>1, <1>3, GoToOne, PathsArePlaces DEF CreateCountryFinished
  <2>2. QED
    BY <1>3, <2>1 DEF CreateCountryFinished, OnPage, Went, FilterArticles
<1>4. CASE FilteringFinished
  <2>1. Went(AreaBallot, {AreaBallot})
    BY <1>1, <1>4, GoToOne, PathsArePlaces DEF FilteringFinished
  <2>2. QED
    BY <1>4, <2>1 DEF FilteringFinished, OnPage, Went, AreaBallot, saving
<1>5. CASE ResetSelectArticles
  <2>1. Went(AreaBallot, {AreaBallot})
    BY <1>1, <1>5, GoToOne, PathsArePlaces DEF ResetSelectArticles
  <2>2. QED
    BY <1>5, <2>1 DEF ResetSelectArticles, OnPage, Went, AreaBallot
<1>6. QED
  BY <1>2, <1>3, <1>4, <1>5 DEF Stage

LEMMA StagesKeepGame ==
  ASSUME FlowInv, Stage
  PROVE  /\ game' \in Game /\ Consistent(game') /\ autosave' \in Autosave
         /\ offer = "closed" /\ (Own(game) => Own(game'))
         /\ (page = "review" => game.country # "nobody's" /\ ~review.shown)
<1>1. game \in Game /\ autosave \in Autosave /\ SaveDebounced(autosave) \in Autosave
  BY InvKeepsType, SaveDebouncedTyped
<1>2. Consistent(game)
  BY DEF FlowInv, GuardsHold
<1>3. CASE FinishQuiz
  BY <1>1, <1>2, <1>3 DEF FinishQuiz, OnPage, saving, Game, Consistent, Own
<1>4. CASE CreateCountryFinished
  BY <1>1, <1>2, <1>4 DEF CreateCountryFinished, OnPage, Game, Whose, Consistent, Own
<1>5. CASE FilteringFinished
  BY <1>1, <1>2, <1>5 DEF FilteringFinished, OnPage, saving, Consistent
<1>6. CASE ResetSelectArticles
  BY <1>1, <1>2, <1>6 DEF ResetSelectArticles, OnPage, Game, Whose, Consistent, Own
<1>7. QED
  BY <1>3, <1>4, <1>5, <1>6 DEF Stage

LEMMA StageKeeps ==
  ASSUME FlowInv, Stage PROVE FlowInv'
<1>1. PICK p \in {CreateCountry, FilterArticles, AreaBallot} :
           /\ Went(p, {p}) /\ dirty'
           /\ UNCHANGED <<blocked, rows, disk, review, offer, past>>
  BY StagesGo
<1>2. p[1] # "review"
  BY DEF CreateCountry, FilterArticles, AreaBallot
<1>3. OfferIsQuiet'
  BY <1>1, StagesKeepGame DEF OfferIsQuiet
<1>4. QED
  BY <1>1, <1>2, <1>3, WentKeeps, StagesKeepGame, InvKeepsType DEF Exists

(* The restored path is one that the restored game may be on. *)
LEMMA RestoreGameKeeps ==
  ASSUME FlowInv, RestoreGame PROVE FlowInv'
<1>1. /\ disk # NoSave /\ offer' = "closed" /\ game' = disk.game
      /\ autosave' = [autosave EXCEPT !.disabled = FALSE] /\ GoTo(<<disk.path>>)
      /\ UNCHANGED <<blocked, disk, review, rows>>
  BY DEF RestoreGame
<1>2. /\ disk \in SavedGame /\ disk.path \in Place /\ disk.game \in Game
      /\ Consistent(disk.game) /\ Stocked(disk.path[1], disk.game) /\ Exists(disk.path)
  BY <1>1 DEF FlowInv, Typed, GameTyped, SavedGame, GuardsHold, ReviewsExist
<1>3. Went(disk.path, {disk.path})
  BY <1>1, <1>2, GoToOne DEF FlowInv, Typed
<1>4. autosave' \in Autosave /\ OfferIsQuiet'
  BY <1>1, InvKeepsType DEF Autosave, OfferIsQuiet
<1>5. ~dirty' => Stocked(page', game')
  BY <1>1, <1>2, <1>3 DEF Went
<1>6. disk.path[1] = "review" => disk.path[2] # NoSub
  BY <1>2 DEF Exists, NoSub
<1>7. QED
  BY <1>1, <1>2, <1>3, <1>4, <1>5, <1>6, WentKeeps, InvKeepsType

(* Back and forward. *)
LEMMA TraverseArrives ==
  ASSUME FlowInv, NEW step \in Int, Traverse(step)
  PROVE  LET h == [hist EXCEPT !.at = step]
         IN  /\ WellFormed(h) /\ Entries(h) = Entries(hist) /\ Arrive(h)
             /\ Here(h) \in Entries(hist) /\ (Here(h)[1] = "review" => Here(h)[2] # NoSub)
<1> DEFINE h == [hist EXCEPT !.at = step]
<1>1. WellFormed(hist) /\ step \in 1 .. Len(hist.entries) /\ Arrive(h)
  BY DEF Traverse, FlowInv, Typed, HistoryTyped
<1>2. h.entries = hist.entries /\ h.at = step /\ h \in History
  BY <1>1 DEF WellFormed, History
<1>3. WellFormed(h) /\ Entries(h) = Entries(hist)
  BY <1>1, <1>2 DEF WellFormed, Entries
<1>4. Here(h) \in Entries(hist)
  BY <1>3, HereIsEntry
<1>5. Exists(Here(h))
  BY <1>4 DEF FlowInv, ReviewsExist
<1>6. QED
  BY <1>1, <1>3, <1>4, <1>5 DEF Exists, NoSub

LEMMA TraverseKeeps ==
  ASSUME FlowInv, NEW step \in Int, Traverse(step) PROVE FlowInv'
<1> DEFINE h == [hist EXCEPT !.at = step]
<1>1. /\ WellFormed(h) /\ Entries(h) = Entries(hist) /\ Arrive(h)
      /\ (Here(h)[1] = "review" => Here(h)[2] # NoSub)
  BY TraverseArrives
<1> HIDE DEF h
<1>2. /\ ~dirty /\ UNCHANGED <<blocked, game, autosave, disk, offer, review, rows>>
  BY DEF Traverse, saving
<1>3. HistoryTyped
  BY DEF FlowInv, Typed
<1>4. /\ WellFormed(hist') /\ sub' \in Nat /\ dirty' \in BOOLEAN /\ PageIsEntry'
      /\ Entries(hist') \subseteq Entries(h) \union {Quiz}
      /\ (page' # page => dirty') /\ Leave(page')
  BY <1>1, <1>3, ArriveKeeps
<1>5. HistoryTyped'
  BY <1>2, <1>3, <1>4 DEF HistoryTyped
<1>6. \A p \in Entries(hist') : Exists(p)
  BY <1>1, <1>4 DEF FlowInv, ReviewsExist, Exists, Quiz
<1>7. PostsRemain
  BY <1>4, LeaveRemain DEF FlowInv, Typed
<1>8. Consistent(game') /\ (~dirty' => Stocked(page', game')) /\ OfferIsQuiet'
  BY <1>2, <1>4 DEF FlowInv, GuardsHold, OfferIsQuiet
<1>9. QED
  BY <1>2, <1>4, <1>5, <1>6, <1>7, <1>8, Carried, InvKeepsType

(* A page that has come to its results pushes its own entry again.          *)
LEMMA OwnEntryAgain ==
  ASSUME FlowInv, page' = page, sub' = sub, dirty' \in BOOLEAN,
         \/ hist' = Push(hist, Here(hist)) /\ blocked' = TRUE
         \/ UNCHANGED <<hist, blocked>>
  PROVE  HistoryTyped' /\ PageIsEntry' /\ Entries(hist') \subseteq Entries(hist)
<1>1. WellFormed(hist') /\ Here(hist') = Here(hist) /\ Entries(hist') \subseteq Entries(hist)
  BY InvKeepsType, PushKeeps
<1>2. QED
  BY <1>1 DEF FlowInv, Typed, HistoryTyped, PageIsEntry

LEMMA BootAnsweredKeeps ==
  ASSUME FlowInv, BootAnswered PROVE FlowInv'
<1>1. /\ page' = page /\ sub' = sub /\ dirty' = dirty
      /\ \/ hist' = Push(hist, Here(hist)) /\ blocked' = TRUE
         \/ UNCHANGED <<hist, blocked>>
      /\ UNCHANGED <<game, autosave, disk, offer, review, rows, posts>>
  BY DEF BootAnswered, where, saving, server
<1>2. HistoryTyped' /\ PageIsEntry' /\ Entries(hist') \subseteq Entries(hist)
  BY <1>1, OwnEntryAgain DEF FlowInv, Typed, HistoryTyped
<1>3. PostsRemain
  BY <1>1, PostsStay DEF FlowInv, Typed
<1>4. Consistent(game') /\ (~dirty' => Stocked(page', game')) /\ OfferIsQuiet'
  BY <1>1 DEF FlowInv, GuardsHold, OfferIsQuiet
<1>5. QED
  BY <1>1, <1>2, <1>3, <1>4, Carried, InvKeepsType DEF FlowInv, ReviewsExist

(* The game becomes that of the constitution answered, which is somebody's. *)
LEMMA GotReviewKeeps ==
  ASSUME FlowInv, NEW id \in Id, GotReview(id) PROVE FlowInv'
<1>1. /\ id \in 1 .. Len(rows) /\ page' = page /\ sub' = sub /\ dirty' = dirty
      /\ \/ hist' = Push(hist, Here(hist)) /\ blocked' = TRUE
         \/ UNCHANGED <<hist, blocked>>
      /\ game' = [game EXCEPT !.country = rows[id], !.selected = rows[id]]
      /\ review' = [review EXCEPT !.asked = @ \ {id}, !.getting = FALSE, !.shown = TRUE]
      /\ autosave' = SaveDebounced(autosave)
      /\ UNCHANGED <<disk, offer, rows, posts>>
  BY DEF GotReview, asking, server
<1>2. rows[id] \in Whose /\ rows[id] # "nobody's"
  BY <1>1 DEF FlowInv, Typed, ServerTyped, GuardsHold, NobodysIsPosted
<1>3. game' \in Game /\ game'.filtered = game.filtered /\ game'.country # "nobody's"
  BY <1>1, <1>2, InvKeepsType DEF Game
<1>4. review' \in Requests
  BY <1>1, InvKeepsType DEF Requests
<1>5. autosave' \in Autosave /\ OfferIsQuiet'
  BY <1>1, SaveDebouncedTyped, InvKeepsType DEF FlowInv, OfferIsQuiet
<1>6. HistoryTyped' /\ PageIsEntry' /\ Entries(hist') \subseteq Entries(hist)
  BY <1>1, OwnEntryAgain DEF FlowInv, Typed, HistoryTyped
<1>7. PostsRemain
  BY <1>1, PostsStay DEF FlowInv, Typed
<1>8. Consistent(game') /\ (~dirty' => Stocked(page', game'))
  BY <1>1, <1>3 DEF FlowInv, GuardsHold, Consistent, Stocked
<1>9. QED
  BY <1>1, <1>3, <1>4, <1>5, <1>6, <1>7, <1>8, Carried DEF FlowInv, ReviewsExist

(* The review gone to is the one of the row the request made. *)
LEMMA PostAnsweredKeeps ==
  ASSUME FlowInv, NEW i \in 1 .. MaxPosts, PostAnswered(i) PROVE FlowInv'
<1> DEFINE id == posts[i].id
<1>1. /\ i \in DOMAIN posts /\ id # NoSub /\ ~dirty
      /\ UNCHANGED <<blocked, game, autosave, disk, offer, review, rows>>
  BY DEF PostAnswered, saving
<1>2. /\ posts \in Seq(Post) /\ i \in 1 .. Len(posts) /\ ServerTyped /\ HistoryTyped
  BY <1>1 DEF FlowInv, Typed, ServerTyped
<1>3. id \in Nat /\ id \in 1 .. Len(rows)
  BY <1>1, <1>2 DEF Post, FlowInv, ReviewsExist
<1>4. /\ Consistent(game') /\ OfferIsQuiet'
  BY <1>1 DEF FlowInv, GuardsHold, OfferIsQuiet
<1>5. CASE posts[i].attached
  <2>1. /\ hist' = Push(hist, Review(id)) /\ page' = "review" /\ sub' = id /\ dirty' = TRUE
        /\ posts' = [j \in 1 .. Len(posts) - 1 |-> [RemoveAt(posts, i)[j] EXCEPT !.attached = FALSE]]
    BY <1>5 DEF PostAnswered
  <2>2. PostsRemain
    BY <1>2, <2>1, RemovedDetachedRemain
  <2>3. Review(id) \in Place /\ Exists(Review(id))
    BY <1>3, PathsArePlaces DEF Review, Exists
  <2>4. /\ WellFormed(hist') /\ Here(hist') = Review(id)
        /\ Entries(hist') \subseteq Entries(hist) \union {Review(id)}
    BY <1>2, <2>1, <2>3, PushKeeps DEF HistoryTyped
  <2>5. HistoryTyped'
    BY <1>1, <1>2, <1>3, <2>1, <2>4 DEF HistoryTyped
  <2>6. PageIsEntry'
    BY <2>1, <2>4 DEF PageIsEntry, Review
  <2>7. \A p \in Entries(hist') : Exists(p)
    BY <2>3, <2>4 DEF FlowInv, ReviewsExist
  <2>8. QED
    BY <1>1, <1>4, <2>1, <2>2, <2>5, <2>6, <2>7, Carried, InvKeepsType
<1>6. CASE ~posts[i].attached
  <2>1. posts' = RemoveAt(posts, i) /\ UNCHANGED <<hist, page, sub, dirty>>
    BY <1>6 DEF PostAnswered
  <2>2. PostsRemain
    BY <1>1, <1>2, <2>1, RemovedRemain
  <2>3. HistoryTyped' /\ PageIsEntry' /\ \A p \in Entries(hist') : Exists(p)
    BY <1>1, <2>1 DEF FlowInv, Typed, HistoryTyped, PageIsEntry, ReviewsExist
  <2>4. ~dirty' => Stocked(page', game')
    BY <1>1, <2>1 DEF FlowInv, GuardsHold
  <2>5. QED
    BY <1>1, <1>4, <2>2, <2>3, <2>4, Carried, InvKeepsType
<1>7. QED
  BY <1>5, <1>6

(* The documents, by whatever way they come. *)
LEMMA DocumentKeeps ==
  ASSUME FlowInv, NEW h, WellFormed(h), Load(h), \A p \in Entries(h) : Exists(p),
         disk' \in {disk, NoSave}
  PROVE  FlowInv'
<1>1. /\ HistoryTyped' /\ PageIsEntry' /\ dirty' /\ game' = NewGame /\ rows' = rows
      /\ Entries(hist') \subseteq Entries(h) \union {Quiz}
      /\ autosave' = [disabled |-> TRUE, timer |-> FALSE]
  BY LoadKeeps
<1>2. \A p \in Entries(hist') : Exists(p)
  BY <1>1 DEF Exists, Quiz
<1>3. PostsRemain
  BY DetachedRemain DEF Load, FlowInv, Typed
<1>4. game' \in Game /\ Consistent(game')
  BY <1>1 DEF Game, NewGame, Whose, Consistent
<1>5. autosave' \in Autosave /\ OfferIsQuiet'
  BY <1>1 DEF Autosave, OfferIsQuiet
<1>6. review' \in Requests
  BY DEF Load, Requests
<1>7. QED
  BY <1>1, <1>2, <1>3, <1>4, <1>5, <1>6, Carried

LEMMA OpenKeeps ==
  ASSUME FlowInv, NEW p \in Place, NEW l, Open(p, l), Exists(p) PROVE FlowInv'
<1>1. Load([entries |-> <<p>>, at |-> 1]) /\ disk' = disk
  BY DEF Open
<1>2. QED
  BY <1>1, LinkIsWellFormed, DocumentKeeps

Document == OpenLink \/ VotingCompleted \/ RestartGame \/ Reload \/ OpenNewGame

LEMMA DocumentsKeep ==
  ASSUME FlowInv, Document PROVE FlowInv'
<1>1. Root \in Place /\ Exists(Root) /\ \A p \in Links : p \in Place /\ Exists(p)
  BY PathsArePlaces, LinksAssumption DEF Exists, Root, FlowInv, ReviewsExist, Typed, ServerTyped
<1>2. CASE OpenLink
  BY <1>1, <1>2, OpenKeeps DEF OpenLink
<1>3. CASE VotingCompleted
  BY <1>1, <1>3, OpenKeeps DEF VotingCompleted
<1>4. CASE RestartGame
  BY <1>1, <1>4, OpenKeeps DEF RestartGame
<1>5. CASE Reload \/ OpenNewGame
  <2>1. Load(hist) /\ disk' \in {disk, NoSave}
    BY <1>5 DEF Reload, OpenNewGame
  <2>2. QED
    BY <2>1, DocumentKeeps, InvKeepsType DEF FlowInv, ReviewsExist
<1>6. QED
  BY <1>2, <1>3, <1>4, <1>5 DEF Document

LEMMA EqualSequences ==
  ASSUME NEW S, NEW s \in Seq(S), NEW t \in Seq(S), Len(s) = Len(t),
         \A i \in 1 .. Len(s) : s[i] = t[i]
  PROVE  s = t
OBVIOUS

LEMMA PairOfPaths ==
  ASSUME NEW p \in Place, NEW q \in Place
  PROVE  <<p>> \o <<q>> = <<p, q>>
<1>1. /\ <<p>> \o <<q>> \in Seq(Place) /\ Len(<<p>> \o <<q>>) = 2
      /\ (<<p>> \o <<q>>)[1] = p /\ (<<p>> \o <<q>>)[2] = q
  OBVIOUS
<1>2. <<p, q>> \in Seq(Place) /\ Len(<<p, q>>) = 2 /\ <<p, q>>[1] = p /\ <<p, q>>[2] = q
  OBVIOUS
<1> DEFINE s == <<p>> \o <<q>>
           t == <<p, q>>
<1>3. s \in Seq(Place) /\ t \in Seq(Place) /\ Len(s) = 2 /\ Len(t) = 2 /\ s[1] = t[1] /\ s[2] = t[2]
  BY <1>1, <1>2
<1> HIDE DEF s, t
<1>4. \A i \in 1 .. Len(s) : s[i] = t[i]
  BY <1>3
<1>5. s = t
  BY <1>3, <1>4, EqualSequences
<1>6. QED
  BY <1>5 DEF s, t

(* Where the guards lead: to no review, and to the page itself only when    *)
(* the ballot has nothing selected.                                         *)
Led(p, via) ==
  /\ Went(p, via) /\ via \subseteq {Quiz, CreateCountry, FilterArticles, AreaBallot}
  /\ p \in via /\ (page' = page => page = "area-ballot" /\ game.filtered)

LEMMA GuardsLead ==
  ASSUME FlowInv, Redirects # <<>>, GoTo(Redirects)
  PROVE  /\ \E p, via : Led(p, via)
         /\ page = "review" => sub = NoSub
<1>1. HistoryTyped /\ Consistent(game)
  BY DEF FlowInv, Typed, GuardsHold
<1>2. CASE page # "quiz" /\ ~game.quizDone /\ sub = NoSub
  <2>1. Redirects = <<Quiz>>
    BY <1>2 DEF Redirects
  <2>2. Went(Quiz, {Quiz})
    BY <1>1, <2>1, GoToOne, PathsArePlaces
  <2>3. QED
    BY <1>2, <2>2 DEF Led, Went, Quiz
<1>3. CASE ~(page # "quiz" /\ ~game.quizDone /\ sub = NoSub) /\ page = "area-ballot"
  <2> DEFINE unfiltered == IF game.filtered THEN <<>>
                           ELSE IF game.country = "nobody's" THEN <<CreateCountry>>
                           ELSE <<FilterArticles>>
             unselected == IF game.selected # "nobody's" THEN <<>>
                           ELSE IF game.filtered THEN <<AreaBallot>> ELSE <<FilterArticles>>
  <2>1. Redirects = unfiltered \o unselected
    BY <1>3 DEF Redirects
  <2>2. CASE game.filtered
    <3>1. Redirects = <<AreaBallot>>
      BY <2>1, <2>2
    <3>2. Went(AreaBallot, {AreaBallot})
      BY <1>1, <3>1, GoToOne, PathsArePlaces
    <3>3. QED
      BY <1>3, <2>2, <3>2 DEF Led
  <2>3. CASE ~game.filtered /\ game.selected # "nobody's"
    <3>1. Redirects = <<CreateCountry>> \/ Redirects = <<FilterArticles>>
      BY <2>1, <2>3
    <3>2. Went(CreateCountry, {CreateCountry}) \/ Went(FilterArticles, {FilterArticles})
      BY <1>1, <3>1, GoToOne, PathsArePlaces
    <3>3. QED
      BY <1>3, <3>2 DEF Led, Went, CreateCountry, FilterArticles
  <2>4. CASE ~game.filtered /\ game.selected = "nobody's"
    <3>1. Redirects = <<CreateCountry, FilterArticles>> \/ Redirects = <<FilterArticles, FilterArticles>>
      <4>1. unfiltered = <<CreateCountry>> \/ unfiltered = <<FilterArticles>>
        BY <2>4
      <4>2. unselected = <<FilterArticles>>
        BY <2>4
      <4>3. QED
        BY <2>1, <4>1, <4>2, PairOfPaths, PathsArePlaces
    <3>2. \/ Went(FilterArticles, {FilterArticles, CreateCountry})
          \/ Went(FilterArticles, {FilterArticles, FilterArticles})
      BY <1>1, <3>1, GoToTwo, PathsArePlaces
    <3>3. QED
      BY <1>3, <3>2 DEF Led, Went, FilterArticles
  <2>5. QED
    BY <1>3, <2>2, <2>3, <2>4
<1>4. CASE ~(page # "quiz" /\ ~game.quizDone /\ sub = NoSub) /\ page # "area-ballot"
  <2>1. /\ Redirects = <<CreateCountry>>
        /\ page = "filter-articles" \/ (page = "review" /\ sub = NoSub)
    BY <1>4 DEF Redirects
  <2>2. Went(CreateCountry, {CreateCountry})
    BY <1>1, <2>1, GoToOne, PathsArePlaces
  <2>3. QED
    BY <2>1, <2>2 DEF Led, Went, CreateCountry
<1>5. QED
  BY <1>2, <1>3, <1>4

LEMMA LetStay ==
  ASSUME FlowInv, Redirects = <<>>
  PROVE  Stocked(page, game)
<1>1. CASE page = "area-ballot"
  <2>1. game.filtered
    BY <1>1 DEF Redirects
  <2>2. QED
    BY <1>1, <2>1 DEF FlowInv, GuardsHold, Consistent, Stocked
<1>2. CASE page # "area-ballot"
  BY <1>2 DEF Redirects, Stocked
<1>3. QED
  BY <1>1, <1>2

LEMMA UpdatedKeeps ==
  ASSUME FlowInv, Updated PROVE FlowInv'
<1>1. /\ UNCHANGED <<game, disk, offer, rows>> /\ autosave' = SaveDebounced(autosave)
      /\ sub \in Nat /\ dirty \in BOOLEAN /\ Consistent(game')
  BY DEF Updated, FlowInv, Typed, HistoryTyped, GuardsHold
<1>2. autosave' \in Autosave /\ OfferIsQuiet'
  BY <1>1, SaveDebouncedTyped, InvKeepsType DEF FlowInv, OfferIsQuiet
<1>3. review' \in Requests
  BY <1>1, InvKeepsType DEF Updated, ReviewAsked, Requests
<1>4. CASE Redirects = <<>>
  <2>1. /\ dirty' = FALSE /\ page' = page /\ sub' = sub /\ posts' = posts
        /\ \/ hist' = Push(hist, Here(hist)) /\ blocked' = TRUE
           \/ UNCHANGED <<hist, blocked>>
    BY <1>4 DEF Updated, ShowReview
  <2>2. HistoryTyped' /\ PageIsEntry' /\ Entries(hist') \subseteq Entries(hist)
    BY <2>1, OwnEntryAgain
  <2>3. PostsRemain
    BY <2>1, PostsStay DEF FlowInv, Typed
  <2>4. Stocked(page', game')
    BY <1>1, <1>4, <2>1, LetStay
  <2>5. QED
    BY <1>1, <1>2, <1>3, <2>2, <2>3, <2>4, Carried, InvKeepsType DEF FlowInv, ReviewsExist
<1>5. CASE Redirects # <<>>
  <2>1. GoTo(Redirects) /\ UNCHANGED blocked
    BY <1>5 DEF Updated
  <2>2. PICK p, via : Led(p, via)
    BY <1>5, <2>1, GuardsLead
  <2>3. NoReview(via) /\ p[1] # "review"
    BY <2>2 DEF Led, NoReview, Quiz, CreateCountry, FilterArticles, AreaBallot
  <2>4. ~dirty' => Stocked(page', game')
    <3>1. ~dirty' => page' = page
      BY <2>2 DEF Led, Went
    <3>2. QED
      BY <1>1, <2>2, <3>1 DEF Led, Consistent, Stocked
  <2>5. QED
    BY <1>1, <1>2, <1>3, <2>1, <2>2, <2>3, <2>4, WentKeeps, InvKeepsType
    DEF Led, NoReview, Exists
<1>6. QED
  BY <1>4, <1>5

-----------------------------------------------------------------------------
(* Whose review it is, one action at a time.                                *)

LEMMA OwnCarried ==
  ASSUME OwnInv, rows' = rows, disk' \in {disk, NoSave}, PostsRemain, strayed' \/ ~strayed,
         ~strayed' /\ Kept => (Visiting \/ AtHome)'
  PROVE  OwnInv'
<1>1. AttachedOnBallot'
  BY DEF OwnInv, AttachedOnBallot, PostsRemain
<1>2. ASSUME ~strayed' PROVE Kept'
  <2>1. Kept
    BY <1>2 DEF OwnInv
  <2>2. \A i \in 1 .. Len(posts') :
           /\ posts'[i].whose = "player's"
           /\ posts'[i].id # NoSub => rows[posts'[i].id] = "player's"
    BY <2>1 DEF Kept, PostsRemain
  <2>3. disk' # NoSave => (~Foreign(disk.path))' /\ Own(disk'.game)
    BY <2>1 DEF Kept, Foreign, NoSub
  <2>4. QED
    BY <1>2, <2>1, <2>2, <2>3 DEF Kept
<1>3. QED
  BY <1>1, <1>2 DEF OwnInv

LEMMA ElsewhereKeepsOwn ==
  ASSUME FlowInv, OwnInv, Elsewhere, UNCHANGED past
  PROVE  OwnInv'
<1>1. PostsRemain
  BY PostsStay DEF Elsewhere, FlowInv, Typed
<1>2. QED
  BY <1>1, OwnCarried DEF Elsewhere, past, Kept, Visiting, AtHome, Foreign

(* A step that leaves page and history, and what the visitor's state is of. *)
LEMMA SpotKeepsOwn ==
  ASSUME FlowInv, OwnInv, UNCHANGED <<where, rows, disk, past>>, PostsRemain,
         Visiting => /\ offer' # "open" /\ autosave' = autosave /\ game' = game
                     /\ review'.shown = review.shown,
         AtHome => Own(game')
  PROVE  OwnInv'
BY OwnCarried DEF where, past, Kept, Visiting, AtHome, Foreign

LEMMA SpotActionsKeepOwn ==
  ASSUME FlowInv, OwnInv,
         \/ OfferSavedGame \/ AddItemToFinalList
         \/ \E to \in {"nobody's", "player's"} : SelectedItemsChanged(to)
         \/ PollReview \/ \E id \in Id : ReviewLost(id)
         \/ \E i \in 1 .. MaxPosts : PostLost(i)
  PROVE  OwnInv'
<1>1. ServerTyped /\ game \in Game /\ review \in Requests
  BY InvKeepsType DEF FlowInv, Typed
<1>2. CASE OfferSavedGame
  <2>1. /\ UNCHANGED <<where, rows, disk, past, posts, game, review>>
        /\ page = "review" => offer' = "closed" /\ UNCHANGED autosave
    BY <1>2 DEF OfferSavedGame, server
  <2>2. PostsRemain
    BY <1>1, <2>1, PostsStay DEF where
  <2>3. QED
    BY <2>1, <2>2, SpotKeepsOwn DEF Visiting, AtHome
<1>3. CASE AddItemToFinalList
  <2>1. /\ UNCHANGED <<where, rows, disk, past, posts>> /\ page # "review"
        /\ game' = [game EXCEPT !.filtered = TRUE]
    BY <1>3 DEF AddItemToFinalList, OnPage, saving, server
  <2>2. PostsRemain
    BY <1>1, <2>1, PostsStay DEF where
  <2>3. Own(game) => Own(game')
    BY <1>1, <2>1 DEF Own, Game
  <2>4. QED
    BY <2>1, <2>2, <2>3, SpotKeepsOwn DEF Visiting, AtHome
<1>4. ASSUME NEW to \in {"nobody's", "player's"}, SelectedItemsChanged(to) PROVE OwnInv'
  <2>1. /\ UNCHANGED <<where, rows, disk, past, posts>> /\ page # "review"
        /\ game' = [game EXCEPT !.selected = to]
    BY <1>4 DEF SelectedItemsChanged, OnPage, server
  <2>2. PostsRemain
    BY <1>1, <2>1, PostsStay DEF where
  <2>3. Own(game) => Own(game')
    BY <1>1, <2>1 DEF Own, Game
  <2>4. QED
    BY <2>1, <2>2, <2>3, SpotKeepsOwn DEF Visiting, AtHome
<1>5. CASE PollReview \/ \E id \in Id : ReviewLost(id)
  <2>1. /\ UNCHANGED <<where, rows, disk, past, posts, game, autosave, offer>>
        /\ review'.shown = review.shown
    BY <1>1, <1>5 DEF PollReview, ReviewLost, Requests, saving, server, asking
  <2>2. PostsRemain
    BY <1>1, <2>1, PostsStay DEF where
  <2>3. QED
    BY <2>1, <2>2, SpotKeepsOwn DEF Visiting, AtHome
<1>6. ASSUME NEW i \in 1 .. MaxPosts, PostLost(i) PROVE OwnInv'
  <2>1. UNCHANGED <<where, rows, disk, past, game, autosave, offer, review>>
    BY <1>6 DEF PostLost, saving, asking
  <2>2. PostsRemain
    BY <1>1, <1>6, RemovedRemain DEF PostLost, where
  <2>3. QED
    BY <2>1, <2>2, SpotKeepsOwn DEF Visiting, AtHome
<1>7. QED
  BY <1>2, <1>3, <1>4, <1>5, <1>6

(* Nothing is saved during a visit. *)
LEMMA AutoSaveKeepsOwn ==
  ASSUME FlowInv, OwnInv, AutoSave PROVE OwnInv'
<1>1. /\ autosave.timer /\ disk' = [path |-> Here(hist), game |-> game]
      /\ UNCHANGED <<page, hist, rows, posts, game, strayed>>
  BY DEF AutoSave, where, server
<1>2. AttachedOnBallot'
  BY <1>1 DEF OwnInv, AttachedOnBallot
<1>3. ASSUME ~strayed PROVE Kept'
  <2>1. Kept /\ AtHome
    BY <1>1, <1>3 DEF OwnInv, Kept, Visiting
  <2>2. ~Foreign(Here(hist)) /\ Own(game)
    BY <2>1, InvKeepsType DEF AtHome
  <2>3. disk'.path = Here(hist) /\ disk'.game = game
    BY <1>1
  <2>4. AtHome'
    BY <1>1, <2>1 DEF AtHome, Foreign
  <2>5. (~Foreign(disk.path))' /\ Own(disk'.game)
    BY <1>1, <2>2, <2>3 DEF Foreign
  <2>6. QED
    BY <1>1, <2>1, <2>4, <2>5 DEF Kept
<1>4. QED
  BY <1>1, <1>2, <1>3 DEF OwnInv

(* What the player posts is the player's, since the ballot is no visit. *)
LEMMA PostConstitutionKeepsOwn ==
  ASSUME FlowInv, OwnInv, PostConstitution PROVE OwnInv'
<1> DEFINE new == [attached |-> TRUE, whose |-> game.selected, id |-> NoSub]
<1>1. /\ page = "area-ballot" /\ game.selected # "nobody's" /\ posts' = Append(posts, new)
      /\ UNCHANGED <<page, hist, rows, disk, game, strayed>>
  BY DEF PostConstitution, OnPage, saving, past, where
<1>2. posts \in Seq(Post) /\ Len(posts) \in Nat /\ game \in Game
  BY DEF FlowInv, Typed, ServerTyped, GameTyped
<1>3. new.id = NoSub /\ new.whose = game.selected
  OBVIOUS
<1> HIDE DEF new
<1>4. \A i \in 1 .. Len(posts') : posts'[i] = new \/ (i \in 1 .. Len(posts) /\ posts'[i] = posts[i])
  BY <1>1, <1>2
<1>5. AttachedOnBallot'
  BY <1>1 DEF AttachedOnBallot
<1>6. ASSUME ~strayed PROVE Kept'
  <2>1. Kept /\ AtHome
    BY <1>1, <1>6 DEF OwnInv, Kept, Visiting
  <2>2. game.selected = "player's"
    BY <1>1, <1>2, <2>1 DEF AtHome, Own, Game, Whose
  <2>3. AtHome'
    BY <1>1, <2>1 DEF AtHome, Foreign
  <2>4. QED
    BY <1>1, <1>3, <1>4, <2>1, <2>2, <2>3 DEF Kept, Foreign
<1>7. QED
  BY <1>1, <1>5, <1>6 DEF OwnInv

(* A new row is of whom it was posted for, and renames no review. *)
LEMMA CreateConstitutionKeepsOwn ==
  ASSUME FlowInv, OwnInv, NEW i \in 1 .. MaxPosts, CreateConstitution(i) PROVE OwnInv'
<1>1. /\ i \in DOMAIN posts /\ rows' = Append(rows, posts[i].whose)
      /\ posts' = [posts EXCEPT ![i].id = Len(rows')]
      /\ UNCHANGED <<page, hist, disk, game, autosave, review, offer, strayed>>
  BY DEF CreateConstitution, saving, asking, where, past
<1>2. /\ posts \in Seq(Post) /\ i \in 1 .. Len(posts) /\ rows \in Seq(Whose)
      /\ Len(posts) \in Nat /\ Len(rows) \in Nat /\ Len(rows) >= 1 /\ Len(posts') = Len(posts)
  BY <1>1 DEF FlowInv, Typed, ServerTyped, ReviewsExist
<1>3. /\ Len(rows') = Len(rows) + 1 /\ rows'[Len(rows')] = posts[i].whose
      /\ \A k \in 1 .. Len(rows) : rows'[k] = rows[k]
  BY <1>1, <1>2
<1>4. /\ \A k \in 1 .. Len(posts) : k # i => posts'[k] = posts[k]
      /\ posts'[i] = [posts[i] EXCEPT !.id = Len(rows')]
  BY <1>1, <1>2
<1>5. /\ posts'[i].id = Len(rows') /\ posts'[i].whose = posts[i].whose
      /\ posts'[i].attached = posts[i].attached
  <2>1. posts[i] \in Post
    BY <1>2
  <2>2. QED
    BY <1>4, <2>1 DEF Post
<1>6. AttachedOnBallot'
  BY <1>1, <1>2, <1>4, <1>5 DEF OwnInv, AttachedOnBallot
<1>7. \A p : Exists(p) => (Foreign(p) <=> Foreign(p)')
  BY <1>3 DEF Exists, Foreign
<1>8. \A p \in Entries(hist) : Foreign(p) <=> Foreign(p)'
  BY <1>7 DEF FlowInv, ReviewsExist
<1>9. ASSUME ~strayed PROVE Kept'
  <2>1. Kept
    BY <1>9 DEF OwnInv
  <2>2. posts[i].whose = "player's"
    BY <1>2, <2>1 DEF Kept
  <2>3. (\A k \in 2 .. Len(rows) : rows[k] = "player's")' /\ rows'[1] = "another's"
    BY <1>2, <1>3, <2>1, <2>2 DEF Kept
  <2>4. \A k \in 1 .. Len(posts') : posts'[k].whose = "player's"
    BY <1>2, <1>4, <1>5, <2>1 DEF Kept
  <2>5. ASSUME NEW k \in 1 .. Len(posts'), posts'[k].id # NoSub
        PROVE  rows'[posts'[k].id] = "player's"
    <3>1. CASE k = i
      BY <1>3, <1>5, <2>2, <3>1
    <3>2. CASE k # i
      <4>1. posts'[k] = posts[k] /\ k \in 1 .. Len(posts)
        BY <1>2, <1>4, <3>2
      <4>2. posts[k].id \in 1 .. Len(rows) /\ rows[posts[k].id] = "player's"
        BY <2>1, <2>5, <4>1 DEF Kept, FlowInv, ReviewsExist
      <4>3. QED
        BY <1>3, <4>1, <4>2
    <3>3. QED
      BY <3>1, <3>2
  <2>6. disk' # NoSave => (~Foreign(disk.path))' /\ Own(disk'.game)
    BY <1>1, <1>7, <2>1 DEF Kept, FlowInv, ReviewsExist, Foreign
  <2>7. (Visiting \/ AtHome)'
    <3>1. Entries(hist)' = Entries(hist)
      BY <1>1 DEF Entries
    <3>2. CASE Visiting
      BY <1>1, <1>8, <3>1, <3>2 DEF Visiting
    <3>3. CASE AtHome
      BY <1>1, <1>8, <3>1, <3>3 DEF AtHome
    <3>4. QED
      BY <2>1, <3>2, <3>3 DEF Kept
  <2>8. QED
    BY <2>3, <2>4, <2>5, <2>6, <2>7 DEF Kept
<1>10. QED
  BY <1>1, <1>6, <1>9 DEF OwnInv

LEMMA WentKeepsOwn ==
  ASSUME FlowInv, OwnInv, NEW p, NEW via, Went(p, via), rows' = rows, disk' = disk,
         strayed' = strayed,
         Kept => AtHome /\ Own(game') /\ \A q \in via : ~Foreign(q)
  PROVE  OwnInv'
<1>1. PostsRemain
  BY LeaveRemain DEF Went, FlowInv, Typed
<1>2. ASSUME ~strayed', Kept PROVE AtHome'
  BY <1>2 DEF Went, AtHome, Foreign
<1>3. QED
  BY <1>1, <1>2, OwnCarried

(* A visitor is not at a finished stage, and sees no button that plays on. *)
LEMMA StageKeepsOwn ==
  ASSUME FlowInv, OwnInv, Stage PROVE OwnInv'
<1>1. PICK p \in {CreateCountry, FilterArticles, AreaBallot} :
           Went(p, {p}) /\ UNCHANGED <<rows, disk, past>>
  BY StagesGo
<1>2. p[1] # "review"
  BY DEF CreateCountry, FilterArticles, AreaBallot
<1>3. Kept => AtHome
  BY StagesKeepGame DEF Kept, Visiting
<1>4. AtHome => Own(game')
  BY StagesKeepGame DEF AtHome
<1>5. QED
  BY <1>1, <1>2, <1>3, <1>4, WentKeepsOwn DEF past, Foreign

LEMMA RestoreGameKeepsOwn ==
  ASSUME FlowInv, OwnInv, RestoreGame PROVE OwnInv'
<1>1. /\ disk # NoSave /\ offer = "open" /\ game' = disk.game /\ GoTo(<<disk.path>>)
      /\ UNCHANGED <<disk, rows, strayed>>
  BY DEF RestoreGame
<1>2. disk.path \in Place
  BY <1>1 DEF FlowInv, Typed, GameTyped, SavedGame
<1>3. Went(disk.path, {disk.path})
  BY <1>1, <1>2, GoToOne DEF FlowInv, Typed
<1>4. Kept => AtHome /\ ~Foreign(disk.path) /\ Own(disk.game)
  BY <1>1 DEF Kept, Visiting
<1>5. QED
  BY <1>1, <1>3, <1>4, WentKeepsOwn

(* The entries of a visit are all the visited review. *)
LEMMA TraverseKeepsOwn ==
  ASSUME FlowInv, OwnInv, NEW step \in Int, Traverse(step) PROVE OwnInv'
<1> DEFINE h == [hist EXCEPT !.at = step]
<1>1. /\ WellFormed(h) /\ Entries(h) = Entries(hist) /\ Arrive(h) /\ Here(h) \in Entries(hist)
      /\ (Here(h)[1] = "review" => Here(h)[2] # NoSub)
  BY TraverseArrives
<1> HIDE DEF h
<1>2. UNCHANGED <<game, autosave, disk, offer, review, rows, strayed>>
  BY DEF Traverse, saving
<1>3. /\ Entries(hist') \subseteq Entries(hist) \union {Quiz} /\ page' = Here(h)[1]
      /\ (Here(h)[1] # "/" => Entries(hist') \subseteq Entries(hist)) /\ Leave(page')
  BY <1>1, ArriveKeeps DEF FlowInv, Typed
<1>4. PostsRemain
  BY <1>3, LeaveRemain DEF FlowInv, Typed
<1>5. Visiting => Visiting'
  <2> SUFFICES ASSUME Visiting PROVE Visiting'
    OBVIOUS
  <2>1. page' = "review" /\ Entries(hist') \subseteq Entries(hist)
    BY <1>1, <1>3 DEF Visiting, Foreign
  <2>2. QED
    BY <1>2, <2>1 DEF Visiting, Foreign
<1>6. AtHome => AtHome'
  BY <1>2, <1>3 DEF AtHome, Foreign, Quiz
<1>7. QED
  BY <1>2, <1>4, <1>5, <1>6, OwnCarried DEF Kept

LEMMA BootAnsweredKeepsOwn ==
  ASSUME FlowInv, OwnInv, BootAnswered PROVE OwnInv'
<1>1. /\ page' = page /\ sub' = sub /\ dirty' = dirty
      /\ \/ hist' = Push(hist, Here(hist)) /\ blocked' = TRUE
         \/ UNCHANGED <<hist, blocked>>
      /\ UNCHANGED <<game, autosave, disk, offer, review, rows, posts, strayed>>
  BY DEF BootAnswered, where, saving, server, past
<1>2. Entries(hist') \subseteq Entries(hist)
  BY <1>1, OwnEntryAgain DEF FlowInv, Typed, HistoryTyped
<1>3. PostsRemain
  BY <1>1, PostsStay DEF FlowInv, Typed
<1>4. (Visiting => Visiting') /\ (AtHome => AtHome')
  BY <1>1, <1>2 DEF Visiting, AtHome, Foreign
<1>5. QED
  BY <1>1, <1>3, <1>4, OwnCarried DEF Kept

(* On the page of the review that is answered, its country is that review's. *)
LEMMA GotReviewKeepsOwn ==
  ASSUME FlowInv, OwnInv, NEW id \in Id, GotReview(id) PROVE OwnInv'
<1>1. /\ id \in 1 .. Len(rows) /\ page' = page /\ sub' = sub /\ dirty' = dirty
      /\ \/ hist' = Push(hist, Here(hist)) /\ blocked' = TRUE
         \/ UNCHANGED <<hist, blocked>>
      /\ game' = [game EXCEPT !.country = rows[id], !.selected = rows[id]]
      /\ review'.shown = TRUE /\ autosave' = SaveDebounced(autosave)
      /\ strayed' = (strayed \/ Here(hist) # Review(id))
      /\ UNCHANGED <<disk, offer, rows, posts>>
  <2>1. review \in Requests
    BY InvKeepsType
  <2>2. QED
    BY <2>1 DEF GotReview, asking, server, Requests
<1>2. Entries(hist') \subseteq Entries(hist)
  BY <1>1, OwnEntryAgain DEF FlowInv, Typed, HistoryTyped
<1>3. PostsRemain
  BY <1>1, PostsStay DEF FlowInv, Typed
<1>4. game'.country = rows[id] /\ game'.selected = rows[id]
  BY <1>1, InvKeepsType DEF Game
<1>5. ASSUME ~strayed', Kept PROVE (Visiting \/ AtHome)'
  <2>1. Here(hist) = Review(id) /\ Here(hist) \in Entries(hist)
    BY <1>1, <1>5, InvKeepsType
  <2>2. Foreign(Here(hist)) <=> rows[id] # "player's"
    BY <2>1 DEF Foreign, Review
  <2>3. CASE Visiting
    <3>1. rows[id] # "player's"
      BY <2>1, <2>2, <2>3 DEF Visiting
    <3>2. autosave' \in Autosave /\ autosave'.disabled /\ ~autosave'.timer
      BY <1>1, <2>3, SaveDebouncedTyped, InvKeepsType DEF Visiting
    <3>3. \A p \in Entries(hist') : Foreign(p)'
      BY <1>1, <1>2, <2>3 DEF Visiting, Foreign
    <3>4. QED
      BY <1>1, <1>4, <2>3, <3>1, <3>2, <3>3 DEF Visiting
  <2>4. CASE AtHome
    <3>1. rows[id] = "player's"
      BY <2>1, <2>2, <2>4 DEF AtHome
    <3>2. QED
      BY <1>1, <1>2, <1>4, <2>4, <3>1 DEF AtHome, Own, Foreign
  <2>5. QED
    BY <1>5, <2>3, <2>4 DEF Kept
<1>6. QED
  BY <1>1, <1>3, <1>5, OwnCarried

LEMMA PostAnsweredKeepsOwn ==
  ASSUME FlowInv, OwnInv, NEW i \in 1 .. MaxPosts, PostAnswered(i) PROVE OwnInv'
<1> DEFINE id == posts[i].id
<1>1. /\ i \in 1 .. Len(posts) /\ id # NoSub /\ ServerTyped
      /\ UNCHANGED <<game, autosave, disk, offer, review, rows, strayed>>
  BY DEF PostAnswered, saving, past, FlowInv, Typed, ServerTyped
<1>2. CASE posts[i].attached
  <2>1. /\ hist' = Push(hist, Review(id)) /\ page' = "review"
        /\ posts' = [j \in 1 .. Len(posts) - 1 |-> [RemoveAt(posts, i)[j] EXCEPT !.attached = FALSE]]
    BY <1>2 DEF PostAnswered
  <2>2. PostsRemain
    BY <1>1, <2>1, RemovedDetachedRemain
  <2>3. id \in Nat
    <3>1. posts[i] \in Post
      BY <1>1 DEF ServerTyped
    <3>2. QED
      BY <3>1 DEF Post
  <2>4. Entries(hist') \subseteq Entries(hist) \union {Review(id)}
    BY <2>1, <2>3, PathsArePlaces, PushKeeps, InvKeepsType
  <2>5. ASSUME ~strayed', Kept PROVE AtHome'
    <3>1. rows[id] = "player's" /\ AtHome
      BY <1>1, <1>2, <2>5 DEF Kept, Visiting, OwnInv, AttachedOnBallot
    <3>2. ~Foreign(Review(id))
      BY <3>1 DEF Foreign, Review
    <3>3. QED
      BY <1>1, <2>4, <3>1, <3>2 DEF AtHome, Foreign
  <2>6. QED
    BY <1>1, <2>2, <2>5, OwnCarried
<1>3. CASE ~posts[i].attached
  <2>1. posts' = RemoveAt(posts, i) /\ UNCHANGED <<hist, page>>
    BY <1>3 DEF PostAnswered
  <2>2. PostsRemain
    BY <1>1, <2>1, RemovedRemain DEF ServerTyped
  <2>3. (Visiting => Visiting') /\ (AtHome => AtHome')
    BY <1>1, <2>1 DEF Visiting, AtHome, Foreign
  <2>4. QED
    BY <1>1, <2>2, <2>3, OwnCarried DEF Kept
<1>4. QED
  BY <1>2, <1>3

(* A document opened at the one review there is a link to is a visit. *)
LEMMA DocumentKeepsOwn ==
  ASSUME FlowInv, OwnInv, NEW h, WellFormed(h), Load(h), disk' \in {disk, NoSave},
         strayed' = strayed,
         Kept => \/ \A p \in Entries(h) : ~Foreign(p)
                 \/ \A p \in Entries(h) : Foreign(p)
  PROVE  OwnInv'
<1>1. /\ game' = NewGame /\ rows' = rows /\ page' = Here(h)[1] /\ offer' = "due"
      /\ Entries(hist') \subseteq Entries(h) \union {Quiz}
      /\ (Here(h)[1] # "/" => hist' = h)
      /\ autosave' = [disabled |-> TRUE, timer |-> FALSE]
  BY LoadKeeps
<1>2. PostsRemain
  BY DetachedRemain DEF Load, FlowInv, Typed
<1>3. NewGame.country = "nobody's" /\ NewGame.selected = "nobody's"
  BY DEF NewGame
<1>4. (\A p \in Entries(h) : ~Foreign(p)) => AtHome'
  BY <1>1, <1>3 DEF AtHome, Own, Foreign, Quiz
<1>5. (\A p \in Entries(h) : Foreign(p)) => Visiting'
  <2> SUFFICES ASSUME \A p \in Entries(h) : Foreign(p) PROVE Visiting'
    OBVIOUS
  <2>1. Here(h)[1] = "review"
    BY HereIsEntry DEF Foreign
  <2>2. QED
    BY <1>1, <1>3, <2>1 DEF Visiting, Foreign
<1>6. QED
  BY <1>1, <1>2, <1>4, <1>5, OwnCarried

LEMMA OpenKeepsOwn ==
  ASSUME FlowInv, OwnInv, NEW p \in Place, NEW l, Open(p, l), strayed' = strayed
  PROVE  OwnInv'
<1>1. Load([entries |-> <<p>>, at |-> 1]) /\ disk' = disk
  BY DEF Open
<1>2. QED
  BY <1>1, LinkIsWellFormed, DocumentKeepsOwn

LEMMA DocumentsKeepOwn ==
  ASSUME FlowInv, OwnInv, Document PROVE OwnInv'
<1>1. Root \in Place /\ \A p \in Links : p \in Place
  BY PathsArePlaces
<1>2. CASE OpenLink
  BY <1>1, <1>2, OpenKeepsOwn DEF OpenLink, OneLoadMore
<1>3. CASE VotingCompleted
  BY <1>1, <1>3, OpenKeepsOwn DEF VotingCompleted
<1>4. CASE RestartGame
  BY <1>1, <1>4, OpenKeepsOwn DEF RestartGame, OneLoadMore
<1>5. CASE Reload \/ OpenNewGame
  <2>1. Load(hist) /\ disk' \in {disk, NoSave} /\ strayed' = strayed
    BY <1>5 DEF Reload, OpenNewGame, OneLoadMore
  <2>2. QED
    BY <2>1, DocumentKeepsOwn, InvKeepsType DEF Kept, Visiting, AtHome
<1>6. QED
  BY <1>2, <1>3, <1>4, <1>5 DEF Document

(* The guards send nobody away from a review that has a sub path. *)
LEMMA UpdatedKeepsOwn ==
  ASSUME FlowInv, OwnInv, Updated PROVE OwnInv'
<1>1. /\ UNCHANGED <<game, disk, offer, rows, strayed>> /\ autosave' = SaveDebounced(autosave)
  BY DEF Updated, past
<1>2. CASE Redirects = <<>>
  <2>1. /\ dirty' = FALSE /\ page' = page /\ sub' = sub /\ posts' = posts
        /\ \/ hist' = Push(hist, Here(hist)) /\ blocked' = TRUE
           \/ UNCHANGED <<hist, blocked>>
    BY <1>2 DEF Updated, ShowReview
  <2>2. Entries(hist') \subseteq Entries(hist)
    BY <2>1, OwnEntryAgain
  <2>3. PostsRemain
    BY <2>1, PostsStay DEF FlowInv, Typed
  <2>4. review'.shown = review.shown
    BY InvKeepsType DEF Updated, ReviewAsked, Requests
  <2>5. Visiting => Visiting'
    <3> SUFFICES ASSUME Visiting PROVE Visiting'
      OBVIOUS
    <3>1. autosave' \in Autosave /\ autosave'.disabled /\ ~autosave'.timer
      BY <1>1, SaveDebouncedTyped, InvKeepsType DEF Visiting
    <3>2. QED
      BY <1>1, <2>1, <2>2, <2>4, <3>1 DEF Visiting, Foreign
  <2>6. AtHome => AtHome'
    BY <1>1, <2>2 DEF AtHome, Foreign
  <2>7. QED
    BY <1>1, <2>3, <2>5, <2>6, OwnCarried DEF Kept
<1>3. CASE Redirects # <<>>
  <2>1. GoTo(Redirects)
    BY <1>3 DEF Updated
  <2>2. PICK p, via : Led(p, via)
    BY <1>3, <2>1, GuardsLead
  <2>3. \A q \in via : ~Foreign(q)
    BY <2>2 DEF Led, Foreign, Quiz, CreateCountry, FilterArticles, AreaBallot
  <2>4. Kept => AtHome
    BY <1>3, <2>1, GuardsLead, InvKeepsType DEF Kept, Visiting
  <2>5. QED
    BY <1>1, <2>2, <2>3, <2>4, WentKeepsOwn DEF Led, AtHome
<1>4. QED
  BY <1>2, <1>3

-----------------------------------------------------------------------------
(* The quiz.                                                                *)

(* The guard of the quiz still holds the player back. *)
QuizDue == ~game.quizDone /\ ~led.now

AtQuiz ==
  /\ sub = NoSub /\ Here(hist)[2] = NoSub
  /\ ~dirty => page = "quiz"

(* Whoever the quiz is due for is at the quiz, or on the way to it; and a   *)
(* game that was saved before the quiz without such a way round it was      *)
(* saved at the quiz.                                                       *)
QuizInv ==
  /\ led \in [now : BOOLEAN, saved : BOOLEAN]
  /\ QuizDue => AtQuiz
  /\ offer # "closed" => ~game.quizDone
  /\ disk # NoSave /\ ~disk.game.quizDone /\ ~led.saved =>
       disk.path[1] = "quiz" /\ disk.path[2] = NoSub

(* A step that plays no quiz and finds no way round it. *)
LEMMA QuizCarried ==
  ASSUME QuizInv, UNCHANGED led, disk' \in {disk, NoSave}, game'.quizDone = game.quizDone,
         offer' # "closed" => offer # "closed",
         QuizDue => AtQuiz'
  PROVE  QuizInv'
BY DEF QuizInv, QuizDue

(* The page stays what it is. *)
LEMMA SpotKeepsQuiz ==
  ASSUME QuizInv, UNCHANGED <<page, sub, dirty, led>>, disk' \in {disk, NoSave},
         Here(hist') = Here(hist), game'.quizDone = game.quizDone,
         offer' # "closed" => offer # "closed"
  PROVE  QuizInv'
<1>1. QuizDue => AtQuiz'
  BY DEF QuizInv, AtQuiz
<1>2. QED
  BY <1>1, QuizCarried

LEMMA OwnEntryIsHere ==
  ASSUME FlowInv,
         \/ hist' = Push(hist, Here(hist)) /\ blocked' = TRUE
         \/ UNCHANGED <<hist, blocked>>
  PROVE  Here(hist') = Here(hist)
BY PushKeeps, InvKeepsType

LEMMA SpotActionsKeepQuiz ==
  ASSUME FlowInv, QuizInv,
         \/ Idle \/ UNCHANGED vars \/ OfferSavedGame \/ AddItemToFinalList
         \/ \E to \in {"nobody's", "player's"} : SelectedItemsChanged(to)
         \/ PollReview \/ \E id \in Id : ReviewLost(id)
         \/ \E i \in 1 .. MaxPosts : PostLost(i) \/ CreateConstitution(i)
         \/ PostConstitution
  PROVE  QuizInv'
<1>1. game \in Game
  BY InvKeepsType
<1>2. CASE Idle
  BY <1>2, IdleIsElsewhere, SpotKeepsQuiz DEF Elsewhere, past
<1>3. CASE UNCHANGED vars
  BY <1>3, SpotKeepsQuiz DEF vars, where, saving, asking, past
<1>4. CASE OfferSavedGame
  BY <1>4, SpotKeepsQuiz DEF OfferSavedGame, where, past
<1>5. CASE AddItemToFinalList
  <2>1. game'.quizDone = game.quizDone
    BY <1>1, <1>5 DEF AddItemToFinalList, Game
  <2>2. QED
    BY <1>5, <2>1, SpotKeepsQuiz DEF AddItemToFinalList, where, saving, asking, past
<1>6. ASSUME NEW to \in {"nobody's", "player's"}, SelectedItemsChanged(to) PROVE QuizInv'
  <2>1. game'.quizDone = game.quizDone
    BY <1>1, <1>6 DEF SelectedItemsChanged, Game
  <2>2. QED
    BY <1>6, <2>1, SpotKeepsQuiz DEF SelectedItemsChanged, where, asking, past
<1>7. CASE PollReview \/ PostConstitution
  BY <1>7, SpotKeepsQuiz DEF PollReview, PostConstitution, where, saving, asking, past
<1>8. ASSUME NEW id \in Id, ReviewLost(id) PROVE QuizInv'
  BY <1>8, SpotKeepsQuiz DEF ReviewLost, where, saving, asking, past
<1>9. ASSUME NEW i \in 1 .. MaxPosts, PostLost(i) \/ CreateConstitution(i) PROVE QuizInv'
  BY <1>9, SpotKeepsQuiz DEF PostLost, CreateConstitution, where, saving, asking, past
<1>10. QED
  BY <1>2, <1>3, <1>4, <1>5, <1>6, <1>7, <1>8, <1>9

LEMMA LateAnswersKeepQuiz ==
  ASSUME FlowInv, QuizInv, BootAnswered \/ \E id \in Id : GotReview(id)
  PROVE  QuizInv'
<1>1. CASE BootAnswered
  BY <1>1, OwnEntryIsHere, SpotKeepsQuiz DEF BootAnswered, where, saving, past
<1>2. ASSUME NEW id \in Id, GotReview(id) PROVE QuizInv'
  <2>1. game'.quizDone = game.quizDone
    BY <1>2, InvKeepsType DEF GotReview, Game
  <2>2. QED
    BY <1>2, <2>1, OwnEntryIsHere, SpotKeepsQuiz DEF GotReview, asking
<1>3. QED
  BY <1>1, <1>2

(* The other stages are not on the page of the quiz. *)
LEMMA StageKeepsQuiz ==
  ASSUME FlowInv, QuizInv, Stage PROVE QuizInv'
<1>1. UNCHANGED <<led, disk, offer>>
  BY StagesGo DEF past
<1>2. game \in Game
  BY InvKeepsType
<1>3. CASE FinishQuiz
  <2>1. game'.quizDone /\ offer = "closed"
    BY <1>2, <1>3 DEF FinishQuiz, OnPage, Game
  <2>2. QED
    BY <1>1, <2>1 DEF QuizInv, QuizDue
<1>4. CASE ~FinishQuiz
  <2>1. ~dirty /\ page # "quiz" /\ game'.quizDone = game.quizDone
    BY <1>2, <1>4
    DEF Stage, CreateCountryFinished, FilteringFinished, ResetSelectArticles, OnPage, Game
  <2>2. ~QuizDue
    BY <2>1 DEF QuizInv, AtQuiz
  <2>3. QED
    BY <1>1, <2>1, <2>2, QuizCarried
<1>5. QED
  BY <1>3, <1>4

LEMMA PostAnsweredKeepsQuiz ==
  ASSUME FlowInv, OwnInv, QuizInv, NEW i \in 1 .. MaxPosts, PostAnswered(i) PROVE QuizInv'
<1>1. /\ ~dirty /\ i \in 1 .. Len(posts) /\ UNCHANGED <<game, disk, offer, led>>
  BY DEF PostAnswered, saving, past, FlowInv, Typed, ServerTyped
<1>2. CASE posts[i].attached
  <2>1. ~QuizDue
    BY <1>1, <1>2 DEF QuizInv, AtQuiz, OwnInv, AttachedOnBallot
  <2>2. QED
    BY <1>1, <2>1, QuizCarried
<1>3. CASE ~posts[i].attached
  BY <1>1, <1>3, SpotKeepsQuiz DEF PostAnswered
<1>4. QED
  BY <1>2, <1>3

(* An entry that leads past the quiz has a sub path. *)
LEMMA TraverseKeepsQuiz ==
  ASSUME FlowInv, QuizInv, NEW step \in Int, Traverse(step) PROVE QuizInv'
<1> DEFINE h == [hist EXCEPT !.at = step]
<1>1. /\ WellFormed(h) /\ Arrive(h) /\ (Here(h)[1] = "review" => Here(h)[2] # NoSub)
  BY TraverseArrives
<1> HIDE DEF h
<1>2. ~dirty /\ UNCHANGED <<game, disk, offer>>
  BY DEF Traverse, saving
<1>3. /\ sub' = SubAfter(sub, Here(h)) /\ (Here(h)[2] = NoSub => Here(hist')[2] = NoSub)
      /\ (page' # page => dirty')
  BY <1>1, ArriveKeeps DEF FlowInv, Typed
<1>4. /\ led' = [led EXCEPT !.now = led.now \/ (Here(h)[2] # NoSub /\ ~game.quizDone)]
      /\ led \in [now : BOOLEAN, saved : BOOLEAN]
  BY <1>1 DEF Arrive, QuizInv
<1>5. /\ led' \in [now : BOOLEAN, saved : BOOLEAN] /\ led'.saved = led.saved
      /\ led'.now = (led.now \/ (Here(h)[2] # NoSub /\ ~game.quizDone))
  BY <1>4
<1>6. ASSUME QuizDue' PROVE AtQuiz'
  <2>1. QuizDue /\ Here(h)[2] = NoSub
    BY <1>2, <1>5, <1>6 DEF QuizDue
  <2>2. QED
    BY <1>2, <1>3, <2>1 DEF SubAfter, QuizInv, AtQuiz
<1>7. QED
  BY <1>2, <1>5, <1>6 DEF QuizInv

(* So does the address of a document that starts past the quiz. *)
LEMMA DocumentKeepsQuiz ==
  ASSUME FlowInv, QuizInv, NEW h, WellFormed(h), Load(h), disk' \in {disk, NoSave}
  PROVE  QuizInv'
<1>1. /\ dirty' /\ game' = NewGame /\ sub' = Here(h)[2]
      /\ (Here(h)[2] = NoSub => Here(hist')[2] = NoSub)
  BY LoadKeeps
<1>2. led' = [led EXCEPT !.now = sub' # NoSub] /\ led \in [now : BOOLEAN, saved : BOOLEAN]
  BY DEF Load, QuizInv
<1>3. /\ led' \in [now : BOOLEAN, saved : BOOLEAN] /\ led'.saved = led.saved
      /\ led'.now = (sub' # NoSub)
  BY <1>2
<1>4. ~NewGame.quizDone
  BY DEF NewGame
<1>5. QED
  BY <1>1, <1>3, <1>4 DEF QuizInv, QuizDue, AtQuiz

LEMMA DocumentsKeepQuiz ==
  ASSUME FlowInv, QuizInv, Document PROVE QuizInv'
<1>1. Root \in Place /\ \A p \in Links : p \in Place
  BY PathsArePlaces
<1>2. ASSUME NEW p \in Place, NEW l, Open(p, l) PROVE QuizInv'
  BY <1>2, LinkIsWellFormed, DocumentKeepsQuiz DEF Open
<1>3. CASE OpenLink \/ VotingCompleted \/ RestartGame
  BY <1>1, <1>2, <1>3 DEF OpenLink, VotingCompleted, RestartGame
<1>4. CASE Reload \/ OpenNewGame
  <2>1. Load(hist) /\ disk' \in {disk, NoSave}
    BY <1>4 DEF Reload, OpenNewGame
  <2>2. QED
    BY <2>1, DocumentKeepsQuiz, InvKeepsType
<1>5. QED
  BY <1>3, <1>4 DEF Document

(* A restored game is as far past the quiz as the saved one. *)
LEMMA RestoreGameKeepsQuiz ==
  ASSUME FlowInv, QuizInv, RestoreGame PROVE QuizInv'
<1>1. /\ disk # NoSave /\ offer = "open" /\ offer' = "closed" /\ ~dirty /\ UNCHANGED disk
      /\ game' = disk.game /\ GoTo(<<disk.path>>)
      /\ led' = [led EXCEPT !.now = led.now \/ led.saved]
  BY DEF RestoreGame
<1>2. disk.path \in Place
  BY <1>1 DEF FlowInv, Typed, GameTyped, SavedGame
<1>3. Went(disk.path, {disk.path}) /\ sub' = SubAfter(sub, disk.path)
  BY <1>1, <1>2, GoToOne DEF FlowInv, Typed, GoTo
<1>4. led \in [now : BOOLEAN, saved : BOOLEAN] /\ ~game.quizDone
  BY <1>1 DEF QuizInv
<1>5. /\ led' \in [now : BOOLEAN, saved : BOOLEAN] /\ led'.saved = led.saved
      /\ led'.now = (led.now \/ led.saved)
  BY <1>1, <1>4
<1>6. ASSUME QuizDue' PROVE AtQuiz'
  <2>1. QuizDue /\ ~disk.game.quizDone /\ ~led.saved
    BY <1>1, <1>4, <1>5, <1>6 DEF QuizDue
  <2>2. disk.path[1] = "quiz" /\ disk.path[2] = NoSub /\ sub = NoSub
    BY <1>1, <2>1 DEF QuizInv, AtQuiz
  <2>3. QED
    BY <1>3, <2>2 DEF Went, SubAfter, AtQuiz
<1>7. QED
  BY <1>1, <1>5, <1>6 DEF QuizInv

LEMMA AutoSaveKeepsQuiz ==
  ASSUME FlowInv, QuizInv, AutoSave PROVE QuizInv'
<1>1. /\ ~dirty /\ disk' = [path |-> Here(hist), game |-> game]
      /\ led' = [led EXCEPT !.saved = led.now]
      /\ UNCHANGED <<page, sub, dirty, hist, game, offer>>
  BY DEF AutoSave, where, asking
<1>2. led \in [now : BOOLEAN, saved : BOOLEAN]
  BY DEF QuizInv
<1>3. /\ led' \in [now : BOOLEAN, saved : BOOLEAN]
      /\ led'.now = led.now /\ led'.saved = led.now
  BY <1>1, <1>2
<1>4. ~game.quizDone /\ ~led.now => Here(hist)[1] = "quiz" /\ Here(hist)[2] = NoSub
  BY <1>1 DEF QuizInv, QuizDue, AtQuiz, FlowInv, PageIsEntry
<1>5. disk'.path = Here(hist) /\ disk'.game = game
  BY <1>1
<1>6. QED
  BY <1>1, <1>3, <1>4, <1>5 DEF QuizInv, QuizDue, AtQuiz

(* The guard of the quiz is the first. *)
LEMMA UpdatedKeepsQuiz ==
  ASSUME FlowInv, QuizInv, Updated PROVE QuizInv'
<1>1. dirty /\ UNCHANGED <<game, disk, offer, led>>
  BY DEF Updated, past
<1>2. ASSUME QuizDue PROVE AtQuiz'
  <2>1. sub = NoSub /\ Here(hist)[2] = NoSub
    BY <1>2 DEF QuizInv, AtQuiz
  <2>2. CASE page = "quiz"
    <3>1. Redirects = <<>>
      BY <2>2 DEF Redirects
    <3>2. page' = page /\ sub' = sub /\ Here(hist') = Here(hist)
      BY <3>1, OwnEntryIsHere DEF Updated, ShowReview
    <3>3. QED
      BY <2>1, <2>2, <3>2 DEF AtQuiz
  <2>3. CASE page # "quiz"
    <3>1. Redirects = <<Quiz>>
      BY <1>2, <2>1, <2>3 DEF Redirects, QuizDue
    <3>2. GoTo(<<Quiz>>)
      BY <3>1 DEF Updated
    <3>3. Went(Quiz, {Quiz}) /\ sub' = SubAfter(sub, Quiz)
      BY <3>2, GoToOne, PathsArePlaces DEF FlowInv, Typed, GoTo
    <3>4. QED
      BY <2>1, <3>3 DEF Went, Quiz, SubAfter, AtQuiz
  <2>4. QED
    BY <2>2, <2>3
<1>3. QED
  BY <1>1, <1>2, QuizCarried

-----------------------------------------------------------------------------
(* The steps together.                                                      *)

LEMMA InitHolds == Init => FlowInv /\ OwnInv /\ QuizInv
<1> SUFFICES ASSUME Init PROVE FlowInv /\ OwnInv /\ QuizInv
  OBVIOUS
<1>1. /\ hist = [entries |-> <<Root, Quiz>>, at |-> 2] /\ page = "/" /\ sub = 0 /\ dirty = TRUE
      /\ blocked = FALSE /\ game = NewGame /\ disk = NoSave /\ offer = "due"
      /\ autosave = [disabled |-> TRUE, timer |-> FALSE] /\ ~strayed
      /\ review = [polling |-> FALSE, asked |-> {}, getting |-> FALSE, shown |-> FALSE]
      /\ rows = <<"another's">> /\ posts = <<>>
  BY DEF Init, NoSub
<1>2. Root \in Place /\ Quiz \in Place
  BY PathsArePlaces
<1>3. /\ hist.entries = <<Root, Quiz>> /\ hist.at = 2 /\ <<Root, Quiz>> \in Seq(Place)
      /\ Len(<<Root, Quiz>>) = 2 /\ hist \in History
  BY <1>1, <1>2 DEF History
<1>4. WellFormed(hist) /\ Here(hist) = Quiz /\ Entries(hist) = {Root, Quiz}
  BY <1>3, BoundsAssumption DEF WellFormed, Here, Entries
<1>5. Len(rows) = 1 /\ rows[1] = "another's" /\ rows \in Seq(Whose) /\ Len(posts) = 0 /\ posts \in Seq(Post)
  BY <1>1 DEF Whose
<1>6. game \in Game /\ Consistent(game) /\ Own(game)
  BY <1>1 DEF Game, NewGame, Whose, Consistent, Own
<1>7. Typed
  BY <1>1, <1>4, <1>5, <1>6 DEF Typed, HistoryTyped, GameTyped, ServerTyped, Autosave, Requests
<1>8. PageIsEntry /\ OfferIsQuiet
  BY <1>1, <1>4 DEF PageIsEntry, OfferIsQuiet
<1>9. ReviewsExist
  BY <1>1, <1>4, <1>5 DEF ReviewsExist, Exists, Root, Quiz
<1>10. GuardsHold
  BY <1>1, <1>5, <1>6 DEF GuardsHold, NobodysIsPosted
<1>11. AtHome
  BY <1>4, <1>6 DEF AtHome, Foreign, Root, Quiz
<1>12. OwnInv
  BY <1>1, <1>5, <1>11 DEF OwnInv, Kept, AttachedOnBallot
<1>13. QuizInv
  BY <1>1, <1>4 DEF Init, QuizInv, AtQuiz, Quiz, NoSub, NewGame
<1>14. QED
  BY <1>7, <1>8, <1>9, <1>10, <1>12, <1>13 DEF FlowInv

LEMMA PlayKeeps ==
  ASSUME FlowInv, OwnInv, QuizInv, Play PROVE FlowInv' /\ OwnInv' /\ QuizInv'
<1>1. CASE Stage
  BY <1>1, StageKeeps, StageKeepsOwn, StageKeepsQuiz
<1>2. CASE Idle
  BY <1>2, IdleIsElsewhere, ElsewhereKeeps, ElsewhereKeepsOwn, SpotActionsKeepQuiz
<1>3. CASE AddItemToFinalList
  BY <1>3, AddItemToFinalListKeeps, SpotActionsKeepOwn, SpotActionsKeepQuiz
<1>4. ASSUME NEW to \in {"nobody's", "player's"}, SelectedItemsChanged(to)
      PROVE  FlowInv' /\ OwnInv' /\ QuizInv'
  BY <1>4, SelectedItemsChangedKeeps, SpotActionsKeepOwn, SpotActionsKeepQuiz
<1>5. CASE PostConstitution
  BY <1>5, PostConstitutionKeeps, PostConstitutionKeepsOwn, SpotActionsKeepQuiz
<1>6. CASE Document
  BY <1>6, DocumentsKeep, DocumentsKeepOwn, DocumentsKeepQuiz
<1>7. CASE Back \/ Forward
  <2>1. hist.at - 1 \in Int /\ hist.at + 1 \in Int
    BY InvKeepsType DEF WellFormed, History
  <2>2. QED
    BY <1>7, <2>1, TraverseKeeps, TraverseKeepsOwn, TraverseKeepsQuiz DEF Back, Forward
<1>8. QED
  BY <1>1, <1>2, <1>3, <1>4, <1>5, <1>6, <1>7 DEF Play, Stage, Idle, Document

LEMMA DecideKeeps ==
  ASSUME FlowInv, OwnInv, QuizInv, Decide PROVE FlowInv' /\ OwnInv' /\ QuizInv'
<1>1. CASE RestoreGame
  BY <1>1, RestoreGameKeeps, RestoreGameKeepsOwn, RestoreGameKeepsQuiz
<1>2. CASE Idle
  BY <1>2, IdleIsElsewhere, ElsewhereKeeps, ElsewhereKeepsOwn, SpotActionsKeepQuiz
<1>3. CASE Document
  BY <1>3, DocumentsKeep, DocumentsKeepOwn, DocumentsKeepQuiz
<1>4. QED
  BY <1>1, <1>2, <1>3 DEF Decide, Idle, Document

LEMMA BackgroundKeeps ==
  ASSUME FlowInv, OwnInv, QuizInv, Background PROVE FlowInv' /\ OwnInv' /\ QuizInv'
<1>1. CASE Updated
  BY <1>1, UpdatedKeeps, UpdatedKeepsOwn, UpdatedKeepsQuiz
<1>2. CASE Document
  BY <1>2, DocumentsKeep, DocumentsKeepOwn, DocumentsKeepQuiz
<1>3. CASE BootAnswered
  BY <1>3, BootAnsweredKeeps, BootAnsweredKeepsOwn, LateAnswersKeepQuiz
<1>4. CASE Idle
  BY <1>4, IdleIsElsewhere, ElsewhereKeeps, ElsewhereKeepsOwn, SpotActionsKeepQuiz
<1>5. CASE OfferSavedGame
  BY <1>5, OfferSavedGameKeeps, SpotActionsKeepOwn, SpotActionsKeepQuiz
<1>6. CASE AutoSave
  BY <1>6, AutoSaveKeeps, AutoSaveKeepsOwn, AutoSaveKeepsQuiz
<1>7. CASE PollReview \/ \E id \in Id : ReviewLost(id)
  BY <1>7, ReviewRequestsKeep, SpotActionsKeepOwn, SpotActionsKeepQuiz
<1>8. ASSUME NEW id \in Id, GotReview(id) PROVE FlowInv' /\ OwnInv' /\ QuizInv'
  BY <1>8, GotReviewKeeps, GotReviewKeepsOwn, LateAnswersKeepQuiz
<1>9. ASSUME NEW i \in 1 .. MaxPosts, CreateConstitution(i) \/ PostAnswered(i)
      PROVE  FlowInv' /\ OwnInv' /\ QuizInv'
  BY <1>9, CreateConstitutionKeeps, CreateConstitutionKeepsOwn, PostAnsweredKeeps,
     PostAnsweredKeepsOwn, PostAnsweredKeepsQuiz, SpotActionsKeepQuiz
<1>10. ASSUME NEW i \in 1 .. MaxPosts, PostLost(i) PROVE FlowInv' /\ OwnInv' /\ QuizInv'
  BY <1>10, PostLostKeeps, SpotActionsKeepOwn, SpotActionsKeepQuiz
<1>11. QED
  BY <1>1, <1>2, <1>3, <1>4, <1>5, <1>6, <1>7, <1>8, <1>9, <1>10 DEF Background, Idle, Document

LEMMA StutterKeeps ==
  ASSUME FlowInv, OwnInv, QuizInv, UNCHANGED vars PROVE FlowInv' /\ OwnInv' /\ QuizInv'
<1>1. Elsewhere /\ UNCHANGED past
  BY DEF vars, where, saving, asking, server, past, Elsewhere
<1>2. QED
  BY <1>1, ElsewhereKeeps, ElsewhereKeepsOwn, SpotActionsKeepQuiz

(* The inductive invariant of the game: types, the page and its entry, the  *)
(* reviews and the table, whose they are, and who the quiz is due for.      *)
THEOREM FlowInvariant == Spec => [](FlowInv /\ OwnInv /\ QuizInv)
<1>1. Init => FlowInv /\ OwnInv /\ QuizInv
  BY InitHolds
<1>2. FlowInv /\ OwnInv /\ QuizInv /\ [Next]_vars => (FlowInv /\ OwnInv /\ QuizInv)'
  BY PlayKeeps, DecideKeeps, BackgroundKeeps, StutterKeeps DEF Next
<1>3. QED
  BY <1>1, <1>2, PTL DEF Spec

(* No page is shown, by whatever links, redirects, saved games and history  *)
(* the player came, that lacks the country or the articles it works on; nor *)
(* any but the quiz before the quiz is done, unless an address with a sub   *)
(* path let the player past its guard.                                      *)
THEOREM FlowPrerequisitesMet == Spec => []PrerequisitesMet
<1>1. FlowInv /\ QuizInv => PrerequisitesMet
  BY DEF FlowInv, GuardsHold, QuizInv, QuizDue, AtQuiz, PrerequisitesMet, Settled, Needs
<1>2. QED
  BY <1>1, FlowInvariant, PTL

(* A saved game names a page that its own stages open, the quiz included    *)
(* unless it was led past it, and no review that the server does not have.  *)
THEOREM FlowSavedGameIsResumable == Spec => []SavedGameIsResumable
<1>1. FlowInv /\ QuizInv => SavedGameIsResumable
  <2> SUFFICES ASSUME FlowInv, QuizInv, disk # NoSave
               PROVE  /\ Needs(disk.path[1], disk.game, led.saved)
                      /\ disk.path[1] = "review" => disk.path[2] \in DOMAIN rows
    BY DEF SavedGameIsResumable
  <2>1. Needs(disk.path[1], disk.game, led.saved)
    BY DEF FlowInv, GuardsHold, QuizInv, Needs
  <2>2. DOMAIN rows = 1 .. Len(rows) /\ Exists(disk.path)
    BY DEF FlowInv, Typed, ServerTyped, ReviewsExist
  <2>3. QED
    BY <2>1, <2>2 DEF Exists
<1>2. QED
  BY <1>1, FlowInvariant, PTL

(* The player's own review is of a constitution the player posted, as long  *)
(* as no shared review has come to another page than its own.               *)
THEOREM FlowOwnReviewIsPosted == Spec => []OwnReviewIsPosted
<1>1. FlowInv /\ OwnInv => OwnReviewIsPosted
  <2> SUFFICES ASSUME FlowInv, OwnInv, ~strayed, ~dirty, page = "review", game.country = "player's"
               PROVE  sub \in DOMAIN rows /\ rows[sub] = "player's"
    BY DEF OwnReviewIsPosted
  <2>1. AtHome
    BY DEF OwnInv, Kept, Visiting
  <2>2. /\ Here(hist)[1] = "review" /\ sub = Here(hist)[2]
        /\ Exists(Here(hist)) /\ ~Foreign(Here(hist))
    BY <2>1, InvKeepsType DEF FlowInv, PageIsEntry, AtHome
  <2>3. DOMAIN rows = 1 .. Len(rows)
    BY DEF FlowInv, Typed, ServerTyped
  <2>4. QED
    BY <2>2, <2>3 DEF Exists, Foreign
<1>2. QED
  BY <1>1, FlowInvariant, PTL

(* No step writes the saved game while the player is asked about it.        *)
THEOREM FlowSavedGameSurvivesTheOffer == Spec => SavedGameSurvivesTheOffer
<1>1. FlowInv /\ [Next]_vars => [offer = "open" /\ offer' = "open" => disk' = disk]_vars
  <2> SUFFICES ASSUME FlowInv, Next, offer = "open", offer' = "open"
               PROVE  disk' = disk
    BY DEF vars
  <2>1. ~AutoSave
    BY DEF AutoSave, FlowInv, OfferIsQuiet
  <2>2. ~OpenNewGame
    BY DEF OpenNewGame, Load
  <2>3. CASE Stage \/ Idle \/ RestoreGame
    BY <2>3, StagesGo, IdleIsElsewhere DEF RestoreGame, Elsewhere
  <2>4. CASE OpenLink \/ VotingCompleted \/ RestartGame \/ Reload
    BY <2>4 DEF OpenLink, VotingCompleted, RestartGame, Reload, Open
  <2>5. CASE Back \/ Forward
    BY <2>5 DEF Back, Forward, Traverse, saving
  <2>6. CASE AddItemToFinalList \/ PostConstitution
    BY <2>6 DEF AddItemToFinalList, PostConstitution, saving
  <2>7. ASSUME NEW to, SelectedItemsChanged(to) PROVE disk' = disk
    BY <2>7 DEF SelectedItemsChanged
  <2>8. CASE Updated \/ BootAnswered \/ OfferSavedGame \/ PollReview
    BY <2>8 DEF Updated, BootAnswered, OfferSavedGame, PollReview, saving
  <2>9. ASSUME NEW id, GotReview(id) \/ ReviewLost(id) PROVE disk' = disk
    BY <2>9 DEF GotReview, ReviewLost, saving
  <2>10. ASSUME NEW i, CreateConstitution(i) \/ PostAnswered(i) \/ PostLost(i) PROVE disk' = disk
    BY <2>10 DEF CreateConstitution, PostAnswered, PostLost, saving
  <2>11. QED
    BY <2>1, <2>2, <2>3, <2>4, <2>5, <2>6, <2>7, <2>8, <2>9, <2>10
    DEF Next, Play, Decide, Background, Stage, Idle
<1>2. QED
  BY <1>1, FlowInvariant, PTL DEF Spec, SavedGameSurvivesTheOffer

=============================================================================
