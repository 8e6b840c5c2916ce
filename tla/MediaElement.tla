----------------------------- MODULE MediaElement -----------------------------
(***************************************************************************)
(* An element of the viewer that plays the video or audio of what it shows *)
(* (ypMediaFormatsBehavior): a yp-point, which the list gives another point *)
(* as the reader scrolls, or the cover of the post, which is emptied before *)
(* a post is asked for and given each that is answered.  Both detach the    *)
(* player's listeners when the item changes and attach new ones 200 ms      *)
(* later.                                                                   *)
(*                                                                         *)
(* Whatever counts the views is not there: a handler that reports one ends  *)
(* with an exception, before it forgets that a player was started.         *)
(***************************************************************************)
EXTENDS Naturals, Sequences, SequencesExt, FiniteSets

CONSTANTS
  Items,   \* what is shown: [category, cover, located, old, media]
  NoItem,
  MaxPending,   \* bounds the changes within 200 ms
  MaxListeners  \* bounds the listeners an element does not know any more

Media == {"none", "video", "audio"}
Cover == Media \cup {"image", "map", "streetView"}

ASSUME ItemsAssumption ==
  Items \subseteq [name : {i.name : i \in Items}, category : BOOLEAN, cover : Cover,
                   located : BOOLEAN, old : BOOLEAN, media : Media]
ASSUME MediaBoundAssumption == MaxPending \in Nat \ {0} /\ MaxListeners \in Nat \ {0}

VARIABLES
  holder,         \* "point" or "cover"
  item,           \* what the element was given last
  user, media,    \* a point's author and media, as taken from an item
  dataId,         \* pointVideoId and pointAudioId, postVideoId and postAudioId
  player,         \* the player on the page
  listeners,      \* the ids that the player's listeners report
  referenced,     \* whether the element knows the last of them
  pending,        \* timers of attachMediaListeners
  playStartedAt,
  hurried         \* an item changed while a timer was running

mediaVars == <<holder, item, user, media, dataId, player, listeners, referenced, pending,
          playStartedAt, hurried>>

NoIds == [video |-> NoItem, audio |-> NoItem]

MediaTypeOK ==
  /\ holder \in {"point", "cover"}
  /\ item \in Items \cup {NoItem} /\ user \in Items \cup {NoItem}
  /\ media \in Media /\ player \in Media
  /\ dataId \in [{"video", "audio"} -> Items \cup {NoItem}]
  /\ listeners \in Seq(Items) /\ Len(listeners) <= MaxListeners
  /\ referenced \in BOOLEAN /\ (player = "none" => listeners = <<>>)
  /\ pending \in 0 .. MaxPending
  /\ playStartedAt \in BOOLEAN /\ hurried \in BOOLEAN

-----------------------------------------------------------------------------
(***************************************************************************)
(* The sections of a cover.                                                *)
(***************************************************************************)

WithCoverMediaType(post, type) ==
  CASE type = "none"     -> ~post.category /\ post.cover = "none"
    [] type = "category" -> post.category /\ post.cover = "none"
    [] OTHER             -> post.cover = type

(* The square images of the categories of old are shown small.              *)
IsCategoryActive(post) == WithCoverMediaType(post, "category") /\ post.old
IsCategoryLargeActive(post) == WithCoverMediaType(post, "category") /\ ~post.old
IsMapActive(post, type) == post.located /\ WithCoverMediaType(post, type)

Sections(post) ==
  {s \in {"none", "image", "video", "audio"} : WithCoverMediaType(post, s)}
    \cup {s \in {"category"} : IsCategoryActive(post)}
    \cup {s \in {"categoryLarge"} : IsCategoryLargeActive(post)}
    \cup {s \in {"map", "streetView"} : IsMapActive(post, s)}

(* The ids of a cover's players are set with their paths, and kept when the *)
(* next post has none.                                                      *)
CoverIds(post) ==
  [kind \in DOMAIN dataId |-> IF post # NoItem /\ post.media = kind THEN post ELSE dataId[kind]]
CoverPlayer(post) ==
  IF post = NoItem \/ Sections(post) \cap {"video", "audio"} = {} THEN "none" ELSE post.cover

-----------------------------------------------------------------------------
(***************************************************************************)
(* Listeners.                                                              *)
(***************************************************************************)

(* The listeners that are left once those known are removed.                *)
Detached_LeavesThem == listeners
Detached == IF referenced THEN Front(listeners) ELSE listeners

(* _checkVideoLongPlayTimeAndReset and its twin for audio; ids is what the  *)
(* players' data-id say by then.                                            *)
CheckThrows(ids) == playStartedAt /\ player # "none" /\ ids[player] # NoItem

(* setupMediaEventListeners, then the page as it is redrawn: a player that  *)
(* stays keeps its listeners, another comes without.                        *)
SetupMediaEventListeners(new, shows, ids) ==
  LET detaches == item # NoItem /\ player # "none"
      attaches == new # NoItem /\ ~(detaches /\ CheckThrows(ids))
      left == IF detaches THEN Detached ELSE listeners
  IN /\ listeners' = IF shows = player THEN left ELSE <<>>
     /\ referenced' = (referenced /\ ~detaches)
     /\ pending' = IF attaches THEN pending + 1 ELSE pending
     /\ hurried' = (hurried \/ (attaches /\ pending > 0))
     /\ playStartedAt' = (playStartedAt /\ (~detaches \/ CheckThrows(ids)))
     /\ player' = shows

-----------------------------------------------------------------------------
(***************************************************************************)
(* Actions.                                                                *)
(***************************************************************************)

ResetMedia(kind, point) ==
  /\ user' = point /\ media' = kind
  /\ dataId' = [k \in DOMAIN dataId |-> IF k = kind THEN point ELSE NoItem]

CanChange == pending < MaxPending /\ pending + Len(listeners) < MaxListeners

(* The list shows another point in the element.  An exception from the      *)
(* check leaves author and media of the former one.                         *)
PointChanged_KeepsMedia(point) ==
  /\ holder = "point" /\ point \notin {item, NoItem} /\ CanChange
  /\ SetupMediaEventListeners(point, IF point.media = "none" THEN media ELSE point.media, dataId)
  /\ ResetMedia(IF point.media = "none" THEN media ELSE point.media, point)
  /\ item' = point
  /\ UNCHANGED holder

PointChanged(point) ==
  /\ holder = "point" /\ point \notin {item, NoItem} /\ CanChange
  /\ IF item # NoItem /\ CheckThrows(dataId)
     THEN /\ SetupMediaEventListeners(point, player, dataId)
          /\ UNCHANGED <<user, media, dataId>>
     ELSE /\ SetupMediaEventListeners(point, point.media, dataId)
          /\ ResetMedia(point.media, point)
  /\ item' = point
  /\ UNCHANGED holder

(* The viewer empties the cover, or shows in it a post that was answered:   *)
(* over the one before, when two were asked for, and even the same again.   *)
(* Its ids are those of the new post before the listeners are changed.      *)
CoverChanged(post) ==
  /\ holder = "cover" /\ (post # NoItem \/ item # NoItem) /\ CanChange
  /\ SetupMediaEventListeners(post, CoverPlayer(post), CoverIds(post))
  /\ dataId' = CoverIds(post)
  /\ item' = post
  /\ UNCHANGED <<holder, user, media>>

(* 200 ms later the listeners go to the player that is there by then.       *)
AttachMediaListeners ==
  /\ pending > 0
  /\ pending' = pending - 1
  /\ IF player = "none" \/ dataId[player] = NoItem
     THEN UNCHANGED <<listeners, referenced>>
     ELSE listeners' = Append(listeners, dataId[player]) /\ referenced' = TRUE
  /\ UNCHANGED <<holder, item, user, media, dataId, player, playStartedAt, hurried>>

(* The play button of the player: each listener sets playStartedAt before   *)
(* it throws.  Pause and end throw before they change anything.             *)
Play ==
  /\ listeners # <<>>
  /\ playStartedAt' = TRUE
  /\ UNCHANGED <<holder, item, user, media, dataId, player, listeners, referenced, pending,
                 hurried>>

MediaInit ==
  /\ holder \in {"point", "cover"}
  /\ item = NoItem /\ user = NoItem /\ media = "none"
  /\ dataId = NoIds /\ player = "none"
  /\ listeners = <<>> /\ referenced = FALSE /\ pending = 0
  /\ playStartedAt = FALSE /\ hurried = FALSE

MediaNext ==
  \/ \E i \in Items : PointChanged(i)
  \/ \E i \in Items \cup {NoItem} : CoverChanged(i)
  \/ AttachMediaListeners
  \/ Play

MediaSpec == MediaInit /\ [][MediaNext]_mediaVars

-----------------------------------------------------------------------------
(***************************************************************************)
(* Properties.                                                             *)
(***************************************************************************)

(* A point is shown with its own author and its own media, however often    *)
(* its element was given another, until a player in it was started.         *)
MediaIsOfPoint ==
  holder = "point" /\ ~playStartedAt =>
    /\ user = item /\ player = media
    /\ media = (IF item = NoItem THEN "none" ELSE item.media)

(* Unless items change within 200 ms, a player has one set of listeners,    *)
(* and they report what is shown, if it has media of its own.               *)
ListenedToOnce ==
  ~hurried =>
    /\ Len(listeners) <= 1
    /\ listeners # <<>> /\ ~playStartedAt /\ item.media = player => listeners = <<item>>
=============================================================================
