------------------------------ MODULE PostViewer ------------------------------
(***************************************************************************)
(* The viewer of one post (yp-post): the post, the points people made for  *)
(* and against it, its description and its vote buttons.  The post and its *)
(* points come from another server, in answers that may be late: the        *)
(* viewer is told of another post while it still waits for the last one    *)
(* (a saved game restored, Back and Forward), and an answer does not say   *)
(* whose question it was taken for.  The points are kept in two lists for  *)
(* a wide window and in a merged one for a small one, which a handler of   *)
(* `resize' and the answer fill between them.                              *)
(*                                                                         *)
(* Setting a post tells the elements below in the order of the page: the    *)
(* header with cover, description and vote buttons, then the points.  Once  *)
(* the player in the cover was started, replacing the post ends in an       *)
(* exception in the cover, and what comes after it is told only when        *)
(* something of its own changes.  (The cover itself is in MediaElement.)    *)
(*                                                                         *)
(* Nobody is ever logged in here: adding, editing and translating are not  *)
(* reachable, and a vote ends in an exception.                             *)
(***************************************************************************)
EXTENDS Naturals, Sequences, SequencesExt, FiniteSets, Sublists

CONSTANTS
  Posts,
  NoId,       \* the path /post has no id
  PointsOf,   \* the points of each post, as the server lists them: 2 is for it, 0 against, 1 neither
  Described,  \* the posts that have a description of their own
  LawIssues,  \* those the header appends the status of a law issue to
  Playable,   \* the posts whose cover has a player with a video or an audio
  Formatted,  \* the texts that formatting, or cutting, changes
  VotingOff,  \* the posts whose group does not vote
  Null, Empty,
  MaxAsked    \* bounds the requests of a kind that are under way

Point == UNION {Range(PointsOf[p]) : p \in Posts}
WithStatus(p) == <<p, "issueStatus">>
Text ==  \* a post's own, a point's, or a law issue's with its status
  Posts \cup {pt.id : pt \in Point} \cup {WithStatus(p) : p \in LawIssues}

ASSUME PointsAssumption ==
  PointsOf \in [Posts -> Seq([id : {pt.id : pt \in Point}, value : {0, 1, 2}])]
ASSUME PostsAssumption ==
  /\ Described \subseteq Posts /\ LawIssues \subseteq Described
  /\ Playable \subseteq Posts /\ VotingOff \subseteq Posts
ASSUME TextsAssumption == Formatted \subseteq Text /\ NoId \notin Posts /\ Empty \notin Text
ASSUME NullAssumption == Null \notin Seq(Point)
ASSUME BoundAssumption == MaxAsked \in Nat \ {0}

VARIABLES
  postId,       \* what the app asks for
  post,         \* what is shown, with the description it has by now
  description,  \* the element that shows the description
  lists,        \* storedPoints, upPoints, downPoints, points
  largeMode,    \* what the media query last said
  allDisabled,  \* of the vote buttons
  started,      \* playStartedAt of the cover
  unflushed,    \* the elements that were not told of the present post
  ajax,         \* requests under way and spinner, per kind
  past          \* what went wrong on this element, for the properties

vars == <<postId, post, description, lists, largeMode, allDisabled, started, unflushed, ajax, past>>

NoLists == [stored |-> Null, up |-> Null, down |-> Null, points |-> Null]
Quiet == [underWay |-> [p \in Posts |-> 0], active |-> FALSE]
NewText == [content |-> Empty, truncated |-> Empty, final |-> Empty]
Calm == [late |-> FALSE, hurried |-> FALSE, shrunk |-> FALSE, failed |-> FALSE,
         thrown |-> FALSE]

TypeOK ==
  LET requests == [underWay : [Posts -> Nat], active : BOOLEAN]
  IN /\ postId \in Posts \cup {NoId}
     /\ post \in {Null} \cup [id : Posts, description : Text \cup {Empty}]
     /\ description \in [content : Text \cup {Empty}, truncated : Text \cup {Empty},
                         final : Formatted \cup {Empty}]
     /\ lists \in [DOMAIN NoLists -> {Null} \cup Seq(Point)]
     /\ lists.down = Null => lists.up = Null
     /\ largeMode \in BOOLEAN /\ allDisabled \in BOOLEAN
     /\ started \in BOOLEAN /\ unflushed \subseteq {"actions", "points"}
     /\ ajax \in [{"post", "points"} -> requests]
     /\ past \in [DOMAIN Calm -> BOOLEAN]

-----------------------------------------------------------------------------
(***************************************************************************)
(* Requests.                                                               *)
(***************************************************************************)

Asked(requests, p) ==
  [underWay |-> [requests.underWay EXCEPT ![p] = @ + 1], active |-> TRUE]
Answered(requests, p) ==
  [underWay |-> [requests.underWay EXCEPT ![p] = @ - 1], active |-> FALSE]
CanAsk(kind) ==
  LET nth == Posts \X (1 .. MaxAsked)
  IN Cardinality({ask \in nth : ask[2] <= ajax[kind].underWay[ask[1]]}) < MaxAsked

-----------------------------------------------------------------------------
(***************************************************************************)
(* The text element.  An empty content leaves what formatting had made of  *)
(* the last one on the screen.                                             *)
(***************************************************************************)

Finalize(content) == IF content \in Formatted THEN content ELSE Empty
ContentChanged_Once(text, content) ==
  IF content = text.content THEN text
  ELSE IF content = Empty THEN [text EXCEPT !.content = Empty, !.truncated = Empty]
  ELSE [content |-> content, truncated |-> content,
        final |-> IF text.final = Empty THEN Finalize(content) ELSE text.final]

ContentChanged(text, content) ==
  IF content = text.content THEN text
  ELSE IF content = Empty THEN [text EXCEPT !.content = Empty, !.truncated = Empty]
  ELSE [content |-> content, truncated |-> content, final |-> Finalize(content)]

OnScreen == IF description.final # Empty THEN description.final ELSE description.truncated

-----------------------------------------------------------------------------
(***************************************************************************)
(* The lists of points.                                                    *)
(***************************************************************************)

(* One of each in turn, and then the rest of the longer one.                *)
InterleaveArrays(a, b) ==
  LET turns == IF Len(a) < Len(b) THEN Len(a) ELSE Len(b)
      longer == IF Len(a) < Len(b) THEN b ELSE a
  IN [k \in 1 .. Len(a) + Len(b) |->
        IF k > 2 * turns THEN longer[k - turns]
        ELSE IF k % 2 = 1 THEN a[(k + 1) \div 2] ELSE b[k \div 2]]

PointsFor == {pt \in Point : pt.value = 2}
PointsAgainst == {pt \in Point : pt.value = 0}

(* Fills the two lists once, and the merged one for a small window.         *)
ProcessStoredPoints(ls) ==
  LET stored == IF ls.stored = Null THEN <<>> ELSE ls.stored
      set == IF ls.up # Null THEN ls
             ELSE IF stored = <<>>
             THEN [ls EXCEPT !.up = <<>>, !.down = <<>>, !.points = <<>>]
             ELSE [ls EXCEPT !.up = FilterSeq(stored, PointsFor), !.down = FilterSeq(stored, PointsAgainst)]
  IN IF ~largeMode /\ set.points = Null
     THEN [set EXCEPT !.points = InterleaveArrays(set.up, set.down)] ELSE set

(* What the lists on the page are bound to.                                 *)
Shown == IF largeMode THEN <<lists.up, lists.down>> ELSE <<lists.points>>

(* The event yp-debate-info, with the first point of the page.              *)
FirstPoint(ls) ==
  LET first == IF largeMode THEN ls.up ELSE ls.points
  IN IF first = <<>> THEN Null ELSE first[1]

(* The vote buttons are told when something of theirs changes.              *)
FlushActions(disabled, left) ==
  /\ allDisabled' = IF "actions" \in left /\ post # Null THEN post.id \in VotingOff ELSE disabled
  /\ unflushed' = left \ {"actions"}

(* A change below `post' reaches every element of the header.               *)
UpdateDescriptionIfEmpty(content, left) ==
  IF post # Null /\ post.description = Empty
  THEN /\ post' = [post EXCEPT !.description = content]
       /\ description' = ContentChanged(description, content)
       /\ FlushActions(allDisabled, left)
  ELSE UNCHANGED <<post, description, allDisabled>> /\ unflushed' = left

UpdateDebateInfo(first, left) ==
  IF first = Null
  THEN UNCHANGED <<post, description, allDisabled>> /\ unflushed' = left
  ELSE UpdateDescriptionIfEmpty(first.id, left)

-----------------------------------------------------------------------------
(***************************************************************************)
(* What the elements below do when `post' is set to another object, or to  *)
(* null.                                                                   *)
(***************************************************************************)

AskPoints(new, requests) ==
  IF new = Null THEN requests ELSE [requests EXCEPT !["points"] = Asked(@, new.id)]

(* The points forget the former post's, and ask for the new one's.          *)
PostChanged_KeepsLists(new, requests) ==
  /\ UNCHANGED lists
  /\ ajax' = AskPoints(new, requests)

PostChanged(new, requests) ==
  /\ lists' = NoLists
  /\ ajax' = AskPoints(new, requests)

OnPostChanged(new) ==
  IF new = Null THEN UNCHANGED allDisabled ELSE allDisabled' = (new.id \in VotingOff)

(* The text, to which the header appends the status of a law issue.         *)
DescriptionOf(new) ==
  LET text == ContentChanged(description, IF new = Null THEN Empty ELSE new.description)
  IN IF new # Null /\ new.id \in LawIssues THEN ContentChanged(text, WithStatus(new.id)) ELSE text

(* The cover checks how long its player was playing, and throws.            *)
Throws == started /\ post # Null /\ post.id \in Playable

SetPost(new, requests) ==
  /\ post' = new
  /\ IF Throws
     THEN unflushed' = {"actions", "points"} /\ ajax' = requests
          /\ UNCHANGED <<description, lists, allDisabled>>
     ELSE unflushed' = {} /\ description' = DescriptionOf(new)
          /\ OnPostChanged(new) /\ PostChanged(new, requests)

-----------------------------------------------------------------------------
(***************************************************************************)
(* Actions.                                                                *)
(***************************************************************************)

Ask(p, requests) ==
  IF p = NoId THEN requests ELSE [requests EXCEPT !["post"] = Asked(@, p)]

(* The page is left and opened again: another element.  Answers to the      *)
(* former one reach nobody.                                                 *)
Open(p) ==
  /\ postId' = p
  /\ post' = Null /\ description' = NewText /\ lists' = NoLists
  /\ allDisabled' = FALSE /\ started' = FALSE /\ unflushed' = {}
  /\ ajax' = Ask(p, [kind \in DOMAIN ajax |-> Quiet])
  /\ past' = Calm
  /\ UNCHANGED largeMode

(* The same element is told of another post.  `post' is null by then if the *)
(* former one never arrived, and nobody observes null set to null.  An      *)
(* exception of the cover ends the handler before it asks.                  *)
PostIdChanged_KeepsPost(p) ==
  /\ p # postId /\ CanAsk("post")
  /\ postId' = p
  /\ ajax' = Ask(p, ajax)
  /\ UNCHANGED <<post, description, lists, allDisabled, largeMode, started, unflushed, past>>

PostIdChanged(p) ==
  /\ p # postId /\ CanAsk("post")
  /\ postId' = p
  /\ IF post # Null THEN SetPost(Null, IF Throws THEN ajax ELSE Ask(p, ajax))
     ELSE ajax' = Ask(p, ajax) /\ UNCHANGED <<post, description, lists, allDisabled, unflushed>>
  /\ past' = [past EXCEPT !.thrown = @ \/ Throws]
  /\ UNCHANGED <<largeMode, started>>

HandleIncomingPostResponse(p) ==
  /\ ajax["post"].underWay[p] > 0 /\ CanAsk("points")
  /\ SetPost([id |-> p, description |-> IF p \in Described THEN p ELSE Empty],
             [ajax EXCEPT !["post"] = Answered(@, p)])
  /\ past' = [past EXCEPT !.late = p # postId, !.hurried = FALSE, !.failed = FALSE,
                          !.thrown = @ \/ Throws]
  /\ UNCHANGED <<postId, largeMode, started>>

(* The points of an answer are taken for those of the post that is shown.   *)
(* Points that were not told of it yet are told as soon as the answer       *)
(* changes something: the date of the latest point, or else, if they have   *)
(* seen a later one, the stored points, which are then forgotten again.     *)
Response(p) ==
  /\ ajax["points"].underWay[p] > 0
  /\ LET requests == [ajax EXCEPT !["points"] = Answered(@, p)]
     IN ajax' = IF "points" \in unflushed THEN AskPoints(post, requests) ELSE requests
  /\ \E forgotten \in BOOLEAN :
       /\ forgotten => "points" \in unflushed /\ (lists.stored # Null \/ PointsOf[p] = <<>>)
       /\ past' = [past EXCEPT !.late = @ \/ post = Null \/ p # post.id, !.hurried = @ \/ forgotten]
       /\ LET told == IF "points" \in unflushed THEN NoLists ELSE lists
          IN lists' = ProcessStoredPoints([told EXCEPT !.stored = IF forgotten THEN Null ELSE PointsOf[p]])
  /\ UpdateDebateInfo(FirstPoint(lists'), unflushed \ {"points"})
  /\ UNCHANGED <<postId, largeMode, started>>

Error_KeepsSpinner(kind, p) ==
  /\ ajax[kind].underWay[p] > 0
  /\ ajax' = [ajax EXCEPT ![kind].underWay[p] = @ - 1]
  /\ past' = [past EXCEPT !.failed = TRUE]
  /\ UNCHANGED <<postId, post, description, lists, largeMode, allDisabled, started, unflushed>>

(* A request fails: the spinner stops, and the dialog for the error is not  *)
(* there, which ends the handler with an exception.                         *)
Error(kind, p) ==
  /\ ajax[kind].underWay[p] > 0
  /\ ajax' = [ajax EXCEPT ![kind] = Answered(@, p)]
  /\ past' = [past EXCEPT !.failed = TRUE]
  /\ UNCHANGED <<postId, post, description, lists, largeMode, allDisabled, started, unflushed>>

(* A window is resized: first the event, heard with the former mode, then   *)
(* the media query.  Either tells the points of the post if they were not.  *)
Resize(large) ==
  LET fills == lists.up = Null \/ (~largeMode /\ lists.points = Null)
      told == "points" \in unflushed /\ (fills \/ large # largeMode)
  IN /\ IF told
        THEN /\ post # Null => CanAsk("points")
             /\ lists' = IF lists.up = Null THEN [NoLists EXCEPT !.down = <<>>, !.points = <<>>] ELSE NoLists
             /\ ajax' = AskPoints(post, ajax)
             /\ unflushed' = unflushed \ {"points"}
        ELSE lists' = ProcessStoredPoints(lists) /\ UNCHANGED <<ajax, unflushed>>
     /\ largeMode' = large
     /\ past' = [past EXCEPT !.hurried = @ \/ lists.up = Null, !.shrunk = largeMode /\ ~large]
     /\ UNCHANGED <<postId, post, description, allDisabled, started>>

Votable == ~allDisabled
(* upVote and downVote disable the buttons and then ask who is logged in,   *)
(* of an object that does not exist.                                        *)
Vote ==
  /\ Votable
  /\ FlushActions(TRUE, unflushed)
  /\ UNCHANGED <<postId, post, description, lists, largeMode, started, ajax, past>>

(* The player in the cover is started, once it is listened to.              *)
PlayCover ==
  /\ post # Null /\ post.id \in Playable
  /\ started' = TRUE
  /\ UNCHANGED <<postId, post, description, lists, largeMode, allDisabled, unflushed, ajax, past>>

Init ==
  /\ postId \in Posts \cup {NoId}
  /\ post = Null /\ description = NewText /\ lists = NoLists
  /\ largeMode \in BOOLEAN /\ allDisabled = FALSE
  /\ started = FALSE /\ unflushed = {}
  /\ ajax = Ask(postId, [kind \in {"post", "points"} |-> Quiet])
  /\ past = Calm

PostAnswer == \E p \in Posts : Error("post", p) \/ HandleIncomingPostResponse(p)
PointsAnswer == \E p \in Posts : Error("points", p) \/ Response(p)

Next ==
  \/ PostAnswer \/ PointsAnswer
  \/ \E p \in Posts \cup {NoId} : Open(p) \/ PostIdChanged(p)
  \/ \E large \in BOOLEAN : Resize(large)
  \/ Vote
  \/ PlayCover

(* The browser answers every request, if only with a timeout.               *)
Fairness == WF_vars(PostAnswer) /\ WF_vars(PointsAnswer)
Spec == Init /\ [][Next]_vars /\ Fairness

-----------------------------------------------------------------------------
(***************************************************************************)
(* Properties.                                                             *)
(***************************************************************************)

(* The page shows one post: as long as no answer came late and the points   *)
(* were told of the post, it is the one asked for, and lists and            *)
(* description are its own, also after an exception of the cover.           *)
OnePostOnPage ==
  ~past.late /\ "points" \notin unflushed /\ post # Null =>
    LET own == Range(PointsOf[post.id])
    IN /\ post.id = postId
       /\ \A l \in DOMAIN lists : lists[l] = Null \/ Range(lists[l]) \subseteq own
       /\ post.description \in {post.id, Empty} \cup {pt.id : pt \in own}

(* A description that the post has, its own or the first point, with the    *)
(* status of a law issue, is what is on the screen, whatever was there      *)
(* before, until the cover's player ends a change in an exception: from     *)
(* then on the element keeps the former text.                               *)
DescriptionIsShown ==
  post # Null /\ post.description # Empty /\ ~past.thrown =>
    OnScreen = IF post.id \in LawIssues THEN WithStatus(post.id) ELSE post.description

Undisturbed ==
  /\ post # Null /\ "points" \notin unflushed
  /\ \A p \in Posts : ajax["points"].underWay[p] = 0
  /\ ~past.late /\ ~past.hurried /\ ~past.failed /\ ~past.shrunk

(* No point is lost: once every answer is there, in order and without a     *)
(* resize while waiting, all of the post's points that are for or against   *)
(* it are on the page; only the resize that makes the window small may      *)
(* leave it empty, until the next one.  Points that were told of the post   *)
(* late, after an exception of the cover, are complete all the same.        *)
EveryPointIsShown ==
  Undisturbed =>
    /\ \A l \in DOMAIN Shown : Shown[l] # Null
    /\ UNION {Range(Shown[l]) : l \in DOMAIN Shown} =
         {pt \in Range(PointsOf[post.id]) : pt.value # 1}

(* No spinner turns for ever, also when requests fail or overtake another.  *)
SpinnersStop == \A kind \in {"post", "points"} : ajax[kind].active ~> ~ajax[kind].active
=============================================================================
