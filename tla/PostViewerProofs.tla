--------------------------- MODULE PostViewerProofs ---------------------------
(***************************************************************************)
(* What PostViewer promises for every set of posts, points and texts, and  *)
(* any number of requests under way, and, below, MediaElement for every set *)
(* of items, however many changes come within the 200 ms.                  *)
(***************************************************************************)
EXTENDS PostViewer, MediaElement, SublistProofs

PostType == {Null} \cup [id : Posts, description : Text \cup {Empty}]
TextElement ==
  [content : Text \cup {Empty}, truncated : Text \cup {Empty}, final : Formatted \cup {Empty}]
List == {Null} \cup Seq(Point)
Lists == [stored : List, up : List, down : List, points : List]
Requests == [underWay : [Posts -> Nat], active : BOOLEAN]
Kinds == [{"post", "points"} -> Requests]
Past == [late : BOOLEAN, hurried : BOOLEAN, shrunk : BOOLEAN, failed : BOOLEAN, thrown : BOOLEAN]

Types ==
  /\ postId \in Posts \cup {NoId}
  /\ post \in PostType
  /\ description \in TextElement
  /\ lists \in Lists /\ (lists.down = Null => lists.up = Null)
  /\ largeMode \in BOOLEAN /\ allDisabled \in BOOLEAN
  /\ started \in BOOLEAN /\ unflushed \subseteq {"actions", "points"}
  /\ ajax \in Kinds
  /\ past \in Past

-----------------------------------------------------------------------------
(***************************************************************************)
(* Points.                                                                 *)
(***************************************************************************)

LEMMA PointsTyped ==
  /\ \A p \in Posts : PointsOf[p] \in Seq(Point)
  /\ \A pt \in Point : pt.value \in {0, 1, 2} /\ pt.id \in Text
<1>1. ASSUME NEW p \in Posts PROVE PointsOf[p] \in Seq(Point)
  <2>1. PointsOf[p] \in Seq([id : {pt.id : pt \in Point}, value : {0, 1, 2}])
    BY PointsAssumption
  <2>2. Len(PointsOf[p]) \in Nat /\ DOMAIN PointsOf[p] = 1 .. Len(PointsOf[p])
    BY <2>1
  <2>3. \A i \in 1 .. Len(PointsOf[p]) : PointsOf[p][i] \in Point
    BY <2>2 DEF Point, Range
  <2>4. QED
    BY <2>1, <2>2, <2>3
<1>2. ASSUME NEW pt \in Point PROVE pt.value \in {0, 1, 2} /\ pt.id \in Text
  <2>1. PICK p \in Posts : pt \in Range(PointsOf[p])
    BY DEF Point
  <2> DEFINE Received == [id : {q.id : q \in Point}, value : {0, 1, 2}]
  <2>2. PointsOf[p] \in Seq(Received)
    BY PointsAssumption
  <2>3. PICK i \in DOMAIN PointsOf[p] : pt = PointsOf[p][i]
    BY <2>1 DEF Range
  <2>4. pt \in Received
    <3> HIDE DEF Received
    <3>1. QED
      BY <2>2, <2>3
  <2>5. pt.value \in {0, 1, 2}
    BY <2>4
  <2>6. QED
    BY <2>5 DEF Text
<1>3. QED
  BY <1>1, <1>2

(* A merged list has what the two have.                                     *)
LEMMA InterleavedHas ==
  ASSUME NEW a \in Seq(Point), NEW b \in Seq(Point), NEW r, r = InterleaveArrays(a, b)
  PROVE  r \in Seq(Point) /\ \A y : Has(r, y) <=> Has(a, y) \/ Has(b, y)
<1> DEFINE turns == IF Len(a) < Len(b) THEN Len(a) ELSE Len(b)
           longer == IF Len(a) < Len(b) THEN b ELSE a
           n == Len(a) + Len(b)
<1>1. Len(a) \in Nat /\ Len(b) \in Nat
  OBVIOUS
<1>2. /\ turns \in Nat /\ turns <= Len(a) /\ turns <= Len(b) /\ n \in Nat
      /\ longer \in Seq(Point) /\ Len(longer) + turns = n
      /\ longer = a \/ longer = b
      /\ Len(a) > turns => longer = a
      /\ Len(b) > turns => longer = b
  BY <1>1
<1>3. r = [k \in 1 .. n |->
             IF k > 2 * turns THEN longer[k - turns]
             ELSE IF k % 2 = 1 THEN a[(k + 1) \div 2] ELSE b[k \div 2]]
  BY DEF InterleaveArrays
<1> HIDE DEF turns, longer, n
<1>4. ASSUME NEW k \in 1 .. n, k > 2 * turns
      PROVE  r[k] = longer[k - turns] /\ k - turns \in 1 .. Len(longer)
  <2>1. k - turns \in 1 .. Len(longer)
    BY <1>1, <1>2, <1>4
  <2>2. QED
    BY <1>3, <1>4, <2>1
<1>5. ASSUME NEW k \in 1 .. n, ~(k > 2 * turns), k % 2 = 1
      PROVE  r[k] = a[(k + 1) \div 2] /\ (k + 1) \div 2 \in 1 .. Len(a)
  <2>1. (k + 1) \div 2 \in 1 .. Len(a)
    BY <1>1, <1>2, <1>5
  <2>2. QED
    BY <1>3, <1>5, <2>1
<1>6. ASSUME NEW k \in 1 .. n, ~(k > 2 * turns), k % 2 # 1
      PROVE  r[k] = b[k \div 2] /\ k \div 2 \in 1 .. Len(b)
  <2>1. k \div 2 \in 1 .. Len(b)
    BY <1>1, <1>2, <1>6
  <2>2. QED
    BY <1>3, <1>6, <2>1
<1>7. ASSUME NEW k \in 1 .. n PROVE r[k] \in Point /\ (Has(a, r[k]) \/ Has(b, r[k]))
  <2>1. CASE k > 2 * turns
    <3>1. r[k] = longer[k - turns] /\ k - turns \in 1 .. Len(longer)
      BY <1>4, <2>1
    <3>2. longer[k - turns] \in Point
      BY <1>2, <3>1
    <3>3. Has(longer, r[k])
      BY <3>1 DEF Has
    <3>4. QED
      BY <1>2, <3>1, <3>2, <3>3
  <2>2. CASE ~(k > 2 * turns) /\ k % 2 = 1
    BY <1>5, <2>2 DEF Has
  <2>3. CASE ~(k > 2 * turns) /\ k % 2 # 1
    BY <1>6, <2>3 DEF Has
  <2>4. QED
    BY <2>1, <2>2, <2>3
<1>8. r \in Seq(Point) /\ Len(r) = n
  <2>1. DOMAIN r = 1 .. n /\ r = [k \in 1 .. n |-> r[k]]
    BY <1>3
  <2>2. [k \in 1 .. n |-> r[k]] \in Seq(Point) /\ Len([k \in 1 .. n |-> r[k]]) = n
    BY <1>2, <1>7
  <2>3. QED
    BY <2>1, <2>2
<1>9. ASSUME NEW i \in 1 .. Len(a) PROVE Has(r, a[i])
  <2>1. CASE i <= turns
    <3>1. 2 * i - 1 \in 1 .. n /\ ~(2 * i - 1 > 2 * turns) /\ (2 * i - 1) % 2 = 1 /\ ((2 * i - 1) + 1) \div 2 = i
      BY <1>1, <1>2, <2>1
    <3>2. r[2 * i - 1] = a[i]
      BY <1>5, <3>1
    <3>3. QED
      BY <1>8, <3>1, <3>2 DEF Has
  <2>2. CASE i > turns
    <3>1. longer = a /\ i + turns \in 1 .. n /\ i + turns > 2 * turns /\ (i + turns) - turns = i
      BY <1>1, <1>2, <2>2
    <3>2. r[i + turns] = a[i]
      BY <1>4, <3>1
    <3>3. QED
      BY <1>8, <3>1, <3>2 DEF Has
  <2>3. QED
    BY <1>2, <2>1, <2>2
<1>10. ASSUME NEW i \in 1 .. Len(b) PROVE Has(r, b[i])
  <2>1. CASE i <= turns
    <3>1. 2 * i \in 1 .. n /\ ~(2 * i > 2 * turns) /\ (2 * i) % 2 # 1 /\ (2 * i) \div 2 = i
      BY <1>1, <1>2, <2>1
    <3>2. r[2 * i] = b[i]
      BY <1>6, <3>1
    <3>3. QED
      BY <1>8, <3>1, <3>2 DEF Has
  <2>2. CASE i > turns
    <3>1. longer = b /\ i + turns \in 1 .. n /\ i + turns > 2 * turns /\ (i + turns) - turns = i
      BY <1>1, <1>2, <2>2
    <3>2. r[i + turns] = b[i]
      BY <1>4, <3>1
    <3>3. QED
      BY <1>8, <3>1, <3>2 DEF Has
  <2>3. QED
    BY <1>2, <2>1, <2>2
<1>11. \A y : Has(r, y) => Has(a, y) \/ Has(b, y)
  BY <1>7, <1>8 DEF Has
<1>12. \A y : Has(a, y) => Has(r, y)
  BY <1>9 DEF Has
<1>13. \A y : Has(b, y) => Has(r, y)
  BY <1>10 DEF Has
<1>14. QED
  BY <1>8, <1>11, <1>12, <1>13

-----------------------------------------------------------------------------
(***************************************************************************)
(* The lists.                                                              *)
(***************************************************************************)

(* A list that is set has points of one post only.                          *)
Within(list, own) == list = Null \/ \A y : Has(list, y) => Has(own, y)
AllWithin(ls, own) ==
  Within(ls.stored, own) /\ Within(ls.up, own) /\ Within(ls.down, own) /\ Within(ls.points, own)

(* Once the two lists are filled, they have the points for and against the  *)
(* post, and the merged one has both.                                       *)
Filled(ls, own) ==
  ls.up # Null =>
    /\ \A y : Has(ls.up, y) <=> Has(own, y) /\ y \in PointsFor
    /\ \A y : Has(ls.down, y) <=> Has(own, y) /\ y \in PointsAgainst
    /\ ls.points # Null => \A y : Has(ls.points, y) <=> Has(ls.up, y) \/ Has(ls.down, y)

LEMMA NoPoints == <<>> \in Seq(Point) /\ <<>> # Null /\ \A y : ~Has(<<>>, y)
<1>1. <<>> \in Seq(Point)
  OBVIOUS
<1>2. \A y : ~Has(<<>>, y)
  BY DEF Has
<1>3. QED
  BY <1>1, <1>2, NullAssumption

(* The first step of processing, and the second.                            *)
LEMMA FirstFilled ==
  ASSUME NEW ls \in Lists, ls.up = Null, NEW own \in Seq(Point),
         NEW r, r = [ls EXCEPT !.up = <<>>, !.down = <<>>, !.points = <<>>],
         ls.stored = Null \/ ls.stored = <<>>
  PROVE  /\ r \in Lists /\ r.stored = ls.stored /\ r.up # Null /\ r.down # Null /\ r.points # Null
         /\ AllWithin(ls, own) => AllWithin(r, own)
         /\ ls.stored = own => Filled(r, own)
<1>1. r \in Lists /\ r.stored = ls.stored /\ r.up = <<>> /\ r.down = <<>> /\ r.points = <<>>
  BY NoPoints DEF Lists, List
<1>2. AllWithin(ls, own) => AllWithin(r, own)
  BY <1>1, NoPoints DEF AllWithin, Within
<1>3. ls.stored = own => Filled(r, own)
  <2> SUFFICES ASSUME own = <<>> PROVE Filled(r, own)
    BY NullAssumption
  <2>1. QED
    BY <1>1, NoPoints DEF Filled
<1>4. QED
  BY <1>1, <1>2, <1>3, NoPoints

LEMMA ListsFilled ==
  ASSUME NEW ls \in Lists, ls.stored # Null, NEW own \in Seq(Point),
         NEW r, r = [ls EXCEPT !.up = FilterSeq(ls.stored, PointsFor),
                               !.down = FilterSeq(ls.stored, PointsAgainst)]
  PROVE  /\ r \in Lists /\ r.stored = ls.stored /\ r.points = ls.points /\ r.up # Null /\ r.down # Null
         /\ ls.stored = own /\ ls.points = Null => Filled(r, own)
<1>1. ls.stored \in Seq(Point)
  BY DEF Lists, List
<1> DEFINE up == FilterSeq(ls.stored, PointsFor)
           down == FilterSeq(ls.stored, PointsAgainst)
<1>2. up \in Seq(Point) /\ \A y : Has(up, y) <=> Has(ls.stored, y) /\ y \in PointsFor
  BY <1>1, FilterHas
<1>3. down \in Seq(Point) /\ \A y : Has(down, y) <=> Has(ls.stored, y) /\ y \in PointsAgainst
  BY <1>1, FilterHas
<1> HIDE DEF up, down
<1>4. r = [ls EXCEPT !.up = up, !.down = down]
  BY DEF up, down
<1>5. r \in Lists /\ r.stored = ls.stored /\ r.up = up /\ r.down = down /\ r.points = ls.points
  BY <1>2, <1>3, <1>4 DEF Lists, List
<1>6. ls.stored = own /\ ls.points = Null => Filled(r, own)
  BY <1>2, <1>3, <1>5 DEF Filled
<1>7. r.up # Null /\ r.down # Null
  BY <1>2, <1>3, <1>5, NullAssumption
<1>8. QED
  BY <1>5, <1>6, <1>7

LEMMA Merged ==
  ASSUME NEW ls \in Lists, ls.up # Null, ls.down # Null, NEW own \in Seq(Point),
         NEW r, r = [ls EXCEPT !.points = InterleaveArrays(ls.up, ls.down)]
  PROVE  /\ r \in Lists /\ r.stored = ls.stored /\ r.up = ls.up /\ r.down = ls.down /\ r.points # Null
         /\ AllWithin(ls, own) => AllWithin(r, own)
         /\ Filled(ls, own) => Filled(r, own)
<1> DEFINE merged == InterleaveArrays(ls.up, ls.down)
<1>1. ls.up \in Seq(Point) /\ ls.down \in Seq(Point)
  BY DEF Lists, List
<1>2. merged \in Seq(Point) /\ \A y : Has(merged, y) <=> Has(ls.up, y) \/ Has(ls.down, y)
  BY <1>1, InterleavedHas
<1>3. r = [ls EXCEPT !.points = merged]
  OBVIOUS
<1> HIDE DEF merged
<1>4. r \in Lists /\ r.stored = ls.stored /\ r.up = ls.up /\ r.down = ls.down /\ r.points = merged
  BY <1>2, <1>3 DEF Lists, List
<1>5. AllWithin(ls, own) => AllWithin(r, own)
  BY <1>2, <1>4 DEF AllWithin, Within
<1>6. Filled(ls, own) => Filled(r, own)
  BY <1>2, <1>4 DEF Filled
<1>7. QED
  BY <1>2, <1>4, <1>5, <1>6, NullAssumption

LEMMA Processed ==
  ASSUME NEW ls \in Lists, ls.down = Null => ls.up = Null,
         NEW own \in Seq(Point), NEW r, r = ProcessStoredPoints(ls)
  PROVE  /\ r \in Lists /\ r.stored = ls.stored /\ r.up # Null /\ r.down # Null
         /\ ~largeMode => r.points # Null
         /\ AllWithin(ls, own) => AllWithin(r, own)
         /\ (ls.up # Null \/ (ls.stored = own /\ ls.points = Null)) /\ Filled(ls, own) => Filled(r, own)
<1> DEFINE stored == IF ls.stored = Null THEN <<>> ELSE ls.stored
           set == IF ls.up # Null THEN ls
                  ELSE IF stored = <<>>
                  THEN [ls EXCEPT !.up = <<>>, !.down = <<>>, !.points = <<>>]
                  ELSE [ls EXCEPT !.up = FilterSeq(stored, PointsFor),
                                  !.down = FilterSeq(stored, PointsAgainst)]
<1>1. r = IF ~largeMode /\ set.points = Null
          THEN [set EXCEPT !.points = InterleaveArrays(set.up, set.down)] ELSE set
  BY DEF ProcessStoredPoints
<1>2. /\ set \in Lists /\ set.stored = ls.stored /\ set.up # Null /\ set.down # Null
      /\ AllWithin(ls, own) => AllWithin(set, own)
      /\ (ls.up # Null \/ (ls.stored = own /\ ls.points = Null)) /\ Filled(ls, own) => Filled(set, own)
  <2>1. CASE ls.up # Null
    BY <2>1
  <2>2. CASE ls.up = Null /\ stored = <<>>
    <3>1. set = [ls EXCEPT !.up = <<>>, !.down = <<>>, !.points = <<>>]
      BY <2>2
    <3>2. ls.stored = Null \/ ls.stored = <<>>
      BY <2>2
    <3> HIDE DEF set, stored
    <3>3. QED
      BY <2>2, <3>1, <3>2, FirstFilled
  <2>3. CASE ls.up = Null /\ stored # <<>>
    <3>1. ls.stored # Null /\ set = [ls EXCEPT !.up = FilterSeq(ls.stored, PointsFor),
                                               !.down = FilterSeq(ls.stored, PointsAgainst)]
      BY <2>3
    <3> HIDE DEF set, stored
    <3>2. set \in Lists /\ set.stored = ls.stored /\ set.up # Null /\ set.down # Null
      BY <3>1, ListsFilled
    <3>3. AllWithin(ls, own) => AllWithin(set, own)
      <4> DEFINE up == FilterSeq(ls.stored, PointsFor)
                 down == FilterSeq(ls.stored, PointsAgainst)
      <4>1. ls.stored \in Seq(Point)
        BY <3>1 DEF Lists, List
      <4>2. \A y : Has(up, y) => Has(ls.stored, y)
        BY <4>1, FilterHas
      <4>3. \A y : Has(down, y) => Has(ls.stored, y)
        BY <4>1, FilterHas
      <4>4. set = [ls EXCEPT !.up = up, !.down = down]
        BY <3>1
      <4> HIDE DEF up, down
      <4>5. set.stored = ls.stored /\ set.up = up /\ set.down = down /\ set.points = ls.points
        BY <4>4 DEF Lists
      <4>6. QED
        BY <3>1, <4>2, <4>3, <4>5 DEF AllWithin, Within
    <3>4. ls.stored = own /\ ls.points = Null => Filled(set, own)
      BY <3>1, ListsFilled
    <3>5. QED
      BY <2>3, <3>2, <3>3, <3>4
  <2>4. QED
    BY <2>1, <2>2, <2>3
<1> HIDE DEF set, stored
<1>3. CASE ~largeMode /\ set.points = Null
  <2>1. r = [set EXCEPT !.points = InterleaveArrays(set.up, set.down)]
    BY <1>1, <1>3
  <2>2. /\ r \in Lists /\ r.stored = set.stored /\ r.up = set.up /\ r.down = set.down /\ r.points # Null
        /\ AllWithin(set, own) => AllWithin(r, own)
        /\ Filled(set, own) => Filled(r, own)
    BY <1>2, <2>1, Merged
  <2>3. QED
    BY <1>2, <2>2
<1>4. CASE ~(~largeMode /\ set.points = Null)
  BY <1>1, <1>2, <1>4
<1>5. QED
  BY <1>3, <1>4

-----------------------------------------------------------------------------
(***************************************************************************)
(* The text element, and requests.                                         *)
(***************************************************************************)

(* What is on the screen was made from the content.                         *)
TextIsOfContent(text) ==
  text.content # Empty => text.truncated = text.content /\ text.final \in {Empty, text.content}

LEMMA ContentIsTaken ==
  ASSUME NEW text \in TextElement, TextIsOfContent(text), NEW content \in Text \cup {Empty},
         NEW r, r = ContentChanged(text, content)
  PROVE  r \in TextElement /\ TextIsOfContent(r) /\ r.content = content
<1>1. Empty \notin Text /\ Formatted \subseteq Text
  BY TextsAssumption
<1>2. CASE content = text.content
  BY <1>2 DEF ContentChanged
<1>3. CASE content # text.content /\ content = Empty
  <2>1. r = [text EXCEPT !.content = Empty, !.truncated = Empty]
    BY <1>3 DEF ContentChanged
  <2>2. r \in TextElement /\ r.content = Empty
    BY <2>1 DEF TextElement
  <2>3. QED
    BY <1>3, <2>2 DEF TextIsOfContent
<1>4. CASE content # text.content /\ content # Empty
  <2>1. r = [content |-> content, truncated |-> content, final |-> Finalize(content)]
    BY <1>4 DEF ContentChanged
  <2>2. Finalize(content) \in Formatted \cup {Empty} /\ Finalize(content) \in {Empty, content}
    BY DEF Finalize
  <2>3. r \in TextElement /\ r.content = content /\ r.truncated = content /\ r.final = Finalize(content)
    BY <2>1, <2>2 DEF TextElement
  <2>4. QED
    BY <2>2, <2>3 DEF TextIsOfContent
<1>5. QED
  BY <1>2, <1>3, <1>4

LEMMA AskedTyped ==
  ASSUME NEW requests \in Requests, NEW p \in Posts
  PROVE  /\ Asked(requests, p) \in Requests /\ Asked(requests, p).underWay[p] > 0
BY DEF Asked, Requests

LEMMA AnsweredTyped ==
  ASSUME NEW requests \in Requests, NEW p \in Posts, requests.underWay[p] > 0
  PROVE  /\ Answered(requests, p) \in Requests
         /\ \A q \in Posts : q # p => Answered(requests, p).underWay[q] = requests.underWay[q]
<1>1. requests.underWay \in [Posts -> Nat]
  BY DEF Requests
<1>2. requests.underWay[p] - 1 \in Nat
  BY <1>1
<1>3. QED
  BY <1>1, <1>2 DEF Answered, Requests

LEMMA QuietTyped == Quiet \in Requests /\ [kind \in {"post", "points"} |-> Quiet] \in Kinds
BY DEF Quiet, Requests, Kinds

LEMMA PostIsAsked ==
  ASSUME NEW kinds \in Kinds, NEW p \in Posts \cup {NoId}
  PROVE  Ask(p, kinds) \in Kinds /\ Ask(p, kinds)["points"] = kinds["points"]
<1>1. CASE p = NoId
  BY <1>1 DEF Ask
<1>2. CASE p # NoId
  <2>1. p \in Posts /\ kinds["post"] \in Requests
    BY <1>2 DEF Kinds
  <2>2. Asked(kinds["post"], p) \in Requests
    BY <2>1, AskedTyped
  <2>3. Ask(p, kinds) = [kinds EXCEPT !["post"] = Asked(kinds["post"], p)]
    BY <1>2, <2>1 DEF Ask
  <2>4. QED
    BY <2>2, <2>3 DEF Kinds
<1>3. QED
  BY <1>1, <1>2

(* A law issue's text has its status.                                       *)
Appended(shown) == IF shown.id \in LawIssues THEN WithStatus(shown.id) ELSE shown.description

LEMMA AppendedTyped ==
  ASSUME NEW shown \in PostType, shown # Null
  PROVE  /\ Appended(shown) \in Text \cup {Empty}
         /\ shown.description # Empty => Appended(shown) # Empty
<1>1. shown.id \in Posts /\ shown.description \in Text \cup {Empty}
  BY DEF PostType
<1>2. CASE shown.id \in LawIssues
  <2>1. Appended(shown) \in Text
    BY <1>2 DEF Appended, Text
  <2>2. QED
    BY <2>1, TextsAssumption
<1>3. CASE shown.id \notin LawIssues
  BY <1>1, <1>3 DEF Appended
<1>4. QED
  BY <1>2, <1>3

LEMMA DescriptionIsTaken ==
  ASSUME description \in TextElement, TextIsOfContent(description), NEW new \in PostType
  PROVE  /\ DescriptionOf(new) \in TextElement /\ TextIsOfContent(DescriptionOf(new))
         /\ new # Null => DescriptionOf(new).content = Appended(new)
<1> DEFINE content == IF new = Null THEN Empty ELSE new.description
           text == ContentChanged(description, content)
<1>1. content \in Text \cup {Empty}
  BY DEF PostType
<1>2. text \in TextElement /\ TextIsOfContent(text) /\ text.content = content
  <2> HIDE DEF content
  <2>1. QED
    BY <1>1, ContentIsTaken
<1>3. CASE new # Null /\ new.id \in LawIssues
  <2>1. WithStatus(new.id) \in Text
    BY <1>3 DEF Text
  <2>2. DescriptionOf(new) = ContentChanged(text, WithStatus(new.id))
    BY <1>3 DEF DescriptionOf
  <2> HIDE DEF text
  <2>3. /\ DescriptionOf(new) \in TextElement /\ TextIsOfContent(DescriptionOf(new))
        /\ DescriptionOf(new).content = WithStatus(new.id)
    BY <1>2, <2>1, <2>2, ContentIsTaken
  <2>4. QED
    BY <1>3, <2>3 DEF Appended
<1>4. CASE ~(new # Null /\ new.id \in LawIssues)
  <2>1. DescriptionOf(new) = text
    BY <1>4 DEF DescriptionOf
  <2>2. new # Null => Appended(new) = content
    BY <1>4 DEF Appended
  <2> HIDE DEF text
  <2>3. QED
    BY <1>2, <2>1, <2>2
<1>5. QED
  BY <1>3, <1>4

LEMMA PointsAreAsked ==
  ASSUME NEW kinds \in Kinds, NEW new \in PostType
  PROVE  /\ AskPoints(new, kinds) \in Kinds
         /\ new # Null => AskPoints(new, kinds)["points"].underWay[new.id] > 0
<1>1. CASE new = Null
  BY <1>1 DEF AskPoints
<1>2. CASE new # Null
  <2>1. kinds["points"] \in Requests /\ new.id \in Posts
    BY <1>2 DEF Kinds, PostType
  <2>2. Asked(kinds["points"], new.id) \in Requests /\ Asked(kinds["points"], new.id).underWay[new.id] > 0
    BY <2>1, AskedTyped
  <2>3. AskPoints(new, kinds) = [kinds EXCEPT !["points"] = Asked(kinds["points"], new.id)]
    BY <1>2 DEF AskPoints
  <2>4. AskPoints(new, kinds) \in Kinds /\ AskPoints(new, kinds)["points"] = Asked(kinds["points"], new.id)
    BY <2>2, <2>3 DEF Kinds
  <2>5. QED
    BY <2>2, <2>4
<1>3. QED
  BY <1>1, <1>2

LEMMA Disabled == \A p \in Posts : (p \in VotingOff) \in BOOLEAN
OBVIOUS

(* What follows when another post, or none, is shown: everything below it   *)
(* is told, or, after a start of the cover's player, nothing.               *)
LEMMA PostIsSet ==
  ASSUME NEW kinds \in Kinds, NEW new \in PostType, SetPost(new, kinds),
         description \in TextElement, TextIsOfContent(description), allDisabled \in BOOLEAN
  PROVE  /\ post' = new /\ allDisabled' \in BOOLEAN /\ ajax' \in Kinds
         /\ description' \in TextElement /\ TextIsOfContent(description')
         /\ Throws => lists' = lists /\ unflushed' = {"actions", "points"}
         /\ ~Throws =>
              /\ lists' = NoLists /\ unflushed' = {}
              /\ new # Null => /\ description'.content = Appended(new)
                               /\ ajax'["points"].underWay[new.id] > 0
<1>1. post' = new
  BY DEF SetPost
<1>2. CASE Throws
  BY <1>1, <1>2 DEF SetPost
<1>3. CASE ~Throws
  <2>1. unflushed' = {} /\ description' = DescriptionOf(new) /\ OnPostChanged(new) /\ PostChanged(new, kinds)
    BY <1>3 DEF SetPost
  <2>2. lists' = NoLists /\ ajax' = AskPoints(new, kinds)
    BY <2>1 DEF PostChanged
  <2>3. allDisabled' \in BOOLEAN
    <3>1. CASE new = Null
      BY <2>1, <3>1 DEF OnPostChanged
    <3>2. CASE new # Null
      <4>1. allDisabled' = (new.id \in VotingOff) /\ new.id \in Posts
        BY <2>1, <3>2 DEF OnPostChanged, PostType
      <4>2. QED
        BY <4>1, Disabled
    <3>3. QED
      BY <3>1, <3>2
  <2>4. QED
    BY <1>1, <1>3, <2>1, <2>2, <2>3, PointsAreAsked, DescriptionIsTaken
<1>4. QED
  BY <1>2, <1>3

LEMMA NoListsTyped ==
  /\ NoLists \in Lists /\ NoLists.up = Null /\ NoLists.down = Null /\ NoLists.points = Null
  /\ NoLists.stored = Null
BY DEF NoLists, Lists, List

LEMMA NewTextTyped == NewText \in TextElement /\ TextIsOfContent(NewText)
BY DEF NewText, TextElement, TextIsOfContent

-----------------------------------------------------------------------------
(***************************************************************************)
(* The invariants.                                                         *)
(***************************************************************************)

Own == PointsOf[post.id]
Told == "points" \notin unflushed

(* The element has the description of the post that is shown.               *)
TextInv ==
  /\ TextIsOfContent(description)
  /\ post # Null => (post.id \in LawIssues => post.description # Empty)
  /\ post # Null /\ ~past.thrown => description.content = Appended(post)

(* As long as no answer came late, everything is of the post asked for.     *)
PageInv ==
  ~past.late /\ post # Null =>
    /\ post.id = postId /\ (Told => AllWithin(lists, Own))
    /\ \/ post.description \in {post.id, Empty}
       \/ \E y : Has(Own, y) /\ post.description = y.id

(* The two lists are filled before the merged one; once they were told of   *)
(* the post, its points are under way or in them; and what is in them is    *)
(* complete.                                                                *)
PointsInv ==
  /\ lists.up # Null /\ ~largeMode /\ ~past.shrunk => lists.points # Null
  /\ Told /\ ~past.hurried => (lists.up = Null => lists.points = Null)
  /\ Told /\ post # Null /\ ~past.late /\ ~past.failed =>
       ajax["points"].underWay[post.id] > 0 \/ lists.up # Null
  /\ Told /\ post # Null /\ ~past.late /\ ~past.hurried => Filled(lists, Own)

Inv == Types /\ TextInv /\ PageInv /\ PointsInv

LEMMA NoListsWithin == \A own : AllWithin(NoLists, own) /\ Filled(NoLists, own)
BY NoListsTyped DEF AllWithin, Within, Filled

LEMMA InitInv == Init => Inv
<1> SUFFICES ASSUME Init PROVE Inv
  OBVIOUS
<1>1. ajax \in Kinds
  <2>1. postId \in Posts \cup {NoId} /\ ajax = Ask(postId, [kind \in {"post", "points"} |-> Quiet])
    BY DEF Init
  <2>2. QED
    BY <2>1, QuietTyped, PostIsAsked
<1>2. Types
  BY <1>1, NoListsTyped, NewTextTyped DEF Init, Types, PostType, Past, Calm
<1>3. TextInv /\ PageInv
  BY NewTextTyped DEF Init, TextInv, PageInv
<1>4. PointsInv
  BY NoListsTyped DEF Init, PointsInv
<1>5. QED
  BY <1>2, <1>3, <1>4 DEF Inv

LEMMA OpenKeeps == ASSUME Inv, NEW p \in Posts \cup {NoId}, Open(p) PROVE Inv'
<1>1. ajax' \in Kinds
  <2>1. [kind \in DOMAIN ajax |-> Quiet] = [kind \in {"post", "points"} |-> Quiet]
    BY DEF Inv, Types, Kinds
  <2>2. QED
    BY <2>1, QuietTyped, PostIsAsked DEF Open
<1>2. Types'
  BY <1>1, NoListsTyped, NewTextTyped DEF Open, Inv, Types, PostType, Past, Calm
<1>3. TextInv' /\ PageInv'
  BY NewTextTyped DEF Open, TextInv, PageInv
<1>4. PointsInv'
  BY NoListsTyped DEF Open, PointsInv
<1>5. QED
  BY <1>2, <1>3, <1>4 DEF Inv

LEMMA PostIdChangedKeeps == ASSUME Inv, NEW p \in Posts \cup {NoId}, PostIdChanged(p) PROVE Inv'
<1>1. Ask(p, ajax) \in Kinds /\ ajax \in Kinds
  BY PostIsAsked DEF Inv, Types
<1>2. /\ postId' = p /\ largeMode' = largeMode /\ started' = started
      /\ past' \in Past /\ past'.late = past.late /\ past'.hurried = past.hurried
      /\ past'.shrunk = past.shrunk /\ past'.failed = past.failed
      /\ past'.thrown = (past.thrown \/ Throws)
  <2>1. past' = [past EXCEPT !.thrown = past.thrown \/ Throws] /\ past \in Past /\ Throws \in BOOLEAN
    BY DEF PostIdChanged, Inv, Types, Throws
  <2>2. QED
    BY <2>1 DEF PostIdChanged, Past
<1>3. CASE post # Null
  <2> DEFINE kinds == IF Throws THEN ajax ELSE Ask(p, ajax)
  <2>1. SetPost(Null, kinds) /\ kinds \in Kinds /\ Null \in PostType
    BY <1>1, <1>3 DEF PostIdChanged, PostType
  <2> HIDE DEF kinds
  <2>2. /\ post' = Null /\ allDisabled' \in BOOLEAN /\ ajax' \in Kinds
        /\ description' \in TextElement /\ TextIsOfContent(description')
        /\ Throws => lists' = lists /\ unflushed' = {"actions", "points"}
        /\ ~Throws => lists' = NoLists /\ unflushed' = {}
    BY <2>1, PostIsSet DEF Inv, Types, TextInv
  <2>3. Types'
    BY <1>2, <2>1, <2>2, NoListsTyped DEF Inv, Types
  <2>4. TextInv' /\ PageInv'
    BY <2>2 DEF TextInv, PageInv
  <2>5. PointsInv'
    BY <1>2, <2>2, NoListsTyped DEF Inv, PointsInv, Told
  <2>6. QED
    BY <2>3, <2>4, <2>5 DEF Inv
<1>4. CASE post = Null
  <2>1. /\ ajax' = Ask(p, ajax) /\ post' = post /\ description' = description
        /\ lists' = lists /\ allDisabled' = allDisabled /\ unflushed' = unflushed
    BY <1>4 DEF PostIdChanged
  <2>2. Types'
    BY <1>1, <1>2, <2>1 DEF Inv, Types
  <2>3. TextInv' /\ PageInv'
    BY <1>2, <1>4, <2>1 DEF Inv, TextInv, PageInv
  <2>4. PointsInv'
    BY <1>2, <1>4, <2>1 DEF Inv, PointsInv, Told
  <2>5. QED
    BY <2>2, <2>3, <2>4 DEF Inv
<1>5. QED
  BY <1>3, <1>4

LEMMA PostAnswerKeeps ==
  ASSUME Inv, NEW p \in Posts, HandleIncomingPostResponse(p) PROVE Inv'
<1> DEFINE new == [id |-> p, description |-> IF p \in Described THEN p ELSE Empty]
           kinds == [ajax EXCEPT !["post"] = Answered(ajax["post"], p)]
<1>1. /\ new \in PostType /\ new.id = p /\ new.description \in {p, Empty}
      /\ p \in LawIssues => new.description # Empty
  <2>1. p \in Text /\ Empty \notin Text /\ LawIssues \subseteq Described
    BY TextsAssumption, PostsAssumption DEF Text
  <2>2. QED
    BY <2>1 DEF PostType
<1>2. kinds \in Kinds
  <2>1. ajax["post"] \in Requests /\ ajax["post"].underWay[p] > 0
    BY DEF HandleIncomingPostResponse, Inv, Types, Kinds
  <2>2. Answered(ajax["post"], p) \in Requests
    BY <2>1, AnsweredTyped
  <2>3. QED
    BY <2>2 DEF Inv, Types, Kinds
<1>3. SetPost(new, kinds)
  BY DEF HandleIncomingPostResponse
<1> HIDE DEF kinds, new
<1>5. /\ post' = new /\ allDisabled' \in BOOLEAN /\ ajax' \in Kinds
      /\ description' \in TextElement /\ TextIsOfContent(description')
      /\ Throws => lists' = lists /\ unflushed' = {"actions", "points"}
      /\ ~Throws =>
           /\ lists' = NoLists /\ unflushed' = {}
           /\ new # Null => /\ description'.content = Appended(new)
                            /\ ajax'["points"].underWay[new.id] > 0
  BY <1>1, <1>2, <1>3, PostIsSet DEF Inv, Types, TextInv
<1>6. /\ past' \in Past /\ past'.late = (p # postId) /\ past'.shrunk = past.shrunk
      /\ past'.thrown = (past.thrown \/ Throws)
      /\ postId' = postId /\ largeMode' = largeMode /\ started' = started
  <2>1. past' = [past EXCEPT !.late = p # postId, !.hurried = FALSE, !.failed = FALSE,
                             !.thrown = past.thrown \/ Throws]
        /\ past \in Past /\ Throws \in BOOLEAN /\ (p # postId) \in BOOLEAN
    BY DEF HandleIncomingPostResponse, Inv, Types, Throws
  <2>2. QED
    BY <2>1 DEF HandleIncomingPostResponse, Past
<1>7. Types'
  BY <1>1, <1>5, <1>6, NoListsTyped DEF Inv, Types
<1>8. TextInv'
  BY <1>1, <1>5, <1>6 DEF TextInv
<1>9. PageInv'
  <2>1. Told' => lists' = NoLists
    BY <1>5 DEF Told
  <2>2. Told' => AllWithin(lists', Own')
    BY <2>1, NoListsWithin
  <2>3. QED
    BY <1>1, <1>5, <1>6, <2>2 DEF PageInv
<1>10. PointsInv'
  <2>1. CASE Throws
    BY <1>5, <1>6, <2>1 DEF Inv, PointsInv, Told
  <2>2. CASE ~Throws
    <3>1. Filled(lists', Own')
      BY <1>5, <2>2, NoListsWithin
    <3>2. QED
      BY <1>5, <2>2, <3>1, NoListsTyped DEF PointsInv
  <2>3. QED
    BY <2>1, <2>2
<1>11. QED
  BY <1>7, <1>8, <1>9, <1>10 DEF Inv

LEMMA ErrorKeeps ==
  ASSUME Inv, NEW kind \in {"post", "points"}, NEW p \in Posts, Error(kind, p) PROVE Inv'
<1>1. /\ postId' = postId /\ post' = post /\ description' = description /\ lists' = lists
      /\ largeMode' = largeMode /\ allDisabled' = allDisabled
      /\ started' = started /\ unflushed' = unflushed
  BY DEF Error
<1>2. ajax' \in Kinds
  <2>1. ajax[kind] \in Requests /\ ajax[kind].underWay[p] > 0
    BY DEF Error, Inv, Types, Kinds
  <2>2. Answered(ajax[kind], p) \in Requests
    BY <2>1, AnsweredTyped
  <2>3. ajax' = [ajax EXCEPT ![kind] = Answered(ajax[kind], p)]
    BY DEF Error
  <2>4. QED
    BY <2>2, <2>3 DEF Inv, Types, Kinds
<1>3. /\ past' \in Past /\ past'.failed /\ past'.late = past.late
      /\ past'.hurried = past.hurried /\ past'.shrunk = past.shrunk /\ past'.thrown = past.thrown
  BY DEF Error, Inv, Types, Past
<1>4. Types'
  BY <1>1, <1>2, <1>3 DEF Inv, Types
<1>5. TextInv' /\ PageInv' /\ PointsInv'
  BY <1>1, <1>3 DEF Inv, TextInv, PageInv, PointsInv, Own, Told
<1>6. QED
  BY <1>4, <1>5 DEF Inv

(* The vote buttons are told of the post: nothing else changes.             *)
LEMMA ActionsFlushed ==
  ASSUME Types, NEW disabled \in BOOLEAN, NEW left \in SUBSET unflushed, FlushActions(disabled, left)
  PROVE  /\ allDisabled' \in BOOLEAN /\ unflushed' \subseteq {"actions", "points"}
         /\ "points" \in unflushed' <=> "points" \in left
<1>1. unflushed' = left \ {"actions"} /\ unflushed \subseteq {"actions", "points"}
  BY DEF FlushActions, Types
<1>2. allDisabled' \in BOOLEAN
  <2>1. CASE "actions" \in left /\ post # Null
    <3>1. allDisabled' = (post.id \in VotingOff) /\ post.id \in Posts
      BY <2>1 DEF FlushActions, Types, PostType
    <3>2. QED
      BY <3>1, Disabled
  <2>2. CASE ~("actions" \in left /\ post # Null)
    BY <2>2 DEF FlushActions
  <2>3. QED
    BY <2>1, <2>2
<1>3. QED
  BY <1>1, <1>2

LEMMA VoteKeeps == ASSUME Inv, Vote PROVE Inv'
<1>1. /\ postId' = postId /\ post' = post /\ description' = description /\ lists' = lists
      /\ largeMode' = largeMode /\ started' = started /\ ajax' = ajax /\ past' = past
      /\ FlushActions(TRUE, unflushed)
  BY DEF Vote
<1>2. /\ allDisabled' \in BOOLEAN /\ unflushed' \subseteq {"actions", "points"}
      /\ "points" \in unflushed' <=> "points" \in unflushed
  BY <1>1, ActionsFlushed DEF Inv
<1>3. Types'
  BY <1>1, <1>2 DEF Inv, Types
<1>4. TextInv' /\ PageInv' /\ PointsInv'
  BY <1>1, <1>2 DEF Inv, TextInv, PageInv, PointsInv, Own, Told
<1>5. QED
  BY <1>3, <1>4 DEF Inv

LEMMA PlayCoverKeeps == ASSUME Inv, PlayCover PROVE Inv'
BY DEF PlayCover, Inv, Types, TextInv, PageInv, PointsInv, Own, Told

LEMMA StutterKeeps == ASSUME Inv, UNCHANGED vars PROVE Inv'
BY DEF vars, Inv, Types, TextInv, PageInv, PointsInv, Own, Told

LEMMA ResizeKeeps == ASSUME Inv, NEW large \in BOOLEAN, Resize(large) PROVE Inv'
<1> DEFINE fills == lists.up = Null \/ (~largeMode /\ lists.points = Null)
           told == ~Told /\ (fills \/ large # largeMode)
<1>1. /\ largeMode' = large /\ postId' = postId /\ post' = post /\ description' = description
      /\ allDisabled' = allDisabled /\ started' = started
  BY DEF Resize
<1>2. /\ past' \in Past /\ past'.late = past.late /\ past'.failed = past.failed
      /\ past'.hurried = (past.hurried \/ lists.up = Null)
      /\ past'.shrunk = (largeMode /\ ~large) /\ past'.thrown = past.thrown
  BY DEF Resize, Inv, Types, Past
<1>3. post # Null => Own \in Seq(Point) /\ Own' = Own
  BY <1>1, PointsTyped DEF Inv, Types, PostType, Own
<1>4. TextInv'
  BY <1>1, <1>2 DEF Inv, TextInv
<1>5. CASE told
  <2>1. /\ lists' = IF lists.up = Null THEN [NoLists EXCEPT !.down = <<>>, !.points = <<>>] ELSE NoLists
        /\ ajax' = AskPoints(post, ajax) /\ unflushed' = unflushed \ {"points"}
    BY <1>5 DEF Resize, Told
  <2>2. /\ ajax' \in Kinds
        /\ post # Null => ajax'["points"].underWay[post.id] > 0
    BY <2>1, PointsAreAsked DEF Inv, Types
  <2>3. /\ lists' \in Lists /\ lists'.up = Null
        /\ lists.up # Null => lists' = NoLists
        /\ \A own : AllWithin(lists', own)
    <3>1. CASE lists.up = Null
      <4>1. /\ lists'.stored = Null /\ lists'.up = Null /\ lists'.down = <<>> /\ lists'.points = <<>>
            /\ lists' \in Lists
        BY <2>1, <3>1, NoListsTyped, NoPoints DEF NoLists, Lists, List
      <4>2. QED
        BY <3>1, <4>1, NoPoints DEF AllWithin, Within
    <3>2. CASE lists.up # Null
      BY <2>1, <3>2, NoListsTyped, NoListsWithin
    <3>3. QED
      BY <3>1, <3>2
  <2>4. Types'
    BY <1>1, <1>2, <2>1, <2>2, <2>3 DEF Inv, Types
  <2>5. PageInv'
    BY <1>1, <1>2, <1>3, <2>3 DEF Inv, PageInv
  <2>6. PointsInv'
    <3>1. ~past'.hurried => lists' = NoLists
      BY <1>2, <2>3
    <3>2. Filled(lists', Own')
      BY <2>3 DEF Filled
    <3>3. QED
      BY <1>1, <2>2, <2>3, <3>1, <3>2, NoListsTyped DEF PointsInv
  <2>7. QED
    BY <1>4, <2>4, <2>5, <2>6 DEF Inv
<1>6. CASE ~told
  <2>1. lists' = ProcessStoredPoints(lists) /\ ajax' = ajax /\ unflushed' = unflushed
    BY <1>6 DEF Resize, Told
  <2>2. ASSUME NEW own \in Seq(Point)
        PROVE  /\ lists' \in Lists /\ lists'.up # Null /\ lists'.down # Null
               /\ ~largeMode => lists'.points # Null
               /\ AllWithin(lists, own) => AllWithin(lists', own)
               /\ lists.up # Null /\ Filled(lists, own) => Filled(lists', own)
    <3>1. lists \in Lists /\ (lists.down = Null => lists.up = Null)
      BY DEF Inv, Types
    <3>2. lists' \in Lists /\ lists'.up # Null /\ lists'.down # Null
      BY <2>1, <3>1, Processed
    <3>3. ~largeMode => lists'.points # Null
      BY <2>1, <3>1, Processed
    <3>4. AllWithin(lists, own) => AllWithin(lists', own)
      BY <2>1, <3>1, Processed
    <3>5. lists.up # Null /\ Filled(lists, own) => Filled(lists', own)
      BY <2>1, <3>1, Processed
    <3>6. QED
      BY <3>2, <3>3, <3>4, <3>5
  <2>3. lists' \in Lists /\ lists'.up # Null /\ lists'.down # Null /\ (~largeMode => lists'.points # Null)
    BY <2>2, NoPoints
  <2>4. Types'
    BY <1>1, <1>2, <2>1, <2>3 DEF Inv, Types
  <2>5. PageInv'
    BY <1>1, <1>2, <1>3, <2>1, <2>2 DEF Inv, PageInv, Told
  <2>6. Told' /\ post # Null /\ ~past'.late /\ ~past'.hurried => Filled(lists', Own')
    BY <1>2, <1>3, <2>1, <2>2 DEF Inv, PointsInv, Told
  <2>7. PointsInv'
    BY <1>1, <1>2, <2>3, <2>6 DEF PointsInv
  <2>8. QED
    BY <1>4, <2>4, <2>5, <2>7 DEF Inv
<1>7. QED
  BY <1>5, <1>6

(* The first point of the page becomes the description of a post without.   *)
LEMMA DebateInfoIsTaken ==
  ASSUME Types, TextInv, NEW ls \in Lists, ls.up # Null, ~largeMode => ls.points # Null,
         NEW left \in SUBSET unflushed, UpdateDebateInfo(FirstPoint(ls), left), past'.thrown = past.thrown
  PROVE  /\ post' \in PostType /\ description' \in TextElement /\ TextInv'
         /\ allDisabled' \in BOOLEAN /\ unflushed' \subseteq {"actions", "points"}
         /\ "points" \in unflushed' <=> "points" \in left
         /\ post' # Null => post # Null
         /\ post # Null =>
              /\ post'.id = post.id
              /\ \/ post'.description = post.description
                 \/ \E l \in {"up", "points"}, y \in Point :
                      ls[l] # Null /\ Has(ls[l], y) /\ post'.description = y.id
<1> DEFINE l == IF largeMode THEN "up" ELSE "points"
           first == FirstPoint(ls)
<1>1. ls[l] \in Seq(Point) /\ ls[l] # Null /\ l \in {"up", "points"}
  BY DEF Lists, List
<1>2. first = IF ls[l] = <<>> THEN Null ELSE ls[l][1]
  BY DEF FirstPoint
<1> HIDE DEF l, first
<1>3. CASE post # Null /\ post.description = Empty /\ first # Null
  <2>1. ls[l] # <<>> /\ first = ls[l][1]
    BY <1>2, <1>3
  <2>2. first \in Point /\ Has(ls[l], first)
    <3>1. Len(ls[l]) \in Nat /\ Len(ls[l]) # 0
      BY <1>1, <2>1
    <3>2. 1 \in 1 .. Len(ls[l])
      BY <3>1
    <3>3. QED
      BY <1>1, <2>1, <3>2 DEF Has
  <2>3. /\ post' = [post EXCEPT !.description = first.id]
        /\ description' = ContentChanged(description, first.id)
        /\ FlushActions(allDisabled, left)
    BY <1>3 DEF UpdateDebateInfo, UpdateDescriptionIfEmpty, first
  <2>4. first.id \in Text /\ first.id # Empty
    BY <2>2, PointsTyped, TextsAssumption
  <2>5. post' \in PostType /\ post'.id = post.id /\ post'.description = first.id /\ post # Null
    <3>1. post \in [id : Posts, description : Text \cup {Empty}]
      BY <1>3 DEF Types, PostType
    <3>2. post'.id = post.id /\ post'.description = first.id
          /\ post' \in [id : Posts, description : Text \cup {Empty}]
      BY <2>3, <2>4, <3>1
    <3>3. QED
      BY <1>3, <3>1, <3>2 DEF PostType
  <2>6. description' \in TextElement /\ TextIsOfContent(description') /\ description'.content = first.id
    BY <2>3, <2>4, ContentIsTaken DEF Types, TextInv
  <2>7. post.id \notin LawIssues
    BY <1>3 DEF TextInv
  <2>8. TextInv'
    <3>1. post'.id \notin LawIssues /\ Appended(post') = first.id
      BY <2>5, <2>7 DEF Appended
    <3>2. QED
      BY <2>4, <2>6, <3>1 DEF TextInv
  <2>9. /\ allDisabled' \in BOOLEAN /\ unflushed' \subseteq {"actions", "points"}
        /\ "points" \in unflushed' <=> "points" \in left
    BY <2>3, ActionsFlushed DEF Types
  <2>10. \E k \in {"up", "points"}, y \in Point :
           ls[k] # Null /\ Has(ls[k], y) /\ post'.description = y.id
    BY <1>1, <2>2, <2>5
  <2>11. QED
    BY <1>3, <2>5, <2>6, <2>8, <2>9, <2>10
<1>4. CASE ~(post # Null /\ post.description = Empty /\ first # Null)
  <2>1. post' = post /\ description' = description /\ allDisabled' = allDisabled /\ unflushed' = left
    BY <1>4 DEF UpdateDebateInfo, UpdateDescriptionIfEmpty, first
  <2>2. TextInv'
    BY <2>1 DEF TextInv
  <2>3. QED
    BY <2>1, <2>2 DEF Types
<1>5. QED
  BY <1>3, <1>4

LEMMA ResponseKeeps == ASSUME Inv, NEW p \in Posts, Response(p) PROVE Inv'
<1>1. PICK forgotten \in BOOLEAN :
        /\ past' = [past EXCEPT !.late = past.late \/ post = Null \/ p # post.id,
                                !.hurried = past.hurried \/ forgotten]
        /\ LET told == IF "points" \in unflushed THEN NoLists ELSE lists
           IN lists' = ProcessStoredPoints([told EXCEPT !.stored = IF forgotten THEN Null ELSE PointsOf[p]])
  BY DEF Response
<1> DEFINE told == IF "points" \in unflushed THEN NoLists ELSE lists
           ls == [told EXCEPT !.stored = IF forgotten THEN Null ELSE PointsOf[p]]
<1>2. /\ lists' = ProcessStoredPoints(ls) /\ UpdateDebateInfo(FirstPoint(lists'), unflushed \ {"points"})
      /\ postId' = postId /\ largeMode' = largeMode /\ started' = started
  BY <1>1 DEF Response
<1>3. PointsOf[p] \in Seq(Point) /\ PointsOf[p] # Null
  BY PointsTyped, NullAssumption
<1>4. /\ told \in Lists /\ (told.down = Null => told.up = Null)
      /\ ~Told => told = NoLists
      /\ Told => told = lists
  BY NoListsTyped DEF Inv, Types, Told
<1>5. /\ ls \in Lists /\ ls.stored = IF forgotten THEN Null ELSE PointsOf[p]
      /\ ls.up = told.up /\ ls.down = told.down /\ ls.points = told.points
  <2> HIDE DEF told
  <2>1. QED
    BY <1>3, <1>4 DEF Lists, List
<1> HIDE DEF ls, told
<1>6. /\ past' \in Past /\ past'.late = (past.late \/ post = Null \/ p # post.id)
      /\ past'.hurried = (past.hurried \/ forgotten)
      /\ past'.shrunk = past.shrunk /\ past'.failed = past.failed /\ past'.thrown = past.thrown
  <2>1. (past.late \/ post = Null \/ p # post.id) \in BOOLEAN /\ past \in Past
    BY DEF Inv, Types
  <2>2. QED
    BY <1>1, <2>1 DEF Past
<1>7. ajax' \in Kinds
  <2> DEFINE requests == [ajax EXCEPT !["points"] = Answered(ajax["points"], p)]
  <2>1. ajax["points"] \in Requests /\ ajax["points"].underWay[p] > 0
    BY DEF Response, Inv, Types, Kinds
  <2>2. Answered(ajax["points"], p) \in Requests
    BY <2>1, AnsweredTyped
  <2>3. requests \in Kinds
    BY <2>2 DEF Inv, Types, Kinds
  <2>4. ajax' = IF "points" \in unflushed THEN AskPoints(post, requests) ELSE requests
    BY DEF Response
  <2> HIDE DEF requests
  <2>5. QED
    BY <2>3, <2>4, PointsAreAsked DEF Inv, Types
<1>8. ls.down = Null => ls.up = Null
  BY <1>4, <1>5
<1>9. lists' \in Lists /\ lists'.up # Null /\ lists'.down # Null
  BY <1>2, <1>3, <1>5, <1>8, Processed
<1>10. ~largeMode => lists'.points # Null
  BY <1>2, <1>3, <1>5, <1>8, Processed
<1>11. AllWithin(ls, PointsOf[p]) => AllWithin(lists', PointsOf[p])
  BY <1>2, <1>3, <1>5, <1>8, Processed
<1>12. (ls.up # Null \/ (ls.stored = PointsOf[p] /\ ls.points = Null)) /\ Filled(ls, PointsOf[p])
         => Filled(lists', PointsOf[p])
  BY <1>2, <1>3, <1>5, <1>8, Processed
<1>13. /\ post' \in PostType /\ description' \in TextElement /\ TextInv'
       /\ allDisabled' \in BOOLEAN /\ unflushed' \subseteq {"actions", "points"} /\ Told'
       /\ post' # Null => post # Null
       /\ post # Null =>
            /\ post'.id = post.id
            /\ \/ post'.description = post.description
               \/ \E l \in {"up", "points"}, y \in Point :
                    lists'[l] # Null /\ Has(lists'[l], y) /\ post'.description = y.id
  <2>1. unflushed \ {"points"} \in SUBSET unflushed /\ "points" \notin unflushed \ {"points"}
    OBVIOUS
  <2>2. QED
    BY <1>2, <1>6, <1>9, <1>10, <2>1, DebateInfoIsTaken DEF Inv, Told
<1>14. Types'
  BY <1>2, <1>6, <1>7, <1>9, <1>13 DEF Inv, Types
<1>15. PageInv'
  <2> SUFFICES ASSUME ~past'.late, post' # Null
               PROVE  /\ post'.id = postId' /\ AllWithin(lists', Own')
                      /\ \/ post'.description \in {post'.id, Empty}
                         \/ \E y : Has(Own', y) /\ post'.description = y.id
    BY DEF PageInv
  <2>1. ~past.late /\ post # Null /\ p = post.id /\ post'.id = p /\ Own = PointsOf[p] /\ Own' = PointsOf[p]
    BY <1>6, <1>13 DEF Own
  <2>2. /\ post.id = postId /\ (Told => AllWithin(lists, PointsOf[p]))
        /\ \/ post.description \in {post.id, Empty}
           \/ \E y : Has(PointsOf[p], y) /\ post.description = y.id
    BY <2>1 DEF Inv, PageInv
  <2>3. AllWithin(lists', PointsOf[p])
    <3>1. AllWithin(told, PointsOf[p])
      BY <1>4, <2>2, NoListsWithin
    <3>2. AllWithin(ls, PointsOf[p])
      BY <1>5, <3>1 DEF AllWithin, Within
    <3>3. QED
      BY <1>11, <3>2
  <2>4. CASE post'.description = post.description
    BY <1>2, <2>1, <2>2, <2>3, <2>4
  <2>5. CASE post'.description # post.description
    <3>1. PICK l \in {"up", "points"}, y \in Point :
            lists'[l] # Null /\ Has(lists'[l], y) /\ post'.description = y.id
      BY <1>13, <2>1, <2>5
    <3>2. Has(PointsOf[p], y)
      BY <2>3, <3>1 DEF AllWithin, Within
    <3>3. QED
      BY <1>2, <2>1, <2>2, <2>3, <3>1, <3>2
  <2>6. QED
    BY <2>4, <2>5
<1>16. post' # Null /\ ~past'.late /\ ~past'.hurried => Filled(lists', Own')
  <2> SUFFICES ASSUME post' # Null, ~past'.late, ~past'.hurried PROVE Filled(lists', Own')
    OBVIOUS
  <2>1. /\ ~past.late /\ ~past.hurried /\ ~forgotten /\ post # Null
        /\ Own = PointsOf[p] /\ Own' = PointsOf[p]
    BY <1>6, <1>13 DEF Own
  <2>2. Filled(told, PointsOf[p]) /\ (told.up = Null => told.points = Null)
    <3>1. CASE Told
      BY <1>4, <2>1, <3>1 DEF Inv, PointsInv
    <3>2. CASE ~Told
      BY <1>4, <3>2, NoListsWithin, NoListsTyped
    <3>3. QED
      BY <3>1, <3>2
  <2>3. Filled(ls, PointsOf[p])
    BY <1>5, <2>2 DEF Filled
  <2>4. QED
    BY <1>5, <1>12, <2>1, <2>2, <2>3
<1>17. PointsInv'
  BY <1>2, <1>9, <1>10, <1>16 DEF PointsInv
<1>18. QED
  BY <1>13, <1>14, <1>15, <1>17 DEF Inv

LEMMA NextInv == Inv /\ [Next]_vars => Inv'
<1> SUFFICES ASSUME Inv, [Next]_vars PROVE Inv'
  OBVIOUS
<1>1. ASSUME NEW p \in Posts, HandleIncomingPostResponse(p) PROVE Inv'
  BY <1>1, PostAnswerKeeps
<1>2. ASSUME NEW kind \in {"post", "points"}, NEW p \in Posts, Error(kind, p) PROVE Inv'
  BY <1>2, ErrorKeeps
<1>3. ASSUME NEW p \in Posts, Response(p) PROVE Inv'
  BY <1>3, ResponseKeeps
<1>4. ASSUME NEW p \in Posts \cup {NoId}, Open(p) PROVE Inv'
  BY <1>4, OpenKeeps
<1>5. ASSUME NEW p \in Posts \cup {NoId}, PostIdChanged(p) PROVE Inv'
  BY <1>5, PostIdChangedKeeps
<1>6. ASSUME NEW large \in BOOLEAN, Resize(large) PROVE Inv'
  BY <1>6, ResizeKeeps
<1>7. CASE Vote
  BY <1>7, VoteKeeps
<1>8. CASE PlayCover
  BY <1>8, PlayCoverKeeps
<1>9. CASE UNCHANGED vars
  BY <1>9, StutterKeeps
<1>10. QED
  BY <1>1, <1>2, <1>3, <1>4, <1>5, <1>6, <1>7, <1>8, <1>9 DEF Next, PostAnswer, PointsAnswer

-----------------------------------------------------------------------------
(***************************************************************************)
(* The theorems.                                                           *)
(***************************************************************************)

(* The viewer never leaves the inductive invariant: the description, the    *)
(* lists and the requests under way stay those of one post.                 *)
THEOREM ViewerInvariant == Spec => []Inv
BY InitInv, NextInv, PTL DEF Spec

(* As long as no answer came late, and once the points were told of the     *)
(* post (an exception of the cover may have kept them from it), the lists,  *)
(* the description and the post are of the one the app asked yp-post for.   *)
THEOREM ViewerShowsOnePost == Spec => []OnePostOnPage
<1>1. Inv => OnePostOnPage
  <2> SUFFICES ASSUME Inv, ~past.late, "points" \notin unflushed, post # Null
               PROVE  /\ post.id = postId
                      /\ \A l \in DOMAIN lists : lists[l] = Null \/ Range(lists[l]) \subseteq Range(Own)
                      /\ post.description \in {post.id, Empty} \cup {pt.id : pt \in Range(Own)}
    BY DEF OnePostOnPage, Own
  <2>1. /\ post.id = postId /\ AllWithin(lists, Own)
        /\ \/ post.description \in {post.id, Empty}
           \/ \E y : Has(Own, y) /\ post.description = y.id
    BY DEF Inv, PageInv, Told
  <2>2. Own \in Seq(Point)
    BY PointsTyped DEF Inv, Types, PostType, Own
  <2>3. \A y : Has(Own, y) <=> y \in Range(Own)
    BY <2>2 DEF Has, Range
  <2>4. ASSUME NEW l \in DOMAIN lists PROVE lists[l] = Null \/ Range(lists[l]) \subseteq Range(Own)
    <3>1. lists[l] \in List /\ Within(lists[l], Own)
      BY <2>1 DEF Inv, Types, Lists, AllWithin
    <3>2. CASE lists[l] # Null
      <4>1. lists[l] \in Seq(Point)
        BY <3>1, <3>2 DEF List
      <4>2. \A y : y \in Range(lists[l]) => Has(lists[l], y)
        BY <4>1 DEF Has, Range
      <4>3. QED
        BY <2>3, <3>1, <3>2, <4>2 DEF Within
    <3>3. QED
      BY <3>2
  <2>5. QED
    BY <2>1, <2>3, <2>4
<1>2. QED
  BY <1>1, ViewerInvariant, PTL

(* Until the cover ends a change in an exception, a description that the    *)
(* post has, with the status of a law issue, is what its text element has   *)
(* on the screen, also when formatting changed a former one.                *)
THEOREM ViewerShowsDescription == Spec => []DescriptionIsShown
<1>1. Inv => DescriptionIsShown
  <2> SUFFICES ASSUME Inv, post # Null, post.description # Empty, ~past.thrown
                  PROVE  OnScreen = Appended(post)
    BY DEF DescriptionIsShown, Appended
  <2>1. description.content = Appended(post) /\ TextIsOfContent(description)
    BY DEF Inv, TextInv
  <2>2. Appended(post) # Empty
    BY AppendedTyped DEF Inv, Types
  <2>3. QED
    BY <2>1, <2>2 DEF OnScreen, TextIsOfContent
<1>2. QED
  BY <1>1, ViewerInvariant, PTL

(* Once every answer is there, none of them late or failed, no resize came  *)
(* while they were awaited and the points were told of the post, be it      *)
(* after an exception of the cover, the lists on the page have every point  *)
(* for or against the post and nothing else.                                *)
THEOREM ViewerShowsEveryPoint == Spec => []EveryPointIsShown
<1>1. Inv => EveryPointIsShown
  <2> SUFFICES ASSUME Inv, Undisturbed
               PROVE  /\ \A l \in DOMAIN Shown : Shown[l] # Null
                      /\ UNION {Range(Shown[l]) : l \in DOMAIN Shown} =
                           {pt \in Range(Own) : pt.value # 1}
    BY DEF EveryPointIsShown, Own
  <2>1. post # Null /\ post.id \in Posts /\ Own \in Seq(Point)
    BY PointsTyped DEF Undisturbed, Inv, Types, PostType, Own
  <2>2. Filled(lists, Own)
    BY <2>1 DEF Undisturbed, Inv, PointsInv, Told
  <2>3. lists.up # Null /\ lists.down # Null
    <3>1. ajax["points"].underWay[post.id] = 0
      BY <2>1 DEF Undisturbed
    <3>2. lists.up # Null
      BY <2>1, <3>1 DEF Undisturbed, Inv, PointsInv, Told
    <3>3. QED
      BY <3>2 DEF Inv, Types
  <2>4. \A y : Has(Own, y) => y \in Point
    BY <2>1 DEF Has
  <2>5. \A y : Has(Own, y) <=> y \in Range(Own)
    BY <2>1 DEF Has, Range
  <2>6. \A y : Has(Own, y) /\ y.value # 1 <=> Has(lists.up, y) \/ Has(lists.down, y)
    <3>1. \A y : Has(lists.up, y) <=> Has(Own, y) /\ y \in PointsFor
      BY <2>2, <2>3 DEF Filled
    <3>2. \A y : Has(lists.down, y) <=> Has(Own, y) /\ y \in PointsAgainst
      BY <2>2, <2>3 DEF Filled
    <3>3. \A y \in Point : y.value # 1 <=> y \in PointsFor \/ y \in PointsAgainst
      BY PointsTyped DEF PointsFor, PointsAgainst
    <3>4. QED
      BY <2>4, <3>1, <3>2, <3>3
  <2>7. CASE largeMode
    <3>1. Shown = <<lists.up, lists.down>>
      BY <2>7 DEF Shown
    <3>2. lists.up \in Seq(Point) /\ lists.down \in Seq(Point)
      BY <2>3 DEF Inv, Types, Lists, List
    <3>3. \A y : y \in Range(lists.up) <=> Has(lists.up, y)
      BY <3>2 DEF Has, Range
    <3>4. \A y : y \in Range(lists.down) <=> Has(lists.down, y)
      BY <3>2 DEF Has, Range
    <3>5. UNION {Range(Shown[l]) : l \in DOMAIN Shown} = Range(lists.up) \cup Range(lists.down)
      BY <3>1
    <3>6. QED
      BY <2>3, <2>5, <2>6, <3>1, <3>3, <3>4, <3>5
  <2>8. CASE ~largeMode
    <3>1. Shown = <<lists.points>>
      BY <2>8 DEF Shown
    <3>2. lists.points # Null
      BY <2>3, <2>8 DEF Undisturbed, Inv, PointsInv
    <3>3. lists.points \in Seq(Point)
      BY <3>2 DEF Inv, Types, Lists, List
    <3>4. \A y : y \in Range(lists.points) <=> Has(lists.points, y)
      BY <3>3 DEF Has, Range
    <3>5. \A y : Has(lists.points, y) <=> Has(lists.up, y) \/ Has(lists.down, y)
      BY <2>2, <2>3, <3>2 DEF Filled
    <3>6. UNION {Range(Shown[l]) : l \in DOMAIN Shown} = Range(lists.points)
      BY <3>1
    <3>7. QED
      BY <2>5, <2>6, <3>1, <3>2, <3>4, <3>5, <3>6
  <2>9. QED
    BY <2>7, <2>8
<1>2. QED
  BY <1>1, ViewerInvariant, PTL

-----------------------------------------------------------------------------
(***************************************************************************)
(* The media elements.                                                     *)
(***************************************************************************)

ItemOrNull == Items \cup {NoItem}

(* An emptied element has no player, a player that is gone has no           *)
(* listeners, and every listener was attached by a timer.                   *)
MediaShape ==
  /\ item = NoItem => player = "none"
  /\ pending + Len(listeners) <= MaxListeners
MediaTyped == MediaTypeOK /\ MediaShape

(* The ids are those of the item, of a point unless a start was forgotten.  *)
IdsAreOfItem ==
  (holder = "point" => ~playStartedAt) /\ item # NoItem /\ item.media # "none"
    => dataId[item.media] = item

(* While nobody hurries, listeners are attached by the one timer there is,  *)
(* to a player that has none, and the element knows them.                   *)
OneSet ==
  ~hurried =>
    /\ pending <= 1 /\ Len(listeners) <= 1
    /\ pending > 0 => listeners = <<>>
    /\ listeners # <<>> => referenced
    /\ listeners # <<>> /\ ~playStartedAt /\ item.media = player => listeners = <<item>>

MediaInv == MediaTyped /\ MediaIsOfPoint /\ IdsAreOfItem /\ OneSet

-----------------------------------------------------------------------------
LEMMA ItemsTyped == \A i \in Items : i.media \in Media /\ i.cover \in Cover
BY ItemsAssumption

(* A cover has a player only in its video or audio section.                 *)
LEMMA CoverPlayerIsMedia ==
  ASSUME NEW shown \in ItemOrNull
  PROVE  CoverPlayer(shown) \in Media /\ (shown = NoItem => CoverPlayer(shown) = "none")
<1>1. CASE shown = NoItem
  BY <1>1 DEF CoverPlayer, Media
<1>2. CASE shown # NoItem /\ Sections(shown) \cap {"video", "audio"} # {}
  <2>1. PICK s \in {"video", "audio"} : s \in Sections(shown)
    BY <1>2
  <2>2. WithCoverMediaType(shown, s)
    BY <2>1 DEF Sections
  <2>3. shown.cover = s
    BY <2>1, <2>2 DEF WithCoverMediaType
  <2>4. QED
    BY <1>2, <2>1, <2>3 DEF CoverPlayer, Media
<1>3. CASE shown # NoItem /\ Sections(shown) \cap {"video", "audio"} = {}
  BY <1>3 DEF CoverPlayer, Media
<1>4. QED
  BY <1>1, <1>2, <1>3

(* Removing the listeners known takes the last of them.                     *)
LEMMA FrontProperties ==
  ASSUME NEW s \in Seq(Items)
  PROVE  /\ Front(s) \in Seq(Items) /\ Len(Front(s)) <= Len(s)
         /\ Len(s) <= 1 => Front(s) = <<>>
<1>1. Front(s) = SubSeq(s, 1, Len(s) - 1) /\ Len(s) \in Nat
  BY DEF Front
<1>2. CASE Len(s) <= 1
  BY <1>1, <1>2
<1>3. CASE Len(s) > 1
  <2>1. 1 \in 1 .. Len(s) /\ Len(s) - 1 \in 1 .. Len(s)
    BY <1>1, <1>3
  <2>2. SubSeq(s, 1, Len(s) - 1) \in Seq(Items) /\ Len(SubSeq(s, 1, Len(s) - 1)) = Len(s) - 1
    BY <1>1, <2>1
  <2>3. QED
    BY <1>1, <1>3, <2>2
<1>4. QED
  BY <1>1, <1>2, <1>3

(* What a change leaves of the listeners.                                   *)
LEMMA SetupKeeps ==
  ASSUME MediaTyped, OneSet, NEW new \in ItemOrNull, NEW shows \in Media, NEW ids, CanChange,
         SetupMediaEventListeners(new, shows, ids)
  PROVE  /\ listeners' \in Seq(Items) /\ pending' \in 0 .. MaxPending
         /\ pending' + Len(listeners') <= MaxListeners
         /\ shows = "none" => listeners' = <<>>
         /\ player' = shows /\ referenced' \in BOOLEAN /\ hurried' \in BOOLEAN
         /\ playStartedAt' \in BOOLEAN /\ OneSet'
<1>1. /\ listeners \in Seq(Items) /\ pending \in Nat /\ Len(listeners) \in Nat
      /\ pending < MaxPending /\ pending + Len(listeners) < MaxListeners
      /\ MaxPending \in Nat /\ MaxListeners \in Nat
      /\ (player = "none" => listeners = <<>>) /\ (item = NoItem => player = "none")
      /\ referenced \in BOOLEAN /\ hurried \in BOOLEAN /\ playStartedAt \in BOOLEAN
  BY MediaBoundAssumption DEF MediaTyped, MediaShape, MediaTypeOK, CanChange
<1>2. /\ Detached \in Seq(Items) /\ Len(Detached) <= Len(listeners) /\ Len(Detached) \in Nat
  BY <1>1, FrontProperties DEF Detached
<1>3. ~hurried => Detached = <<>>
  <2>1. CASE referenced
    BY <1>1, <2>1, FrontProperties DEF Detached, OneSet
  <2>2. CASE ~referenced
    BY <2>2 DEF Detached, OneSet
  <2>3. QED
    BY <2>1, <2>2
<1> DEFINE detaches == item # NoItem /\ player # "none"
           attaches == new # NoItem /\ ~(detaches /\ CheckThrows(ids))
           left == IF detaches THEN Detached ELSE listeners
<1>4. /\ listeners' = IF shows = player THEN left ELSE <<>>
      /\ referenced' = (referenced /\ ~detaches)
      /\ pending' = IF attaches THEN pending + 1 ELSE pending
      /\ hurried' = (hurried \/ (attaches /\ pending > 0))
      /\ playStartedAt' = (playStartedAt /\ (~detaches \/ CheckThrows(ids)))
      /\ player' = shows
  BY DEF SetupMediaEventListeners
<1>5. /\ left \in Seq(Items) /\ Len(left) <= Len(listeners) /\ Len(left) \in Nat
      /\ ~hurried => left = <<>>
      /\ player = "none" => left = <<>>
  BY <1>1, <1>2, <1>3
<1>6. detaches \in BOOLEAN /\ attaches \in BOOLEAN
  OBVIOUS
<1> HIDE DEF detaches, attaches, left
<1>7. /\ listeners' \in Seq(Items) /\ Len(listeners') <= Len(listeners) /\ Len(listeners') \in Nat
      /\ ~hurried => listeners' = <<>>
      /\ shows = "none" => listeners' = <<>>
  BY <1>1, <1>4, <1>5
<1>8. pending' \in 0 .. MaxPending /\ pending' + Len(listeners') <= MaxListeners
  <2>1. pending' = pending + 1 \/ pending' = pending
    BY <1>4
  <2>2. QED
    BY <1>1, <1>7, <2>1
<1>9. referenced' \in BOOLEAN /\ hurried' \in BOOLEAN /\ playStartedAt' \in BOOLEAN
  BY <1>1, <1>4, <1>6
<1>10. ~hurried' => pending' <= 1 /\ listeners' = <<>>
  BY <1>1, <1>4, <1>6, <1>7 DEF OneSet
<1>11. OneSet'
  BY <1>10 DEF OneSet
<1>12. QED
  BY <1>4, <1>7, <1>8, <1>9, <1>11

-----------------------------------------------------------------------------
LEMMA MediaInitHolds == MediaInit => MediaInv
<1> SUFFICES ASSUME MediaInit PROVE MediaInv
  OBVIOUS
<1>1. /\ listeners = <<>> /\ listeners \in Seq(Items) /\ Len(listeners) = 0
      /\ MaxListeners \in Nat /\ MaxPending \in Nat /\ pending = 0
  BY MediaBoundAssumption DEF MediaInit
<1>2. dataId \in [{"video", "audio"} -> Items \cup {NoItem}]
  BY DEF MediaInit, NoIds
<1>3. MediaTypeOK /\ MediaShape
  <2>1. pending \in 0 .. MaxPending /\ Len(listeners) <= MaxListeners /\ 0 + 0 <= MaxListeners
    BY <1>1
  <2>2. MediaTypeOK
    BY <1>1, <1>2, <2>1 DEF MediaInit, MediaTypeOK, Media
  <2>3. MediaShape
    BY <1>1, <2>1 DEF MediaInit, MediaShape
  <2>4. QED
    BY <2>2, <2>3
<1>4. MediaIsOfPoint /\ IdsAreOfItem /\ OneSet
  BY <1>1 DEF MediaInit, MediaIsOfPoint, IdsAreOfItem, OneSet
<1>5. QED
  BY <1>3, <1>4 DEF MediaInv, MediaTyped

(* Another point: its own media at once, or, after a start, the former      *)
(* one's until the next.                                                    *)
LEMMA PointChangedKeeps ==
  ASSUME MediaInv, NEW point \in Items, PointChanged(point)
  PROVE  MediaInv'
<1>1. /\ holder = "point" /\ holder' = "point" /\ point # NoItem /\ CanChange /\ item' = point
      /\ MediaTyped /\ OneSet /\ MediaTypeOK /\ MediaShape
  BY DEF PointChanged, MediaInv, MediaTyped
<1>2. point.media \in Media
  BY ItemsTyped
<1>3. CASE item # NoItem /\ CheckThrows(dataId)
  <2>1. SetupMediaEventListeners(point, player, dataId) /\ UNCHANGED <<user, media, dataId>>
    BY <1>3 DEF PointChanged
  <2>2. playStartedAt' = TRUE
    BY <1>3, <2>1 DEF SetupMediaEventListeners, CheckThrows
  <2>3. /\ listeners' \in Seq(Items) /\ pending' \in 0 .. MaxPending
        /\ pending' + Len(listeners') <= MaxListeners /\ player' = player
        /\ player = "none" => listeners' = <<>>
        /\ referenced' \in BOOLEAN /\ hurried' \in BOOLEAN /\ OneSet'
    BY <1>1, <2>1, SetupKeeps DEF MediaTypeOK, ItemOrNull
  <2>4. MediaTyped'
    <3>1. Len(listeners') <= MaxListeners
      BY <2>3, MediaBoundAssumption
    <3>2. QED
      BY <1>1, <2>1, <2>2, <2>3, <3>1 DEF MediaTyped, MediaTypeOK, MediaShape
  <2>5. MediaIsOfPoint' /\ IdsAreOfItem'
    BY <1>1, <2>2 DEF MediaIsOfPoint, IdsAreOfItem
  <2>6. QED
    BY <2>3, <2>4, <2>5 DEF MediaInv
<1>4. CASE ~(item # NoItem /\ CheckThrows(dataId))
  <2>1. SetupMediaEventListeners(point, point.media, dataId) /\ ResetMedia(point.media, point)
    BY <1>4 DEF PointChanged
  <2>2. /\ user' = point /\ media' = point.media
        /\ dataId' = [k \in DOMAIN dataId |-> IF k = point.media THEN point ELSE NoItem]
        /\ DOMAIN dataId = {"video", "audio"}
    BY <1>1, <2>1 DEF ResetMedia, MediaTypeOK
  <2>3. /\ listeners' \in Seq(Items) /\ pending' \in 0 .. MaxPending
        /\ pending' + Len(listeners') <= MaxListeners /\ player' = point.media
        /\ point.media = "none" => listeners' = <<>>
        /\ referenced' \in BOOLEAN /\ hurried' \in BOOLEAN /\ OneSet'
        /\ playStartedAt' \in BOOLEAN
    BY <1>1, <1>2, <2>1, SetupKeeps DEF ItemOrNull
  <2>4. MediaTyped'
    <3>1. Len(listeners') <= MaxListeners
      BY <2>3, MediaBoundAssumption
    <3>2. dataId' \in [{"video", "audio"} -> Items \cup {NoItem}]
      BY <2>2
    <3>3. QED
      BY <1>1, <1>2, <2>2, <2>3, <3>1, <3>2 DEF MediaTyped, MediaTypeOK, MediaShape
  <2>5. MediaIsOfPoint' /\ IdsAreOfItem'
    BY <1>1, <1>2, <2>2, <2>3 DEF MediaIsOfPoint, IdsAreOfItem, Media
  <2>6. QED
    BY <2>3, <2>4, <2>5 DEF MediaInv
<1>5. QED
  BY <1>3, <1>4

(* A post in the cover brings its ids if it has media. *)
LEMMA CoverChangedKeeps ==
  ASSUME MediaInv, NEW shown \in ItemOrNull, CoverChanged(shown)
  PROVE  MediaInv'
<1>1. /\ holder = "cover" /\ holder' = "cover" /\ CanChange /\ item' = shown
      /\ SetupMediaEventListeners(shown, CoverPlayer(shown), CoverIds(shown)) /\ dataId' = CoverIds(shown)
      /\ UNCHANGED <<user, media>> /\ MediaTyped /\ OneSet /\ MediaTypeOK /\ MediaShape
  BY DEF CoverChanged, MediaInv, MediaTyped
<1>2. CoverPlayer(shown) \in Media /\ (shown = NoItem => CoverPlayer(shown) = "none")
  BY CoverPlayerIsMedia
<1>3. /\ listeners' \in Seq(Items) /\ pending' \in 0 .. MaxPending
      /\ pending' + Len(listeners') <= MaxListeners /\ player' = CoverPlayer(shown)
      /\ CoverPlayer(shown) = "none" => listeners' = <<>>
      /\ referenced' \in BOOLEAN /\ hurried' \in BOOLEAN /\ playStartedAt' \in BOOLEAN /\ OneSet'
  BY <1>1, <1>2, SetupKeeps
<1>4. /\ DOMAIN dataId = {"video", "audio"}
      /\ dataId' = [k \in {"video", "audio"} |->
                       IF shown # NoItem /\ shown.media = k THEN shown ELSE dataId[k]]
  BY <1>1 DEF CoverIds, MediaTypeOK
<1>5. MediaTyped'
  <2>1. Len(listeners') <= MaxListeners
    BY <1>3, MediaBoundAssumption
  <2>2. dataId' \in [{"video", "audio"} -> Items \cup {NoItem}]
    BY <1>1, <1>4 DEF MediaTypeOK, ItemOrNull
  <2>3. QED
    BY <1>1, <1>2, <1>3, <2>1, <2>2 DEF MediaTyped, MediaTypeOK, MediaShape, ItemOrNull
<1>6. MediaIsOfPoint'
  BY <1>1 DEF MediaIsOfPoint
<1>7. IdsAreOfItem'
  <2>1. shown # NoItem => shown.media \in Media
    BY ItemsTyped DEF ItemOrNull
  <2>2. QED
    BY <1>1, <1>4, <2>1 DEF IdsAreOfItem, Media
<1>8. QED
  BY <1>3, <1>5, <1>6, <1>7 DEF MediaInv

LEMMA OneListener ==
  ASSUME NEW s \in Seq(Items), NEW d \in Items, Len(s) = 1, s[1] = d
  PROVE  s = <<d>>
OBVIOUS

(* The timer that is left attaches to a player that has no listeners.       *)
LEMMA AttachKeeps ==
  ASSUME MediaInv, AttachMediaListeners PROVE MediaInv'
<1>1. /\ MediaTypeOK /\ MediaShape /\ OneSet /\ IdsAreOfItem /\ pending > 0 /\ pending' = pending - 1
      /\ UNCHANGED <<holder, item, user, media, dataId, player, playStartedAt, hurried>>
  BY DEF MediaInv, MediaTyped, AttachMediaListeners
<1>2. /\ listeners \in Seq(Items) /\ Len(listeners) \in Nat /\ pending \in Nat /\ pending <= MaxPending
      /\ pending + Len(listeners) <= MaxListeners /\ MaxPending \in Nat /\ MaxListeners \in Nat
  BY <1>1, MediaBoundAssumption DEF MediaTypeOK, MediaShape
<1>3. CASE player = "none" \/ dataId[player] = NoItem
  <2>1. UNCHANGED <<listeners, referenced>>
    BY <1>3 DEF AttachMediaListeners
  <2>2. MediaTyped'
    BY <1>1, <1>2, <2>1 DEF MediaTyped, MediaTypeOK, MediaShape
  <2>3. OneSet'
    BY <1>1, <1>2, <2>1 DEF OneSet
  <2>4. QED
    BY <1>1, <2>2, <2>3 DEF MediaInv, MediaIsOfPoint, IdsAreOfItem
<1>4. CASE player # "none" /\ dataId[player] # NoItem
  <2>1. listeners' = Append(listeners, dataId[player]) /\ referenced' = TRUE
    BY <1>4 DEF AttachMediaListeners
  <2>2. player \in {"video", "audio"} /\ dataId[player] \in Items
    BY <1>1, <1>4 DEF MediaTypeOK, Media
  <2>3. /\ listeners' \in Seq(Items) /\ Len(listeners') = Len(listeners) + 1
        /\ listeners = <<>> => listeners' = <<dataId[player]>>
    <3>1. ASSUME NEW d \in Items
          PROVE  /\ Append(listeners, d) \in Seq(Items) /\ Len(Append(listeners, d)) = Len(listeners) + 1
                 /\ listeners = <<>> => Append(listeners, d) = <<d>>
      <4>1. /\ Append(listeners, d) \in Seq(Items) /\ Len(Append(listeners, d)) = Len(listeners) + 1
            /\ Append(listeners, d)[Len(listeners) + 1] = d
        BY <1>2
      <4>2. listeners = <<>> => Append(listeners, d) = <<d>>
        BY <4>1, OneListener
      <4>3. QED
        BY <4>1, <4>2
    <3>2. QED
      BY <2>1, <2>2, <3>1
  <2>4. MediaTyped'
    <3>1. pending' \in 0 .. MaxPending /\ pending' + Len(listeners') <= MaxListeners
          /\ Len(listeners') <= MaxListeners
      BY <1>1, <1>2, <2>3
    <3>2. QED
      BY <1>1, <1>4, <2>1, <2>3, <3>1 DEF MediaTyped, MediaTypeOK, MediaShape
  <2>5. ASSUME ~hurried PROVE OneSet'
    <3>1. pending = 1 /\ listeners = <<>> /\ listeners' = <<dataId[player]>> /\ Len(listeners') = 1
      BY <1>1, <1>2, <2>3, <2>5 DEF OneSet
    <3>2. ~playStartedAt /\ item.media = player => dataId[player] = item
      BY <1>1, <1>4 DEF IdsAreOfItem, MediaShape
    <3>3. QED
      BY <1>1, <2>1, <3>1, <3>2 DEF OneSet
  <2>6. ASSUME hurried PROVE OneSet'
    BY <1>1, <2>6 DEF OneSet
  <2>7. QED
    BY <1>1, <2>4, <2>5, <2>6 DEF MediaInv, MediaIsOfPoint, IdsAreOfItem
<1>5. QED
  BY <1>3, <1>4

LEMMA PlayerKeeps == MediaInv /\ (Play \/ UNCHANGED mediaVars) => MediaInv'
BY DEF MediaInv, MediaTyped, MediaTypeOK, MediaShape, MediaIsOfPoint, IdsAreOfItem, OneSet, Play, mediaVars

(* The inductive invariant: types, the media and ids shown are the item's,  *)
(* and one set of listeners while nobody hurries.                           *)
THEOREM MediaInvariant == MediaSpec => []MediaInv
<1>1. MediaInit => MediaInv
  BY MediaInitHolds
<1>2. MediaInv /\ [MediaNext]_mediaVars => MediaInv'
  BY PointChangedKeeps, CoverChangedKeeps, AttachKeeps, PlayerKeeps DEF MediaNext, ItemOrNull
<1>3. QED
  BY <1>1, <1>2, PTL DEF MediaSpec

(* Until a player in it was started an element shows the author and the     *)
(* media of the point it was given last.                                    *)
THEOREM MediaShownIsOfPoint == MediaSpec => []MediaIsOfPoint
<1>1. MediaInv => MediaIsOfPoint
  BY DEF MediaInv
<1>2. QED
  BY <1>1, MediaInvariant, PTL

(* A player is listened to once, for what it plays, unless items change     *)
(* within the 200 ms of the timer.                                          *)
THEOREM MediaListenedToOnce == MediaSpec => []ListenedToOnce
<1>1. MediaInv => ListenedToOnce
  BY DEF MediaInv, OneSet, ListenedToOnce
<1>2. QED
  BY <1>1, MediaInvariant, PTL
=============================================================================
