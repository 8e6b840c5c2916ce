---------------------------- MODULE BallotSeries ----------------------------
(***************************************************************************)
(* The cards of the article ballot and the exclusive series: how the       *)
(* filtered articles become cards (processBallotItems), how a card is      *)
(* swapped for another option of its series, and how the asynchronous scan *)
(* (setStateOfRemainingItems) blocks the cards whose series already has an *)
(* article in the constitution.                                            *)
(*                                                                         *)
(* Three things have to agree: the list, the elements rendered from it and *)
(* the constitution.  lit-html's repeat keeps an element while the key of  *)
(* its list entry stays and makes a new one, without any state, when the   *)
(* key changes.  What an article costs is left to BallotLedger: a click    *)
(* that the budget refuses changes nothing here.                           *)
(***************************************************************************)
EXTENDS Integers, Sequences, SequencesExt, Sublists

CONSTANTS
  Deck,       \* allItems: ids in order
  Headers,    \* ids of the module cards, which cannot be chosen
  Series,     \* exclusive_ids of each article
  NoSeries,   \* an empty exclusive_ids
  ModuleTypeIndex, \* module_type_index of each article
  Filtered,   \* the sequences of articles the filter may hand over
  MaxMounts,  \* bound: how often the ballot is shown
  MaxScans    \* bound: the player waits while that many scans run

ArticleId == ToSet(Deck)

ASSUME SeriesAssumption ==
  /\ Headers \subseteq ArticleId
  /\ DOMAIN Series = ArticleId
  /\ \A a \in Headers : Series[a] = NoSeries
  /\ Filtered \subseteq Seq(ArticleId) /\ \A f \in Filtered : IsInjective(f)
  /\ ModuleTypeIndex \in [ArticleId -> Nat]
  /\ MaxMounts \in Nat \ {0} /\ MaxScans \in Nat \ {0}

VARIABLES
  filtered,   \* budgetBallotItems
  constitution, \* selectedItems; "listed" if it is the object of the list too,
                \* as it is not any more after a reload
  processed,       \* processedBallotItems
  elements,   \* the oap-article-item elements rendered from it
  leaving,    \* articles with a 450 ms removeFromAvailableItems timer
  releasing,  \* series with a 50 ms _resetExclusive timer
  scans,      \* runs of setStateOfRemainingItems under way, oldest first
  mounts      \* how often the ballot was shown

cards == <<processed, elements>>
timers == <<leaving, releasing, scans>>
seriesVars == <<filtered, constitution, cards, timers, mounts>>

Entry == [item : ArticleId, options : SUBSET ArticleId]

Element ==
  [key : ArticleId, item : ArticleId, options : SUBSET ArticleId,
   picked : BOOLEAN, blocked : BOOLEAN, covered : BOOLEAN, marked : BOOLEAN]

Chosen == {c.item : c \in ToSet(constitution)}
live == {c.item : c \in {d \in ToSet(constitution) : d.listed}}

Choice == [item : ArticleId, listed : BOOLEAN]

Scan == [at : Nat, ids : Seq(ArticleId)]

SeriesTypeOK ==
  /\ filtered \in Filtered
  /\ constitution \in Seq(Choice)
  /\ \A i, j \in DOMAIN constitution :
       i < j =>
         /\ ModuleTypeIndex[constitution[i].item] <= ModuleTypeIndex[constitution[j].item]
         /\ constitution[i].listed /\ constitution[j].listed =>
              constitution[i].item # constitution[j].item
  /\ processed \in Seq(Entry)
  /\ elements \in Seq(Element)
  /\ leaving \in SUBSET live
  /\ releasing \in SUBSET (ToSet(Series) \ {NoSeries})
  /\ scans \in Seq(Scan)
  /\ mounts \in 1 .. MaxMounts
  /\ \A i, j \in DOMAIN elements : elements[i].key = elements[j].key => i = j

(* The ids in exclusive_ids, whether they passed the filter or not. *)
SeriesIds(a) == IF Series[a] = NoSeries THEN {} ELSE {b \in ArticleId : Series[b] = Series[a]}

-----------------------------------------------------------------------------
(***************************************************************************)
(* From the filtered articles to cards.                                    *)
(***************************************************************************)

Combined(options) == [item |-> options[1], options |-> ToSet(options)]

(* An article of another series, or of none, ends the open series. *)
Ends_ByReference(open, a) == open # <<>>
Ends_PlainOnly(open, a) == open # <<>> /\ Series[a] = NoSeries
Ends(open, a) == open # <<>> /\ Series[a] # Series[open[1]]

Collect(acc, a) ==
  LET flushed == IF Ends(acc.open, a)
                 THEN [done |-> Append(acc.done, Combined(acc.open)), open |-> <<>>]
                 ELSE acc
  IN  IF Series[a] = NoSeries
      THEN [flushed EXCEPT !.done = Append(@, [item |-> a, options |-> {}])]
      ELSE [flushed EXCEPT !.open = Append(@, a)]

(* One card for each run of articles of one series.  Nothing ends a series  *)
(* that is open at the end of the list.                                     *)
ProcessBallotItems(items) == FoldLeft(Collect, [done |-> <<>>, open |-> <<>>], items).done

(* The constructor's reset. *)
Reset(entry) ==
  [key |-> entry.item, item |-> entry.item, options |-> entry.options,
   picked |-> FALSE, blocked |-> FALSE, covered |-> FALSE, marked |-> FALSE]

(* A new element, after its first update: resetFromBudget covers the card   *)
(* of an article that is selected, and blocks nothing.                      *)
NewElement(entry, selected, picked) ==
  [Reset(entry) EXCEPT !.picked = picked, !.covered = entry.item \in selected]

Single(entry) == entry.options = {entry.item}

(* repeat: elements stay with their keys.  A new one stands for an entry    *)
(* that was swapped, and the swapped object remembers that it was picked.   *)
Render(entries, selected) ==
  LET Kept(entry) == {e \in ToSet(elements) : e.key = entry.item}
      ElementOf(entry) == IF Kept(entry) # {}
                          THEN CHOOSE e \in Kept(entry) : TRUE
                          ELSE NewElement(entry, selected, TRUE)
  IN  [i \in DOMAIN entries |-> ElementOf(entries[i])]

Started(running) == Append(running, [at |-> 0, ids |-> <<>>])

(* The page is shown: everything of the former ballot is gone, and a scan   *)
(* follows (the one of firstUpdated stands for that of the budget as well). *)
Cards(items, selected) ==
  /\ processed' = ProcessBallotItems(items)
  /\ elements' = [i \in DOMAIN processed' |-> NewElement(processed'[i], selected, Single(processed'[i]))]
  /\ leaving' = {} /\ releasing' = {}
  /\ scans' = Started(<<>>)

SeriesInit ==
  /\ filtered \in Filtered
  /\ constitution = <<>>
  /\ processed = ProcessBallotItems(filtered)
  /\ elements = [i \in DOMAIN processed |-> NewElement(processed[i], {}, Single(processed[i]))]
  /\ leaving = {} /\ releasing = {}
  /\ scans = Started(<<>>)
  /\ mounts = 1

Mount(selected) ==
  /\ mounts < MaxMounts
  /\ mounts' = mounts + 1
  /\ Cards(filtered, selected)
  /\ UNCHANGED filtered

(* The browser's back and forward buttons. *)
LeaveAndReturn == Mount(live) /\ UNCHANGED constitution

(* "Try again selecting articles". *)
TryAgain == Mount({}) /\ constitution' = <<>>

(* A saved game is reloaded: no listed object is a selected one any more. *)
RestoreGame ==
  /\ Mount({})
  /\ constitution' = [i \in DOMAIN constitution |-> [constitution[i] EXCEPT !.listed = FALSE]]

-----------------------------------------------------------------------------
(***************************************************************************)
(* What the player does with a card.                                       *)
(***************************************************************************)

HasButtons(e) == e.item \notin Headers /\ (Series[e.item] = NoSeries \/ e.picked)

(* The menu of options is there until one of them is picked. *)
HasMenu(e) == e.options # {} /\ ~e.picked /\ ~e.marked /\ ~e.covered

SwapOutItem_Inserts(old, new) ==
  LET i == SelectInSeq(processed, LAMBDA entry : entry.item = old.item)
  IN  InsertAt(processed, i, [item |-> new, options |-> old.options])
SwapOutItem(old, new) ==
  LET i == SelectInSeq(processed, LAMBDA entry : entry.item = old.item)
  IN  ReplaceAt(processed, i, [item |-> new, options |-> old.options])

(* The end of resetFromBudget: an id of the series that is selected blocks  *)
(* by the card's own id, which setBlockedBy ignores; any other unblocks.    *)
StaysBlocked(e) == e.blocked /\ SeriesIds(e.item) \subseteq Chosen

Unhurried == Len(scans) < MaxScans

(* selectedExclusiveChanged: the first option is there already, another one *)
(* replaces it in element and list; the page is not rendered.               *)
PickOption(i, option) ==
  LET e == elements[i]
  IN  /\ HasMenu(e) /\ Unhurried
      /\ option \in e.options
      /\ IF option = e.item
         THEN /\ elements' = [elements EXCEPT ![i].picked = TRUE]
              /\ UNCHANGED processed
         ELSE /\ processed' = SwapOutItem(e, option)
              /\ elements' = [elements EXCEPT ![i].picked = TRUE, ![i].item = option,
                                              ![i].blocked = StaysBlocked(e),
                                              ![i].covered = option \in live]
      /\ scans' = Started(scans)
      /\ UNCHANGED <<filtered, constitution, leaving, releasing, mounts>>

(* The button that adds: not while the opacity layer covers the card, and   *)
(* hidden when the card is blocked.                                         *)
Addable(e) ==
  /\ HasButtons(e)
  /\ ~e.covered
  /\ e.marked \/ ~e.blocked
  /\ e.item \notin live

(* selectedItems is kept in the order of the modules (a stable sort).       *)
Insert(seq, choice) ==
  InsertAfter(seq, {c \in ToSet(seq) : ModuleTypeIndex[c.item] <= ModuleTypeIndex[choice.item]},
              choice)

SelectArticle(i) ==
  LET e == elements[i]
  IN  /\ Addable(e) /\ Unhurried
      /\ constitution' = Insert(constitution, [item |-> e.item, listed |-> TRUE])
      /\ elements' = [elements EXCEPT ![i].covered = TRUE]
      /\ leaving' = leaving \union {e.item}
      /\ scans' = Started(scans)
      /\ UNCHANGED <<filtered, processed, releasing, mounts>>

(* The button that removes, on a card that was shown already selected.  By   *)
(* id, so also the other object of the article.  The ballot is rendered, and *)
(* the series released 50 ms later; the card keeps its mark.                 *)
DeselectArticle(i) ==
  LET e == elements[i]
  IN  /\ HasButtons(e) /\ ~e.covered /\ e.marked /\ e.item \in live /\ Unhurried
      /\ constitution' = FilterSeq(constitution, {c \in ToSet(constitution) : c.item # e.item})
      /\ releasing' = releasing \union ({Series[e.item]} \ {NoSeries})
      /\ elements' = Render(processed, live \ {e.item})
      /\ scans' = Started(scans)
      /\ UNCHANGED <<filtered, processed, leaving, mounts>>

(* Any update of the ballot renders it, the choice of a tab for instance. *)
SelectTab ==
  /\ elements' = Render(processed, live)
  /\ elements' # elements
  /\ UNCHANGED <<filtered, constitution, processed, timers, mounts>>

-----------------------------------------------------------------------------
(***************************************************************************)
(* Timers.                                                                 *)
(***************************************************************************)

(* 450 ms after a click: removeFromAvailableItems, and the ballot renders. *)
RemoveFromAvailable(a) ==
  /\ a \in leaving
  /\ leaving' = leaving \ {a}
  /\ processed' = RemoveFirstMatch(processed, LAMBDA entry : entry.item = a)
  /\ elements' = Render(processed', live)
  /\ UNCHANGED <<filtered, constitution, releasing, scans, mounts>>

(* 600 ms after setInBudget, if the element is still there. *)
MarkInBudget(i) ==
  /\ elements[i].covered
  /\ elements[i].item \notin leaving
  /\ elements' = [elements EXCEPT ![i].covered = FALSE, ![i].marked = TRUE]
  /\ UNCHANGED <<filtered, constitution, processed, timers, mounts>>

SetBlockedBy(e) == [e EXCEPT !.blocked = TRUE]
SetNotBlockedBy(e) == [e EXCEPT !.blocked = FALSE]

(* 50 ms after a deselection: _resetExclusive. *)
ResetExclusive(s) ==
  /\ s \in releasing
  /\ releasing' = releasing \ {s}
  /\ elements' = [i \in DOMAIN elements |->
                    IF Series[elements[i].item] = s
                    THEN SetNotBlockedBy(elements[i])
                    ELSE elements[i]]
  /\ UNCHANGED <<filtered, constitution, processed, leaving, scans, mounts>>

(* 125 ms after its start a scan reads the selected ids, once. *)
TakeSnapshot(n) ==
  /\ scans[n].at = 0
  /\ scans' = IF elements = <<>>
              THEN RemoveAt(scans, n)
              ELSE [scans EXCEPT ![n] = [at |-> 1, ids |-> [i \in DOMAIN constitution |->
                                                              constitution[i].item]]]
  /\ UNCHANGED <<filtered, constitution, cards, leaving, releasing, mounts>>

(* Where the snapshot has articles of the card's series.  These places are  *)
(* looked up in selectedItems as it is by now.                              *)
Places(scan, e) ==
  {p \in DOMAIN scan.ids : scan.ids[p] \in SeriesIds(e.item) /\ ~e.marked}

Blocks(scan, e) ==
  \E p \in Places(scan, e) \cap DOMAIN constitution : constitution[p].item # e.item

(* selectedItems has become too short: the lookup throws, and the scan ends. *)
Throws(scan, e) == ~ (Places(scan, e) \subseteq DOMAIN constitution)

(* Every 5 ms it looks at the next element of the live list; the step after *)
(* the last ends it.                                                        *)
VisitCard(n) ==
  LET scan == scans[n]
  IN  /\ scan.at \in DOMAIN elements
      /\ elements' = [elements EXCEPT ![scan.at] = IF Blocks(scan, @) THEN SetBlockedBy(@) ELSE @]
      /\ scans' = IF scan.at = Len(elements) \/ Throws(scan, elements[scan.at])
                  THEN RemoveAt(scans, n)
                  ELSE [scans EXCEPT ![n].at = @ + 1]
      /\ UNCHANGED <<filtered, constitution, processed, leaving, releasing, mounts>>

(* The list has become shorter than the place it is at: another scan starts *)
(* and this one ends.                                                       *)
MissCard_Stays(n) ==
  /\ scans[n].at > Len(elements)
  /\ scans' = Append(scans, [at |-> 0, ids |-> <<>>])
  /\ UNCHANGED <<filtered, constitution, cards, leaving, releasing, mounts>>
MissCard(n) ==
  /\ scans[n].at > Len(elements)
  /\ scans' = Started(RemoveAt(scans, n))
  /\ UNCHANGED <<filtered, constitution, cards, leaving, releasing, mounts>>

(* Scans keep their order: all of them wait 125 ms, then 5 ms per card. *)
ScanStep ==
  \E n \in DOMAIN scans :
    /\ \A older \in 1 .. n - 1 : scans[older].at > scans[n].at
    /\ TakeSnapshot(n) \/ VisitCard(n) \/ MissCard(n)

-----------------------------------------------------------------------------
SeriesNext ==
  \/ \E i \in DOMAIN elements :
       \/ \E option \in ArticleId : PickOption(i, option)
       \/ SelectArticle(i)
       \/ DeselectArticle(i)
       \/ MarkInBudget(i)
  \/ \E a \in ArticleId : RemoveFromAvailable(a)
  \/ \E s \in ToSet(Series) : ResetExclusive(s)
  \/ ScanStep
  \/ SelectTab
  \/ LeaveAndReturn
  \/ TryAgain
  \/ RestoreGame

(* The timers of a scan fire; the player need not do anything. *)
SeriesSpec == SeriesInit /\ [][SeriesNext]_seriesVars /\ WF_seriesVars(ScanStep)

-----------------------------------------------------------------------------
(***************************************************************************)
(* Properties.                                                             *)
(***************************************************************************)

(* "Exclusive series": of the articles of one series at most one is in the  *)
(* constitution.                                                            *)
OneOfASeries == \A a, b \in Chosen : b \in SeriesIds(a) => a = b

(* As long as the ballot is shown for the first time, that holds.  Nothing  *)
(* blocks the other articles then: they have no card but the chosen one's.  *)
OneOfASeriesAtFirst == mounts = 1 => OneOfASeries

(* Each filtered article is offered by a card, itself or as an option, or   *)
(* its place was taken by a chosen article of its series: neither the       *)
(* combination of series nor a swap nor a removal by id loses one.          *)
Offered(a) == \E i \in DOMAIN processed : a \in {processed[i].item} \union processed[i].options

EveryArticleIsOffered ==
  \A a \in ToSet(filtered) \ Headers :
    Offered(a) \/ ({a} \union SeriesIds(a)) \cap Chosen # {}

(* What a card shows and toggles is the article of its entry in the list,   *)
(* through swaps, removals by id and the renders between them, so that the   *)
(* 450 ms timer takes away the card that was clicked.                       *)
CardIsItsEntry ==
  /\ Len(elements) = Len(processed)
  /\ \A i \in DOMAIN processed : elements[i].item = processed[i].item

(* The scans end, although they start one another when the list shrinks     *)
(* under them, unless the player goes on for ever.                          *)
ScansEnd == <>[](scans = <<>>)
=============================================================================
