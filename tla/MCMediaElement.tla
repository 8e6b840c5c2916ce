---------------------------- MODULE MCMediaElement ----------------------------
(* Two videos, an audio, a post that says video while it has none yet, one  *)
(* with a video that is not its cover, and covers without a player.         *)
EXTENDS MediaElement

Item(name, cover, plays) ==
  [name |-> name, category |-> FALSE, cover |-> cover, located |-> FALSE, old |-> FALSE,
   media |-> plays]
MCItems ==
  {Item("video", "video", "video"), Item("film", "video", "video"),
   Item("song", "audio", "audio"), Item("early", "video", "none"),
   Item("picture", "image", "video"),
   [Item("old", "none", "none") EXCEPT !.category = TRUE, !.old = TRUE],
   [Item("new", "none", "none") EXCEPT !.category = TRUE],
   [Item("place", "map", "none") EXCEPT !.located = TRUE]}
=============================================================================
