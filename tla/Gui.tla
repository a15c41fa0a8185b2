--------------------------------- MODULE Gui ---------------------------------
(***************************************************************************)
(* The widget tree of gui/framebuffer.c and the frame that is drawn from   *)
(* it, as functions of a tree and a frame buffer.                          *)
(*                                                                         *)
(* A tree is [kids, parent]: kids[w] are the first nch entries of          *)
(* w->children, in which NULL stands for an entry that is counted before   *)
(* it is stored.  A picture is what a frame buffer holds: by band, the     *)
(* widgets painted there since one filled the band over its whole width.   *)
(***************************************************************************)
EXTENDS Display

CONSTANT NULL

\* The widgets of build_main_ui: the root is gui_init's.
Widgets == {"root", "bar", "dev_info", "main_card", "prompt", "row1", "row2",
            "row3", "bot", "ver"}

NoTree == [kids |-> [w \in Widgets |-> <<>>], parent |-> [w \in Widgets |-> NULL]]

\* Offset in the parent, height, and whether it is as wide as the frame, on a
\* panel of the given capabilities.
Box(w, caps) ==
  LET H == caps.height
      At(y, h) == [y |-> y, h |-> h, wide |-> FALSE]
      Wide(y, h) == [y |-> y, h |-> h, wide |-> caps.width >= LCD_W]
  IN  CASE w = "root"      -> [y |-> 0, h |-> LCD_H, wide |-> TRUE]
        [] w = "bar"       -> Wide(0, 40)
        [] w = "dev_info"  -> At(10, 22)
        [] w = "main_card" -> At(60, H - 180)
        [] w = "prompt"    -> At(H \div 2 - 60, 40)
        [] w = "row1"      -> At(H \div 2 + 20, 24)
        [] w = "row2"      -> At(H \div 2 + 48, 24)
        [] w = "row3"      -> At(H \div 2 + 76, 24)
        [] w = "bot"       -> Wide(H - 80, 80)
        [] w = "ver"       -> At(H - 56, 20)

\* widget_abs(): the offsets of a widget and of all above it.
WidgetAbs(tree, caps) ==
  LET Y[w \in Widgets] == Box(w, caps).y + (IF tree.parent[w] = NULL THEN 0
                                            ELSE Y[tree.parent[w]])
  IN  Y

\* The order in which widget_render comes to the widgets, each with its place.
Rectangles(tree, caps) ==
  LET Y == WidgetAbs(tree, caps)
      Rect(w) == [w |-> w, y |-> Y[w], h |-> Box(w, caps).h, wide |-> Box(w, caps).wide]
      Walk[w \in Widgets \cup {NULL}] ==
        IF w = NULL THEN <<NULL>>
        ELSE <<Rect(w)>> \o FlattenSeq([i \in DOMAIN tree.kids[w] |-> Walk[tree.kids[w][i]]])
  IN  Walk["root"]

\* A slip: only the first band of the rectangle is marked.
MarkFirst(dirty, y, h) == dirty \cup {y \div BAND}

\* mark(): the bands of a rectangle, which gui_fill_rect has clipped.
Mark(dirty, y, h) == dirty \cup Touched(y, h)

\* gui_fill_rect and gui_draw_string of one widget, for a band with the content c.
FillRect(c, r, b) ==
  IF b \notin Touched(r.y, r.h) THEN c
  ELSE IF r.wide /\ Fills(r.y, r.h, b) THEN {r.w} ELSE c \cup {r.w}

\* The picture that painting the rectangles makes of an older one.
Painted(rects, picture) ==
  LET Paint(b) == LET P[i \in 0 .. Len(rects)] ==
                        IF i = 0 THEN picture[b] ELSE FillRect(P[i - 1], rects[i], b)
                  IN  P[Len(rects)]
  IN  [b \in Bands |-> Paint(b)]

\* The bands that are set behind a frame.
Marked(rects, dirty) ==
  LET M[i \in 0 .. Len(rects)] ==
        IF i = 0 THEN dirty ELSE Mark(M[i - 1], rects[i].y, rects[i].h)
  IN  M[Len(rects)]

\* What a viewer of the tree expects in a band: the widgets that reach into it
\* and are not painted over by a later one.
Scene(rects) ==
  LET In(b)   == {i \in DOMAIN rects : b \in Touched(rects[i].y, rects[i].h)}
      Over(b) == {i \in In(b) : rects[i].wide /\ Fills(rects[i].y, rects[i].h, b)}
  IN  [b \in Bands |-> {rects[i].w : i \in {j \in In(b) : \A k \in Over(b) : k <= j}}]

==============================================================================
