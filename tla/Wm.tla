-------------------------------- MODULE Wm ----------------------------------
(***************************************************************************)
(* The window manager of the 32-bit desktop (kernel/wm.c): the window      *)
(* slots, the stack they stand in, the focus, maximizing, snapping and     *)
(* minimizing, the drag and the caption buttons, what "show desktop" put   *)
(* away, and the windows of programs, which /dev/wm stands for             *)
(* (kernel/wmdev.c).                                                       *)
(*                                                                         *)
(* The manager is one record, and an operation is an operator from records *)
(* to records, because its callers - the mouse, the keyboard, the shell    *)
(* and programs with a window of their own - nest them.  Where a window is *)
(* and what is drawn is left out: a press finds any visible window, or     *)
(* none, and a frame is its size.                                          *)
(***************************************************************************)
EXTENDS Integers, Sequences, FiniteSets, SequencesExt

CONSTANTS NWindows,     \* WM_MAX_WINDOWS
          Sizes,        \* the sizes a floating window can be given
          Apps,         \* the applications that are started
          Memory,       \* the answers of gfx_surface_create and _resize
          NSlots,       \* WMDEV_MAX_SLOTS
          QueueMax      \* WMDEV_QUEUE - 1, the events a slot holds

Window == 1..NWindows
NoWindow == 0

VARIABLE wm

Half == "half"
Buttons == {"min", "max", "close"}
Full == "full"

Size == Sizes \cup {Half, Full}

\* float is not the program's: the size its user last gave the window.
Slot == [open: BOOLEAN, app: Apps, min: BOOLEAN, mode: {"float", Half, Full}, size: Size,
         restore: Size, float: Sizes]

\* An open of /dev/wm.  known and lost are not the program's: what it last
\* heard of its window, the size or the end, and whether later news was dropped.
Handle == [used: BOOLEAN, win: Window \cup {NoWindow}, made: BOOLEAN, size: Size,
           queue: Seq(Size \cup {"input", "close"}), known: Size \cup {"close"}, lost: BOOLEAN]

Items == {"restore", "minimize", "maximize", "close", "power"} \cup Apps \cup {"show desktop"}

WmTypeOK ==
  wm \in [win: [Window -> Slot], z: Seq(Window), focused: Window \cup {NoWindow},
          dev: [1..NSlots -> Handle],
          menu: [open: BOOLEAN, target: Window \cup {NoWindow}, items: SUBSET Items],
          drag: [mode: {"none", "move", "resize"}, win: Window \cup {NoWindow}, moved: BOOLEAN],
          pending: {"none", Half, Full}, pressed: Buttons \cup {"none"},
          hidden: Seq(Window \cup {NoWindow}), changed: BOOLEAN]

NoDrag == [mode |-> "none", win |-> NoWindow, moved |-> FALSE]
NoMenu == [open |-> FALSE, target |-> NoWindow, items |-> {}]

AnySize == CHOOSE s \in Sizes : TRUE
\* Nothing is done with what is left in a closed slot.
Closed == [open |-> FALSE, app |-> CHOOSE a \in Apps : TRUE, min |-> FALSE, mode |-> "float",
           size |-> AnySize, restore |-> AnySize, float |-> AnySize]
Unused == [used |-> FALSE, win |-> NoWindow, made |-> FALSE, size |-> AnySize,
           queue |-> <<>>, known |-> AnySize, lost |-> FALSE]

WmStart == [win |-> [w \in Window |-> Closed], z |-> <<>>, focused |-> NoWindow,
            dev |-> [d \in 1..NSlots |-> Unused], menu |-> NoMenu,
            drag |-> NoDrag, pending |-> "none", pressed |-> "none",
            hidden |-> <<>>, changed |-> FALSE]

-----------------------------------------------------------------------------
(* The events of a program's window.                                       *)

\* slot_of
SlotOf(g, w) == {d \in DOMAIN g.dev : g.dev[d].used /\ g.dev[d].win = w}

\* queue_push: the newest event is dropped when the queue is full.
Push(s, e) ==
  IF Len(s.queue) = QueueMax THEN [s EXCEPT !.lost = @ \/ e # "input"]
  ELSE [s EXCEPT !.queue = Append(@, e), !.lost = @ /\ e = "input"]

OnSlots(g, w, Op(_)) == [g EXCEPT !.dev = [d \in DOMAIN @ |-> IF d \in SlotOf(g, w) THEN Op(@[d]) ELSE @[d]]]

WmdevInput(g, w) == OnSlots(g, w, LAMBDA s : Push(s, "input"))

WmdevClosed(g, w) == OnSlots(g, w, LAMBDA s : [Push(s, "close") EXCEPT !.win = NoWindow])

\* The window has another size than the program was told.
WmdevPaint(g, w) ==
  OnSlots(g, w, LAMBDA s : IF s.size = g.win[w].size THEN s
                           ELSE [Push(s, g.win[w].size) EXCEPT !.size = g.win[w].size])

-----------------------------------------------------------------------------
Visible(g) == SelectSeq(g.z, LAMBDA w : g.win[w].open /\ ~g.win[w].min)
TopmostVisible(g) == IF Visible(g) = <<>> THEN NoWindow ELSE Last(Visible(g))
Raised(z, w) == Append(SelectSeq(z, LAMBDA v : v # w), w)

\* The slot wm_open takes.
FreeSlot(g) == IF \A w \in Window : g.win[w].open THEN NoWindow
               ELSE CHOOSE w \in Window :
                      ~g.win[w].open /\ \A v \in 1..(w - 1) : g.win[v].open

Open(g, a, s, ok) ==
  LET w == FreeSlot(g)
  IN IF w = NoWindow \/ ~ok THEN g
     ELSE [g EXCEPT !.win[w] = [open |-> TRUE, app |-> a, min |-> FALSE, mode |-> "float",
                                size |-> s, restore |-> s, float |-> s],
                    !.z = Raised(@, w), !.focused = w, !.changed = TRUE]

Forget(g, w) == [i \in DOMAIN g.hidden |-> IF g.hidden[i] = w THEN NoWindow ELSE g.hidden[i]]

Close(g, w) ==
  IF w = NoWindow \/ ~g.win[w].open THEN g
  ELSE LET h == [WmdevClosed(g, w) EXCEPT !.win[w] = Closed, !.changed = TRUE,
                                          !.z = SelectSeq(@, LAMBDA v : v # w)]
       IN [h EXCEPT !.focused = IF @ = w THEN TopmostVisible(h) ELSE @,
                    !.drag = IF @.win = w THEN NoDrag ELSE @,
                    !.hidden = Forget(g, w)]

Unminimize(g, w) ==
  IF w = NoWindow \/ ~g.win[w].open \/ ~g.win[w].min THEN g
  ELSE [g EXCEPT !.win[w].min = FALSE, !.z = Raised(@, w), !.focused = w, !.changed = TRUE]

Minimize(g, w) ==
  IF w = NoWindow \/ ~g.win[w].open \/ g.win[w].min THEN g
  ELSE LET h == [g EXCEPT !.win[w].min = TRUE, !.changed = TRUE]
       IN [h EXCEPT !.focused = IF @ = w THEN TopmostVisible(h) ELSE @]

FocusQuietly(g, w) ==
  IF w = NoWindow \/ ~g.win[w].open THEN g
  ELSE LET h == Unminimize(g, w) IN [h EXCEPT !.z = Raised(@, w), !.focused = w]

Focus(g, w) ==
  IF w = NoWindow \/ ~g.win[w].open THEN g
  ELSE LET h == Unminimize(g, w)
       IN IF h.focused = w /\ Last(h.z) = w THEN h
          ELSE [h EXCEPT !.z = Raised(@, w), !.focused = w, !.changed = TRUE]

-----------------------------------------------------------------------------
(* The size a window has, and the one it goes back to.                     *)

\* set_frame: ok is what gfx_surface_resize answers, when it is asked.
SetFrame(g, w, s, ok) == IF ok THEN [g EXCEPT !.win[w].size = s] ELSE g

SaveRestoreFrame(g, w) ==
  IF g.win[w].mode # "float" THEN g ELSE [g EXCEPT !.win[w].restore = g.win[w].size]

\* The applications whose windows cannot be resized.
FixedSize(g, w) == g.win[w].app \in {"about", "alert"}

Maximize(g, w, ok) ==
  IF w = NoWindow \/ ~g.win[w].open \/ FixedSize(g, w) \/ g.win[w].mode = Full THEN g
  ELSE [SetFrame(SaveRestoreFrame(g, w), w, Full, ok) EXCEPT !.win[w].mode = Full,
                                                              !.changed = TRUE]

Restore(g, w, ok) ==
  IF w = NoWindow \/ ~g.win[w].open \/ g.win[w].mode = "float" THEN g
  ELSE SetFrame([g EXCEPT !.win[w].mode = "float", !.changed = TRUE], w, g.win[w].restore, ok)

ToggleMaximize(g, w, ok) ==
  IF w = NoWindow \/ ~g.win[w].open \/ FixedSize(g, w) THEN g
  ELSE IF g.win[w].mode = Full THEN Restore(g, w, ok) ELSE Maximize(g, w, ok)

Snap(g, w, target, ok) ==
  IF target = Full THEN Maximize(g, w, ok)
  ELSE IF w = NoWindow \/ ~g.win[w].open \/ FixedSize(g, w) THEN g
  ELSE [SetFrame(SaveRestoreFrame(g, w), w, Half, ok) EXCEPT !.win[w].mode = Half,
                                                              !.changed = TRUE]

\* The windows go away front to back and come back back to front, so the one
\* that had the focus has it again.
ToggleShowDesktop(g) ==
  IF Visible(g) = <<>> THEN [FoldLeft(Unminimize, g, g.hidden) EXCEPT !.hidden = <<>>]
  ELSE FoldLeft(Minimize, [g EXCEPT !.hidden = Visible(g)], Reverse(Visible(g)))

-----------------------------------------------------------------------------
(* The mouse.  An event is an operator to the set of records it may leave. *)

\* An application that has one window at most comes to the front when it is
\* started again; there are two alerts (alert_pool).
WindowsOf(g, a) == {w \in Window : g.win[w].open /\ g.win[w].app = a}
Launch(g, a) ==
  IF a \in {"terminal", "files", "monitor", "about"} /\ WindowsOf(g, a) # {}
  THEN {Focus(g, w) : w \in WindowsOf(g, a)}
  ELSE IF a = "alert" /\ Cardinality(WindowsOf(g, a)) = 2 THEN {g}
  ELSE {Open(g, a, s, ok) : s \in Sizes, ok \in Memory}

\* What an application does with an event: nothing the manager sees, or it
\* closes its own window, or it starts another.
Starts(a) == Apps \cap (CASE a = "files" -> {"textview", "terminal", "alert"}
                          [] a = "about" -> {"monitor", "alert"}
                          [] OTHER -> {})
Deliver(g, w) ==
  IF g.win[w].app = "wine" THEN {WmdevInput(g, w)}
  ELSE {g} \cup (IF g.win[w].app = "alert" THEN {Close(g, w)} ELSE {})
       \cup UNION {Launch(g, a) : a \in Starts(g.win[w].app)}

\* The menu of a window's caption: what it can do is settled when it opens.
ShowMenu(g, w, items) == [g EXCEPT !.menu = [open |-> TRUE, target |-> w, items |-> items]]

ShowSystemMenu(g, w) ==
  ShowMenu(g, w, {"close"} \cup (IF g.win[w].mode # "float" THEN {"restore"} ELSE {})
                 \cup (IF g.win[w].min THEN {} ELSE {"minimize"})
                 \cup (IF FixedSize(g, w) \/ g.win[w].mode = Full THEN {} ELSE {"maximize"}))

\* A window dragged off a snap keeps the pointer and gets its size back.
UnsnapForDrag(g, w, ok) ==
  IF g.win[w].mode = "float" THEN g
  ELSE SetFrame([g EXCEPT !.win[w].mode = "float", !.changed = TRUE], w, g.win[w].restore, ok)

\* The user gives a floating window a new size; a snapped one keeps the old
\* one to go back to.
DragResizeTo(g, w, s, ok) ==
  LET h == SetFrame(g, w, s, ok)
  IN IF ok /\ g.win[w].mode = "float" THEN [h EXCEPT !.win[w].float = s] ELSE h

DragMove(g, ok) ==
  LET w == g.drag.win
      h == IF g.drag.moved THEN g ELSE UnsnapForDrag(g, w, ok)
      targets == IF FixedSize(g, w) THEN {"none"} ELSE {"none", Half, Full}
  IN IF g.drag.mode = "resize" THEN {DragResizeTo(g, w, s, ok) : s \in Sizes}
     ELSE {[h EXCEPT !.drag.moved = TRUE, !.pending = t] : t \in targets}
          \cup (IF g.drag.moved THEN {} ELSE {g})

DragRelease(g, ok) ==
  LET h == [g EXCEPT !.drag = NoDrag, !.pending = "none"]
  IN IF g.pending = "none" THEN h ELSE Snap(h, g.drag.win, g.pending, ok)

Dragging(g) == g.drag.mode # "none"

\* The regions a press in window w can resolve to (hit_test).
Hits(g, w) == {"client", "caption", "icon"} \cup Buttons
              \cup (IF FixedSize(g, w) \/ g.win[w].mode = Full THEN {} ELSE {"edge"})

\* twice: a second click on the same window within half a second.
PressLeft(g, w, hit, twice, ok) ==
  LET h == Focus(g, w)
  IN CASE hit \in Buttons -> {[h EXCEPT !.pressed = hit]}
       [] hit = "edge" -> {[h EXCEPT !.drag = [mode |-> "resize", win |-> w, moved |-> FALSE]]}
       [] hit = "icon" -> {IF twice THEN Close(h, w) ELSE ShowSystemMenu(h, w)}
       [] hit = "caption" ->
            {IF twice THEN ToggleMaximize(h, w, ok)
             ELSE [h EXCEPT !.drag = [mode |-> "move", win |-> w, moved |-> FALSE]]}
       [] hit = "client" -> Deliver(h, w)

PressRight(g, w, hit) ==
  IF hit \in {"caption", "icon"} THEN {ShowSystemMenu(Focus(g, w), w)} ELSE Deliver(Focus(g, w), w)

\* A button acts when it is let go over the same button - of any window.
Release(g, w, hit, ok) ==
  LET h == [g EXCEPT !.pressed = "none"]
  IN IF g.pressed = "none" THEN Deliver(g, w)
     ELSE {IF hit # g.pressed THEN h
           ELSE CASE hit = "min" -> Minimize(h, w)
                  [] hit = "max" -> ToggleMaximize(h, w, ok)
                  [] hit = "close" -> Close(h, w)}

\* wm_handle_mouse, one operator for each kind of event it tells apart; the
\* pointer is over a part of a visible window.
Pointed(g) == UNION {{w} \X Hits(g, w) : w \in Range(Visible(g))}

HandleLeft(g) ==
  UNION {IF Dragging(g) THEN DragMove(g, ok)
         ELSE UNION {PressLeft(g, p[1], p[2], twice, ok) : twice \in BOOLEAN, p \in Pointed(g)} :
           ok \in Memory}

HandleRight(g) ==
  IF Dragging(g) THEN UNION {DragMove(g, ok) : ok \in Memory}
  ELSE UNION {PressRight(g, p[1], p[2]) : p \in Pointed(g)}

HandleRelease(g) ==
  UNION {IF Dragging(g) THEN {DragRelease(g, ok)}
         ELSE {[g EXCEPT !.pressed = "none"]}
              \cup UNION {Release(g, p[1], p[2], ok) : p \in Pointed(g)} : ok \in Memory}

HandleMove(g) ==
  IF Dragging(g) THEN UNION {DragMove(g, ok) : ok \in Memory}
  ELSE UNION {Deliver(g, w) : w \in Range(Visible(g))}

\* wm_handle_key: Alt+F4, Alt+Space, the Windows key with an arrow, or the
\* application.
HandleKey(g, keys) ==
  LET w == g.focused
  IN IF w = NoWindow THEN {g}
     ELSE (IF "close" \in keys THEN {Close(g, w)} ELSE {})
          \cup (IF "menu" \in keys THEN {ShowSystemMenu(g, w)} ELSE {})
          \cup (IF "keys" \in keys THEN Deliver(g, w) ELSE {})
          \cup (IF "snap" \in keys
                THEN UNION {{Snap(g, w, Half, ok), Maximize(g, w, ok),
                             IF g.win[w].mode # "float" THEN Restore(g, w, ok)
                             ELSE Minimize(g, w)} : ok \in Memory}
                ELSE {})

-----------------------------------------------------------------------------
(* What a program does with a descriptor of /dev/wm.                       *)

DevOpen(g) ==
  {[g EXCEPT !.dev[d] = [Unused EXCEPT !.used = TRUE]] :
     d \in {e \in DOMAIN g.dev : ~g.dev[e].used /\ \A f \in 1..(e - 1) : g.dev[f].used}}

\* A descriptor makes one window in its life; it stays the one on top.
DevCreate(g, d, s, ok) ==
  LET h == Open(g, "wine", s, ok)
  IN IF g.dev[d].made \/ h = g THEN g
     ELSE [h EXCEPT !.dev[d].win = FreeSlot(g), !.dev[d].made = TRUE,
                    !.dev[d].size = s, !.dev[d].known = s]

DevPoll(g, d) ==
  LET s == g.dev[d]
  IN IF s.queue = <<>> THEN g
     ELSE [g EXCEPT !.dev[d].queue = Tail(@),
                    !.dev[d].known = IF Head(s.queue) = "input" THEN @ ELSE Head(s.queue)]

\* slot_release: the window goes without an event, for nobody reads it.
DevRelease(g, d) ==
  [Close([g EXCEPT !.dev[d].win = NoWindow], g.dev[d].win) EXCEPT !.dev[d] = Unused]

-----------------------------------------------------------------------------
OpenWindows(g) == {w \in Window : g.win[w].open}

\* The stack holds exactly the open windows, each once; the keyboard goes to
\* the visible window on top; and nothing the manager remembers from an earlier
\* event - the drag, what it hid - names a closed window, whose
\* slot the next wm_open takes (wm_open, wm_close, wm_minimize, wm_focus).
StackSound ==
  /\ IsInjective(wm.z) /\ Range(wm.z) = OpenWindows(wm)
  /\ wm.focused = TopmostVisible(wm)
  /\ {wm.drag.win} \cup Range(wm.hidden) \subseteq OpenWindows(wm) \cup {NoWindow}
  /\ Dragging(wm) <=> wm.drag.win # NoWindow

\* A window comes back at the size its user last gave it, however it was
\* maximized, snapped, dragged and resized in between (save_restore_frame,
\* unsnap_for_drag).
RestoreExact ==
  \A w \in OpenWindows(wm) : wm.win[w].float =
     IF wm.win[w].mode = "float" THEN wm.win[w].size ELSE wm.win[w].restore

\* "Show desktop" pressed twice leaves the same windows, in the same order and
\* with the same focus, in view (wm_toggle_show_desktop).
ShowsAgain ==
  Visible(wm) # <<>> =>
    LET g == ToggleShowDesktop(ToggleShowDesktop(wm))
    IN Visible(g) = Visible(wm) /\ g.focused = wm.focused

\* A descriptor of /dev/wm and its window belong to each other: a program's
\* window is the window of one open descriptor, and no descriptor points at a
\* slot another window has taken over.  What the program has read and what
\* waits for it end with the size its window has, or with its end, unless the
\* queue was full when that was to be told (wmdev_closed, wmdev_paint).
LastNews(s) == LET news == SelectSeq(s.queue, LAMBDA e : e # "input")
               IN IF news = <<>> THEN s.known ELSE Last(news)
DeviceSound ==
  /\ \A w \in OpenWindows(wm) : wm.win[w].app = "wine" <=> Cardinality(SlotOf(wm, w)) = 1
  /\ \A d \in DOMAIN wm.dev : LET s == wm.dev[d] IN
       /\ s.win # NoWindow => wm.win[s.win].open
       /\ s.made /\ ~s.lost => LastNews(s) = IF s.win = NoWindow THEN "close" ELSE s.size
=============================================================================
